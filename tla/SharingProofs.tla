---------------------------- MODULE SharingProofs ----------------------------
(***************************************************************************)
(* Theorems about Sharing, for every set of accounts and tabs and any      *)
(* number of requests.                                                     *)
(***************************************************************************)
EXTENDS Sharing, TLAPS

USE AccountAssumption, WatcherAssumption, RequestsAssumption DEF Conn

-----------------------------------------------------------------------------
(* Type correctness *)

(* Only tabs enable, remove, restrict and block; a connection that serves a *)
(* frame is up, for its end is handled after the frame.                     *)
Serving(c) ==
  /\ task[c].op \notin {"idle", "filter", "reply"} => c \in Tab
  /\ task[c] # Idle => client[c].up
TypeInv == TypeOK /\ \A c \in Conn : Serving(c)

LEMMA IdleIsTask == Idle \in Task /\ Idle.op = "idle" /\ Idle.ids = {}
BY DEF Idle, Task, Op

LEMMA Counted ==
  ASSUME NEW n \in 0..MaxRequests, n < MaxRequests PROVE n + 1 \in 0..MaxRequests
OBVIOUS

LEMMA TypeInit == Init => TypeInv
<1> SUFFICES ASSUME Init PROVE TypeInv
  OBVIOUS
<1> DEFINE k == [up |-> TRUE, shown |-> FALSE, asked |-> FALSE,
                 queued |-> FALSE, news |-> FALSE, missed |-> FALSE]
<1>1. k \in Client /\ k.up /\ client = [c \in Conn |-> k]
  BY DEF Client, Init
<1> HIDE DEF k
<1>2. client \in [Conn -> Client] /\ task \in [Conn -> Task]
      /\ \A c \in Conn : client[c].up /\ task[c] = Idle
  BY <1>1, IdleIsTask DEF Init
<1>3. \A c \in Conn : Serving(c)
  BY <1>2, IdleIsTask DEF Serving
<1>4. requests \in 0..MaxRequests
  BY DEF Init
<1>5. QED
  BY <1>2, <1>3, <1>4 DEF Init, TypeInv, TypeOK

LEMMA Types ==
  TypeInv =>
    /\ task \in [Conn -> Task] /\ client \in [Conn -> Client]
    /\ \A c \in Conn : /\ task[c] \in Task /\ client[c] \in Client /\ Serving(c)
                       /\ task[c].ids \subseteq Other /\ task[c].todo \subseteq Other
                       /\ task[c].op \in Op /\ client[c].up \in BOOLEAN
BY DEF TypeInv, TypeOK, Task, Client

(* What a step may make of the task of its connection.                      *)
LEMMA TaskGoes ==
  ASSUME TypeInv, NEW c \in Conn, NEW r \in Task, task' = [task EXCEPT ![c] = r],
         \A d \in Conn : client'[d].up = client[d].up, client' \in [Conn -> Client],
         task[c] # Idle \/ client[c].up \/ r = Idle,
         r.op \notin {"idle", "filter", "reply"} => c \in Tab
  PROVE  task' \in [Conn -> Task] /\ \A d \in Conn : Serving(d)'
<1>1. task' \in [Conn -> Task] /\ task'[c] = r /\ \A d \in Conn \ {c} : task'[d] = task[d]
  BY Types
<1>2. ASSUME NEW d \in Conn PROVE Serving(d)'
  <2>1. Serving(d) /\ Serving(c)
    BY Types
  <2>2. CASE d = c
    BY <1>1, <2>1, <2>2, IdleIsTask DEF Serving
  <2>3. CASE d # c
    BY <1>1, <2>1, <2>3 DEF Serving
  <2>4. QED
    BY <2>2, <2>3
<1>3. QED
  BY <1>1, <1>2

(* ChangeHub::publish only makes news. *)
LEMMA ToldTypes ==
  ASSUME TypeInv
  PROVE  Told \in [Conn -> Client] /\ \A d \in Conn : Told[d].up = client[d].up
<1>1. \A d \in Conn : [client[d] EXCEPT !.news = @ \/ client[d].up] \in Client
                      /\ [client[d] EXCEPT !.news = @ \/ client[d].up].up = client[d].up
  BY Types DEF Client
<1>2. QED
  BY <1>1, Types DEF Told

LEMMA TypeStep == TypeInv /\ [Next]_vars => TypeInv'
<1> SUFFICES ASSUME TypeInv, [Next]_vars PROVE TypeInv'
  OBVIOUS
<1>0. /\ task \in [Conn -> Task] /\ client \in [Conn -> Client]
      /\ \A c \in Conn : /\ task[c] \in Task /\ client[c] \in Client /\ Serving(c)
                         /\ task[c].ids \subseteq Other /\ task[c].todo \subseteq Other
                         /\ task[c].op \in Op /\ client[c].up \in BOOLEAN
      /\ Idle \in Task /\ Idle.op = "idle"
      /\ TypeOK
  BY Types, IdleIsTask DEF TypeInv
<1>1. ASSUME NEW c \in Conn, FindShare(c) PROVE TypeInv'
  <2> DEFINE r == [task[c] EXCEPT !.op = IF row THEN "attach" ELSE "create"]
  <2>1. r \in Task
    BY <1>0 DEF Task, Op
  <2>2. task' = [task EXCEPT ![c] = r] /\ UNCHANGED <<default, client, requests>> /\ c \in Tab /\ task[c] # Idle
    BY <1>0, <1>1 DEF FindShare, Goes, Step, Serving
  <2>3. task' \in [Conn -> Task] /\ \A d \in Conn : Serving(d)'
    BY <1>0, <2>1, <2>2, TaskGoes
  <2>4. client[c].up
    BY <1>0, <2>2 DEF Serving
  <2>5. QED
    BY <1>0, <1>1, <2>2, <2>3, <2>4 DEF FindShare, TypeInv, TypeOK, share, notes
<1>2. ASSUME NEW c \in Conn, CreateShare(c) PROVE TypeInv'
  <2> DEFINE r == [task[c] EXCEPT !.op = "default"]
  <2>1. r \in Task
    BY <1>0 DEF Task, Op
  <2>2. task' = [task EXCEPT ![c] = r] /\ UNCHANGED <<default, client, requests>> /\ c \in Tab /\ task[c] # Idle
    BY <1>0, <1>2 DEF CreateShare, Goes, Step, Serving
  <2>3. task' \in [Conn -> Task] /\ \A d \in Conn : Serving(d)'
    BY <1>0, <2>1, <2>2, TaskGoes
  <2>4. client[c].up
    BY <1>0, <2>2 DEF Serving
  <2>5. QED
    BY <1>0, <1>2, <2>2, <2>3, <2>4 DEF CreateShare, TypeInv, TypeOK, share, notes
<1>3. ASSUME NEW c \in Conn, ReadDefault(c) PROVE TypeInv'
  <2> DEFINE r == [task[c] EXCEPT !.op = IF default = "private" THEN "close" ELSE "attach"]
  <2>1. r \in Task
    BY <1>0 DEF Task, Op
  <2>2. task' = [task EXCEPT ![c] = r] /\ UNCHANGED <<default, client, requests>> /\ c \in Tab /\ task[c] # Idle
    BY <1>0, <1>3 DEF ReadDefault, Goes, Step, Serving
  <2>3. task' \in [Conn -> Task] /\ \A d \in Conn : Serving(d)'
    BY <1>0, <2>1, <2>2, TaskGoes
  <2>4. client[c].up
    BY <1>0, <2>2 DEF Serving
  <2>5. QED
    BY <1>0, <1>3, <2>2, <2>3, <2>4 DEF ReadDefault, TypeInv, TypeOK, share, notes
<1>4. ASSUME NEW c \in Conn, CloseShare(c) PROVE TypeInv'
  <2> DEFINE r == [task[c] EXCEPT !.op = "attach"]
  <2>1. r \in Task
    BY <1>0 DEF Task, Op
  <2>2. task' = [task EXCEPT ![c] = r] /\ UNCHANGED <<default, client, requests>> /\ c \in Tab /\ task[c] # Idle
    BY <1>0, <1>4 DEF CloseShare, Goes, Step, Serving
  <2>3. task' \in [Conn -> Task] /\ \A d \in Conn : Serving(d)'
    BY <1>0, <2>1, <2>2, TaskGoes
  <2>4. client[c].up
    BY <1>0, <2>2 DEF Serving
  <2>5. QED
    BY <1>0, <1>4, <2>2, <2>3, <2>4 DEF CloseShare, TypeInv, TypeOK, share, notes
<1>5. ASSUME NEW c \in Conn, Attach(c) PROVE TypeInv'
  <2> DEFINE r == IF presence = {} THEN [task[c] EXCEPT !.op = "announce"] ELSE Idle
  <2>1. r \in Task
    BY <1>0 DEF Task, Op
  <2>2. task' = [task EXCEPT ![c] = r] /\ UNCHANGED <<default, client, requests>> /\ c \in Tab /\ task[c] # Idle
    BY <1>0, <1>5 DEF Attach, Goes, Ends, Step, Serving
  <2>3. task' \in [Conn -> Task] /\ \A d \in Conn : Serving(d)'
    BY <1>0, <2>1, <2>2, TaskGoes
  <2>4. client[c].up
    BY <1>0, <2>2 DEF Serving
  <2>5. QED
    BY <1>0, <1>5, <2>2, <2>3, <2>4 DEF Attach, TypeInv, TypeOK, share, notes
<1>6. ASSUME NEW c \in Conn, DeleteShare(c) PROVE TypeInv'
  <2> DEFINE r == [task[c] EXCEPT !.op = "absent"]
  <2>1. r \in Task
    BY <1>0 DEF Task, Op
  <2>2. task' = [task EXCEPT ![c] = r] /\ UNCHANGED <<default, client, requests>> /\ c \in Tab /\ task[c] # Idle
    BY <1>0, <1>6 DEF DeleteShare, Goes, Step, Serving
  <2>3. task' \in [Conn -> Task] /\ \A d \in Conn : Serving(d)'
    BY <1>0, <2>1, <2>2, TaskGoes
  <2>4. client[c].up
    BY <1>0, <2>2 DEF Serving
  <2>5. QED
    BY <1>0, <1>6, <2>2, <2>3, <2>4 DEF DeleteShare, TypeInv, TypeOK, share, notes
<1>7. ASSUME NEW c \in Conn, DropPresence(c) PROVE TypeInv'
  <2> DEFINE r == [task[c] EXCEPT !.op = "announce"]
  <2>1. r \in Task
    BY <1>0 DEF Task, Op
  <2>2. task' = [task EXCEPT ![c] = r] /\ UNCHANGED <<default, client, requests>> /\ c \in Tab /\ task[c] # Idle
    BY <1>0, <1>7 DEF DropPresence, Goes, Step, Serving
  <2>3. task' \in [Conn -> Task] /\ \A d \in Conn : Serving(d)'
    BY <1>0, <2>1, <2>2, TaskGoes
  <2>4. client[c].up
    BY <1>0, <2>2 DEF Serving
  <2>5. QED
    BY <1>0, <1>7, <2>2, <2>3, <2>4 DEF DropPresence, TypeInv, TypeOK, share, notes
<1>8. ASSUME NEW c \in Conn, WriteAccess(c) PROVE TypeInv'
  <2> DEFINE r == [task[c] EXCEPT !.op = "info"]
  <2>1. r \in Task
    BY <1>0 DEF Task, Op
  <2>2. task' = [task EXCEPT ![c] = r] /\ UNCHANGED <<default, client, requests>> /\ c \in Tab /\ task[c] # Idle
    BY <1>0, <1>8 DEF WriteAccess, Goes, Step, Serving
  <2>3. task' \in [Conn -> Task] /\ \A d \in Conn : Serving(d)'
    BY <1>0, <2>1, <2>2, TaskGoes
  <2>4. client[c].up
    BY <1>0, <2>2 DEF Serving
  <2>5. QED
    <3>1. task[c].mode \in {"everyone", "selected"} /\ task[c].ids \subseteq Other
      BY <1>0 DEF Task
    <3>2. /\ row /\ UNCHANGED <<row, blocked, presence, claimed, raced, silent>>
          /\ access' = task[c].mode /\ listed' = task[c].ids /\ chosen' = "owner"
          /\ late' = late \cup (task[c].ids \cap blocked)
      BY <1>8 DEF WriteAccess
    <3>3. /\ access' \in {"open", "everyone", "selected"} /\ listed' \subseteq Other
          /\ late' \subseteq Other /\ row'
      BY <1>0, <3>1, <3>2 DEF TypeOK
    <3>4. QED
      BY <1>0, <2>2, <2>3, <2>4, <3>2, <3>3 DEF TypeInv, TypeOK
<1>9. ASSUME NEW c \in Conn, Unlist(c) PROVE TypeInv'
  <2> DEFINE r == [task[c] EXCEPT !.op = "announce"]
  <2>1. r \in Task
    BY <1>0 DEF Task, Op
  <2>2. task' = [task EXCEPT ![c] = r] /\ UNCHANGED <<default, client, requests>> /\ c \in Tab /\ task[c] # Idle
    BY <1>0, <1>9 DEF Unlist, Goes, Step, Serving
  <2>3. task' \in [Conn -> Task] /\ \A d \in Conn : Serving(d)'
    BY <1>0, <2>1, <2>2, TaskGoes
  <2>4. client[c].up
    BY <1>0, <2>2 DEF Serving
  <2>5. QED
    BY <1>0, <1>9, <2>2, <2>3, <2>4 DEF Unlist, TypeInv, TypeOK, share, notes
<1>10. ASSUME NEW c \in Conn, NEW a \in Other, CheckAccount(c, a) PROVE TypeInv'
  <2> DEFINE r == IF a \in blocked THEN Idle ELSE [task[c] EXCEPT !.todo = @ \ {a}]
  <2>1. r \in Task
    BY <1>0 DEF Task, Op
  <2>2. task' = [task EXCEPT ![c] = r] /\ UNCHANGED <<default, client, requests>> /\ c \in Tab /\ task[c] # Idle
    BY <1>0, <1>10 DEF CheckAccount, Ends, Step, Serving
  <2>3. task' \in [Conn -> Task] /\ \A d \in Conn : Serving(d)'
    BY <1>0, <2>1, <2>2, TaskGoes
  <2>4. client[c].up
    BY <1>0, <2>2 DEF Serving
  <2>5. QED
    BY <1>0, <1>10, <2>2, <2>3, <2>4 DEF CheckAccount, TypeInv, TypeOK, share, notes
<1>11. ASSUME NEW c \in Conn, Fail(c) PROVE TypeInv'
  <2> DEFINE r == Idle
  <2>1. r \in Task
    BY <1>0 DEF Task, Op
  <2>2. task' = [task EXCEPT ![c] = r] /\ UNCHANGED <<default, client, requests>> /\ c \in Tab /\ task[c] # Idle
    BY <1>0, <1>11 DEF Fail, Ends, Step, Serving
  <2>3. task' \in [Conn -> Task] /\ \A d \in Conn : Serving(d)'
    BY <1>0, <2>1, <2>2, TaskGoes
  <2>4. client[c].up
    BY <1>0, <2>2 DEF Serving
  <2>5. QED
    BY <1>0, <1>11, <2>2, <2>3, <2>4 DEF Fail, TypeInv, TypeOK, share, notes
<1>12. ASSUME NEW c \in Conn, Announce(c) PROVE TypeInv'
  <2> DEFINE r == Idle
  <2>1. r \in Task
    BY <1>0 DEF Task, Op
  <2>2. task' = [task EXCEPT ![c] = r] /\ client' = Told /\ task[c] # Idle
    BY <1>0, <1>12 DEF Announce, Ends
  <2>3. client' \in [Conn -> Client] /\ \A d \in Conn : client'[d].up = client[d].up
    BY <2>2, ToldTypes
  <2>4. task' \in [Conn -> Task] /\ \A d \in Conn : Serving(d)'
    BY <1>0, <2>1, <2>2, <2>3, TaskGoes
  <2>5. QED
    BY <1>0, <1>12, <2>3, <2>4 DEF Announce, TypeInv, TypeOK, share
<1>13. ASSUME NEW c \in Conn, AskEnable(c) PROVE TypeInv'
  <2> DEFINE r == [Idle EXCEPT !.op = "find"]
  <2>1. r \in Task
    BY <1>0 DEF Task, Op
  <2>2. task' = [task EXCEPT ![c] = r] /\ UNCHANGED client /\ c \in Tab /\ client[c].up
    BY <1>13 DEF AskEnable, Request
  <2>3. task' \in [Conn -> Task] /\ \A d \in Conn : Serving(d)'
    BY <1>0, <2>1, <2>2, TaskGoes
  <2>4. requests' \in 0..MaxRequests
    <3>1. requests \in 0..MaxRequests
      BY <1>0 DEF TypeOK
    <3>2. requests < MaxRequests /\ requests' = requests + 1
      BY <1>13 DEF AskEnable, Request
    <3>3. QED
      BY <3>1, <3>2, Counted
  <2>5. QED
    BY <1>0, <1>13, <2>2, <2>3, <2>4 DEF AskEnable, Request, TypeInv, TypeOK, share, notes
<1>14. ASSUME NEW c \in Conn, AskDisable(c) PROVE TypeInv'
  <2> DEFINE r == [Idle EXCEPT !.op = "delete"]
  <2>1. r \in Task
    BY <1>0 DEF Task, Op
  <2>2. task' = [task EXCEPT ![c] = r] /\ UNCHANGED client /\ c \in Tab /\ client[c].up
    BY <1>14 DEF AskDisable, Request
  <2>3. task' \in [Conn -> Task] /\ \A d \in Conn : Serving(d)'
    BY <1>0, <2>1, <2>2, TaskGoes
  <2>4. requests' \in 0..MaxRequests
    <3>1. requests \in 0..MaxRequests
      BY <1>0 DEF TypeOK
    <3>2. requests < MaxRequests /\ requests' = requests + 1
      BY <1>14 DEF AskDisable, Request
    <3>3. QED
      BY <3>1, <3>2, Counted
  <2>5. QED
    BY <1>0, <1>14, <2>2, <2>3, <2>4 DEF AskDisable, Request, TypeInv, TypeOK, share, notes
<1>15. ASSUME NEW c \in Conn, NEW mode \in {"everyone", "selected"}, NEW ids \in SUBSET Other, AskAccess(c, mode, ids) PROVE TypeInv'
  <2> DEFINE r == [Idle EXCEPT !.op = "check", !.mode = mode, !.ids = ids, !.todo = ids]
  <2>1. r \in Task
    BY <1>0 DEF Task, Op
  <2>2. task' = [task EXCEPT ![c] = r] /\ UNCHANGED client /\ c \in Tab /\ client[c].up
    BY <1>15 DEF AskAccess, Request
  <2>3. task' \in [Conn -> Task] /\ \A d \in Conn : Serving(d)'
    BY <1>0, <2>1, <2>2, TaskGoes
  <2>4. requests' \in 0..MaxRequests
    <3>1. requests \in 0..MaxRequests
      BY <1>0 DEF TypeOK
    <3>2. requests < MaxRequests /\ requests' = requests + 1
      BY <1>15 DEF AskAccess, Request
    <3>3. QED
      BY <3>1, <3>2, Counted
  <2>5. QED
    BY <1>0, <1>15, <2>2, <2>3, <2>4 DEF AskAccess, Request, TypeInv, TypeOK, share, notes
<1>16. ASSUME NEW c \in Conn, NEW a \in Other, Block(c, a) PROVE TypeInv'
  <2> DEFINE r == [Idle EXCEPT !.op = "unlist", !.ids = {a}]
  <2>1. r \in Task
    BY <1>0 DEF Task, Op
  <2>2. task' = [task EXCEPT ![c] = r] /\ UNCHANGED client /\ c \in Tab /\ client[c].up
    BY <1>16 DEF Block, Request
  <2>3. task' \in [Conn -> Task] /\ \A d \in Conn : Serving(d)'
    BY <1>0, <2>1, <2>2, TaskGoes
  <2>4. requests' \in 0..MaxRequests
    <3>1. requests \in 0..MaxRequests
      BY <1>0 DEF TypeOK
    <3>2. requests < MaxRequests /\ requests' = requests + 1
      BY <1>16 DEF Block, Request
    <3>3. QED
      BY <3>1, <3>2, Counted
  <2>5. QED
    BY <1>0, <1>16, <2>2, <2>3, <2>4 DEF Block, Request, TypeInv, TypeOK, share, notes
<1>17. ASSUME NEW c \in Conn, NEW a \in Other, Unblock(c, a) PROVE TypeInv'
  <2> DEFINE r == [Idle EXCEPT !.op = "announce"]
  <2>1. r \in Task
    BY <1>0 DEF Task, Op
  <2>2. task' = [task EXCEPT ![c] = r] /\ UNCHANGED client /\ c \in Tab /\ client[c].up
    BY <1>17 DEF Unblock, Request
  <2>3. task' \in [Conn -> Task] /\ \A d \in Conn : Serving(d)'
    BY <1>0, <2>1, <2>2, TaskGoes
  <2>4. requests' \in 0..MaxRequests
    <3>1. requests \in 0..MaxRequests
      BY <1>0 DEF TypeOK
    <3>2. requests < MaxRequests /\ requests' = requests + 1
      BY <1>17 DEF Unblock, Request
    <3>3. QED
      BY <3>1, <3>2, Counted
  <2>5. QED
    BY <1>0, <1>17, <2>2, <2>3, <2>4 DEF Unblock, Request, TypeInv, TypeOK, share, notes
<1>18. CASE SetDefault
  <2>1. requests' \in 0..MaxRequests
    <3>1. requests \in 0..MaxRequests
      BY <1>0 DEF TypeOK
    <3>2. requests < MaxRequests /\ requests' = requests + 1
      BY <1>18 DEF SetDefault
    <3>3. QED
      BY <3>1, <3>2, Counted
  <2>2. client' \in [Conn -> Client] /\ \A d \in Conn : client'[d].up = client[d].up
    BY <1>18, ToldTypes DEF SetDefault
  <2>3. QED
    BY <1>0, <1>18, <2>1, <2>2 DEF SetDefault, TypeInv, TypeOK, Serving, share, notes
<1>19. ASSUME NEW c \in Conn, Hear(c) PROVE TypeInv'
  <2> DEFINE r == Refreshed([client[c] EXCEPT !.news = FALSE])
  <2>0. client[c] \in Client
    BY <1>0
  <2>1. r \in Client /\ r.up = client[c].up
    BY <2>0 DEF Client, Refreshed
  <2>2. client' = [client EXCEPT ![c] = r]
    BY <1>19 DEF Hear
  <2> HIDE DEF r
  <2>3. client' \in [Conn -> Client] /\ \A d \in Conn : client'[d].up = client[d].up
    BY <1>0, <2>1, <2>2
  <2>4. QED
    BY <1>0, <1>19, <2>3 DEF Hear, TypeInv, TypeOK, Serving, share, notes
<1>20. ASSUME NEW c \in Conn, ReadRows(c) PROVE TypeInv'
  <2> DEFINE r == [Idle EXCEPT !.op = "filter", !.seen = row]
  <2>1. r \in Task /\ r.op = "filter"
    BY <1>0 DEF Task, Op, TypeOK
  <2>2. task' = [task EXCEPT ![c] = r] /\ UNCHANGED client /\ client[c].up
    BY <1>20 DEF ReadRows
  <2>3. task' \in [Conn -> Task] /\ \A d \in Conn : Serving(d)'
    BY <1>0, <2>1, <2>2, TaskGoes
  <2>4. QED
    BY <1>0, <1>20, <2>3 DEF ReadRows, TypeInv, TypeOK, share, notes
<1>21. ASSUME NEW c \in Conn, Filter(c) PROVE TypeInv'
  <2> DEFINE b == task[c].seen /\ presence # {} /\ Allows(Who(c))
             r == [task[c] EXCEPT !.op = "reply", !.seen = b]
  <2>0. b \in BOOLEAN
    OBVIOUS
  <2> HIDE DEF b
  <2>1. r \in Task /\ r.op = "reply"
    BY <1>0, <2>0 DEF Task, Op
  <2>2. task' = [task EXCEPT ![c] = r] /\ UNCHANGED client /\ task[c] # Idle
    BY <1>0, <1>21 DEF Filter, b
  <2>3. task' \in [Conn -> Task] /\ \A d \in Conn : Serving(d)'
    BY <1>0, <2>1, <2>2, TaskGoes
  <2>4. QED
    BY <1>0, <1>21, <2>3 DEF Filter, TypeInv, TypeOK, share, notes
<1>22. ASSUME NEW c \in Conn, NEW ok \in BOOLEAN, Reconcile(c, ok) PROVE TypeInv'
  <2> DEFINE r == [client[c] EXCEPT !.shown = IF ok THEN task[c].seen ELSE @, !.missed = ~ok,
                                    !.asked = client[c].queued, !.queued = FALSE]
  <2>0. client[c] \in Client /\ task[c].seen \in BOOLEAN
    BY <1>0 DEF Task
  <2>1. r \in Client /\ r.up = client[c].up
    BY <2>0 DEF Client
  <2>2. client' = [client EXCEPT ![c] = r] /\ task' = [task EXCEPT ![c] = Idle]
    BY <1>22 DEF Reconcile, Ends
  <2> HIDE DEF r
  <2>3. client' \in [Conn -> Client] /\ \A d \in Conn : client'[d].up = client[d].up
    BY <1>0, <2>1, <2>2
  <2>4. task' \in [Conn -> Task] /\ \A d \in Conn : Serving(d)'
    BY <1>0, <2>2, <2>3, TaskGoes
  <2>5. QED
    BY <1>0, <1>22, <2>3, <2>4 DEF Reconcile, TypeInv, TypeOK, share, notes
<1>23. ASSUME NEW c \in Conn, Cut(c) PROVE TypeInv'
  <2> DEFINE r == [client[c] EXCEPT !.up = FALSE, !.asked = FALSE, !.queued = FALSE, !.news = FALSE]
             cl == IF c \in presence /\ presence = {c} THEN Told ELSE client
  <2>0. client[c] \in Client
    BY <1>0
  <2>1. r \in Client
    BY <2>0 DEF Client
  <2>2. cl \in [Conn -> Client] /\ \A d \in Conn : cl[d].up = client[d].up
    BY <1>0, ToldTypes
  <2>3. client' = [cl EXCEPT ![c] = r]
    BY <1>23 DEF Cut
  <2> HIDE DEF r, cl
  <2>4. client' \in [Conn -> Client] /\ \A d \in Conn \ {c} : client'[d].up = client[d].up
    BY <1>0, <2>1, <2>2, <2>3
  <2>5. /\ task[c] = Idle /\ presence' = presence \ {c} /\ claimed' = claimed \ {c}
        /\ UNCHANGED <<share, blocked, default, task, requests, raced, late, chosen>>
        /\ silent' \in BOOLEAN
    BY <1>23 DEF Cut
  <2>6. \A d \in Conn : Serving(d)'
    BY <1>0, <2>4, <2>5 DEF Serving
  <2>7. presence' \subseteq {d \in Tab : client'[d].up} /\ claimed' \subseteq Tab
    BY <1>0, <2>4, <2>5 DEF TypeOK
  <2>8. QED
    BY <1>0, <2>4, <2>5, <2>6, <2>7 DEF TypeInv, TypeOK, share
<1>24. ASSUME NEW c \in Conn, Reopen(c) PROVE TypeInv'
  <2> DEFINE b == c \in Watcher
             r == [client[c] EXCEPT !.up = TRUE, !.asked = b]
  <2>0. client[c] \in Client /\ b \in BOOLEAN
    BY <1>0
  <2>1. client' = [client EXCEPT ![c] = r]
    BY <1>0, <1>24 DEF Reopen
  <2> HIDE DEF b
  <2>2. r \in Client /\ r.up
    BY <2>0 DEF Client
  <2> HIDE DEF r
  <2>3. client' \in [Conn -> Client] /\ \A d \in Conn : client[d].up => client'[d].up
    BY <1>0, <2>1, <2>2
  <2>4. QED
    BY <1>0, <1>24, <2>3 DEF Reopen, TypeInv, TypeOK, Serving, share, notes
<1>25. CASE UNCHANGED vars
  BY <1>0, <1>25 DEF vars, TypeInv, TypeOK, Serving, share, notes
<1>26. QED
  BY <1>1, <1>2, <1>3, <1>4, <1>5, <1>6, <1>7, <1>8, <1>9, <1>10, <1>11, <1>12, <1>13, <1>14, <1>15, <1>16, <1>17, <1>18, <1>19, <1>20, <1>21, <1>22, <1>23, <1>24, <1>25 DEF Next, Serve, Browse

(* Every variable has its type: a share that is gone has no access and no   *)
(* checklist, and its speakers are tabs whose connections are up.           *)
THEOREM TypeCorrect == Spec => []TypeOK
<1>1. Spec => []TypeInv
  BY TypeInit, TypeStep, PTL DEF Spec
<1>2. TypeInv => TypeOK
  BY DEF TypeInv
<1>3. QED
  BY <1>1, <1>2, PTL
-----------------------------------------------------------------------------
(* The checklist *)

(* A step that puts nobody on the checklist, blocks nobody and cuts no      *)
(* cleaning short.                                                          *)
LEMMA CleanKept ==
  ASSUME ChecklistClean, listed' \subseteq listed, blocked' \subseteq blocked, late' = late,
         \A d \in Conn : task[d].op = "unlist" => task'[d] = task[d]
  PROVE  ChecklistClean'
BY DEF ChecklistClean

(* A step of the frame that c serves, when it is not a cleaning.            *)
LEMMA OneTask ==
  ASSUME TypeInv, NEW c \in Conn, NEW r, task' = [task EXCEPT ![c] = r], task[c].op # "unlist"
  PROVE  \A d \in Conn : task[d].op = "unlist" => task'[d] = task[d]
BY Types

LEMMA CleanStep == TypeInv /\ ChecklistClean /\ [Next]_vars => ChecklistClean'
<1> SUFFICES ASSUME TypeInv, ChecklistClean, [Next]_vars PROVE ChecklistClean'
  OBVIOUS
<1>0. task \in [Conn -> Task] /\ \A c \in Conn : task[c] \in Task
  BY Types
<1>1. ASSUME NEW c \in Conn,
             FindShare(c) \/ CreateShare(c) \/ ReadDefault(c) \/ CloseShare(c) \/ Attach(c)
             \/ DeleteShare(c) \/ DropPresence(c)
      PROVE  ChecklistClean'
  <2>1. task[c].op # "unlist" /\ \E r : task' = [task EXCEPT ![c] = r]
    BY <1>1 DEF FindShare, CreateShare, ReadDefault, CloseShare, Attach, DeleteShare,
                DropPresence, Goes, Ends
  <2>2. listed' \subseteq listed /\ blocked' = blocked /\ late' = late
    BY <1>1 DEF FindShare, CreateShare, ReadDefault, CloseShare, Attach, DeleteShare,
                DropPresence, share, notes
  <2>3. QED
    BY <2>1, <2>2, OneTask, CleanKept
<1>2. ASSUME NEW c \in Conn, Announce(c) \/ \E a \in Other : CheckAccount(c, a)
      PROVE  ChecklistClean'
  <2>1. task[c].op # "unlist" /\ \E r : task' = [task EXCEPT ![c] = r]
    BY <1>2 DEF Announce, CheckAccount, Ends
  <2>2. listed' = listed /\ blocked' = blocked /\ late' = late
    BY <1>2 DEF Announce, CheckAccount, share, notes
  <2>3. QED
    BY <2>1, <2>2, OneTask, CleanKept
<1>3. ASSUME NEW c \in Conn, WriteAccess(c) PROVE ChecklistClean'
  BY <1>3 DEF WriteAccess, ChecklistClean
<1>4. ASSUME NEW c \in Conn, Unlist(c) PROVE ChecklistClean'
  <2>1. /\ task[c].op = "unlist" /\ listed' = listed \ task[c].ids
        /\ late' = late \ task[c].ids /\ blocked' = blocked
        /\ \A d \in Conn \ {c} : task'[d] = task[d]
    BY <1>0, <1>4 DEF Unlist, Goes
  <2>2. QED
    BY <2>1 DEF ChecklistClean
<1>5. ASSUME NEW c \in Conn, Fail(c) PROVE ChecklistClean'
  <2>1. /\ listed' = listed /\ blocked' = blocked
        /\ late' = IF task[c].op = "unlist" THEN late \cup task[c].ids ELSE late
        /\ \A d \in Conn \ {c} : task'[d] = task[d]
    BY <1>0, <1>5 DEF Fail, Ends, share
  <2>2. QED
    BY <2>1 DEF ChecklistClean
<1>6. ASSUME NEW c \in Conn,
             AskEnable(c) \/ AskDisable(c)
             \/ (\E mode \in {"everyone", "selected"}, ids \in SUBSET Other : AskAccess(c, mode, ids))
             \/ (\E a \in Other : Unblock(c, a))
      PROVE  ChecklistClean'
  <2>1. task[c] = Idle /\ \E r : task' = [task EXCEPT ![c] = r]
    BY <1>6 DEF AskEnable, AskDisable, AskAccess, Unblock, Request
  <2>2. listed' = listed /\ blocked' \subseteq blocked /\ late' = late
    BY <1>6 DEF AskEnable, AskDisable, AskAccess, Unblock, Request, share, notes
  <2>3. QED
    BY <2>1, <2>2, OneTask, CleanKept, IdleIsTask
<1>7. ASSUME NEW c \in Conn, NEW a \in Other, Block(c, a) PROVE ChecklistClean'
  <2> DEFINE r == [Idle EXCEPT !.op = "unlist", !.ids = {a}]
  <2>1. r.op = "unlist" /\ r.ids = {a}
    BY IdleIsTask DEF Task, Idle
  <2>2. /\ task[c] = Idle /\ task' = [task EXCEPT ![c] = r]
        /\ listed' = listed /\ blocked' = blocked \cup {a} /\ late' = late
    BY <1>7 DEF Block, Request, share, notes
  <2> HIDE DEF r
  <2>3. task'[c] = r /\ \A d \in Conn : task[d].op = "unlist" => task'[d] = task[d]
    BY <1>0, <2>2, IdleIsTask
  <2>4. QED
    BY <2>1, <2>2, <2>3 DEF ChecklistClean
<1>8. ASSUME NEW c \in Conn,
             ReadRows(c) \/ Filter(c) \/ (\E ok \in BOOLEAN : Reconcile(c, ok))
      PROVE  ChecklistClean'
  <2>1. task[c].op # "unlist"
    BY <1>8, IdleIsTask DEF ReadRows, Filter, Reconcile
  <2>2. \A d \in Conn \ {c} : task'[d] = task[d]
    BY <1>0, <1>8 DEF ReadRows, Filter, Reconcile, Ends
  <2>3. listed' = listed /\ blocked' = blocked /\ late' = late
    BY <1>8 DEF ReadRows, Filter, Reconcile, share, notes
  <2>4. QED
    BY <2>1, <2>2, <2>3, CleanKept
<1>9. ASSUME NEW c \in Conn, Hear(c) \/ Cut(c) \/ Reopen(c) PROVE ChecklistClean'
  BY <1>9, CleanKept DEF Hear, Cut, Reopen, share, notes
<1>10. CASE SetDefault
  BY <1>10, CleanKept DEF SetDefault, share, notes
<1>11. CASE UNCHANGED vars
  BY <1>11, CleanKept DEF vars, share, notes
<1>12. QED
  BY <1>1, <1>2, <1>3, <1>4, <1>5, <1>6, <1>7, <1>8, <1>9, <1>10, <1>11
  DEF Next, Serve, Browse

(* A blocked account is on the checklist only while the request that        *)
(* blocked it still has to take it off, or when that failed, or when a list *)
(* that was checked before the block was written after it.                  *)
THEOREM ChecklistKept == Spec => []ChecklistClean
<1>1. Init => ChecklistClean
  BY DEF Init, ChecklistClean
<1>2. QED
  BY <1>1, TypeInit, TypeStep, CleanStep, PTL DEF Spec

-----------------------------------------------------------------------------
(* Who may use the share *)

LEMMA OpenKept ==
  ASSUME OpenByChoice, row' => row, access' = access, chosen' = chosen,
         \A d \in Conn : task[d].op \in {"default", "close"} => task'[d] = task[d]
  PROVE  OpenByChoice'
BY DEF OpenByChoice

LEMMA OpenStep == TypeInv /\ OpenByChoice /\ [Next]_vars => OpenByChoice'
<1> SUFFICES ASSUME TypeInv, OpenByChoice, [Next]_vars PROVE OpenByChoice'
  OBVIOUS
<1>0. task \in [Conn -> Task] /\ \A c \in Conn : task[c] \in Task
  BY Types
<1>1. ASSUME NEW c \in Conn,
             FindShare(c) \/ Attach(c) \/ DropPresence(c) \/ Unlist(c) \/ Announce(c)
             \/ (\E a \in Other : CheckAccount(c, a))
      PROVE  OpenByChoice'
  <2>1. task[c].op \notin {"default", "close"} /\ \A d \in Conn \ {c} : task'[d] = task[d]
    BY <1>0, <1>1 DEF FindShare, Attach, DropPresence, Unlist, Announce, CheckAccount, Goes, Ends
  <2>2. row' = row /\ access' = access /\ chosen' = chosen
    BY <1>1 DEF FindShare, Attach, DropPresence, Unlist, Announce, CheckAccount, share, notes
  <2>3. QED
    BY <2>1, <2>2, OpenKept
<1>2. ASSUME NEW c \in Conn, CreateShare(c) PROVE OpenByChoice'
  <2>1. task'[c].op = "default"
    BY <1>0, <1>2 DEF CreateShare, Goes, Task
  <2>2. QED
    BY <2>1 DEF OpenByChoice
<1>3. ASSUME NEW c \in Conn, ReadDefault(c) PROVE OpenByChoice'
  <2>1. default \in {"everyone", "private"}
    BY DEF TypeInv, TypeOK
  <2>2. CASE default = "everyone"
    BY <1>3, <2>2 DEF ReadDefault, OpenByChoice
  <2>3. CASE default = "private"
    <3>1. task'[c].op = "close"
      BY <1>0, <1>3, <2>3 DEF ReadDefault, Goes, Task
    <3>2. QED
      BY <3>1 DEF OpenByChoice
  <2>4. QED
    BY <2>1, <2>2, <2>3
<1>4. ASSUME NEW c \in Conn, CloseShare(c) \/ DeleteShare(c) \/ WriteAccess(c) PROVE OpenByChoice'
  BY <1>4 DEF CloseShare, DeleteShare, WriteAccess, OpenByChoice
<1>5. ASSUME NEW c \in Conn, Fail(c) PROVE OpenByChoice'
  <2>1. /\ row' = row /\ access' = access
        /\ chosen' = IF task[c].op \in {"default", "close"} THEN "cut off" ELSE chosen
        /\ \A d \in Conn \ {c} : task'[d] = task[d]
    BY <1>0, <1>5 DEF Fail, Ends, share
  <2>2. CASE task[c].op \in {"default", "close"}
    BY <2>1, <2>2 DEF OpenByChoice
  <2>3. CASE task[c].op \notin {"default", "close"}
    BY <2>1, <2>3, OpenKept
  <2>4. QED
    BY <2>2, <2>3
<1>6. ASSUME NEW c \in Conn, NEW t, Request(c, t), UNCHANGED notes PROVE OpenByChoice'
  <2>1. task[c] = Idle /\ \A d \in Conn \ {c} : task'[d] = task[d]
    BY <1>0, <1>6 DEF Request
  <2>2. row' = row /\ access' = access /\ chosen' = chosen
    BY <1>6 DEF Request, share, notes
  <2>3. QED
    BY <2>1, <2>2, OpenKept, IdleIsTask
<1>7. ASSUME NEW c \in Conn,
             AskEnable(c) \/ AskDisable(c)
             \/ (\E mode \in {"everyone", "selected"}, ids \in SUBSET Other : AskAccess(c, mode, ids))
             \/ (\E a \in Other : Block(c, a) \/ Unblock(c, a))
      PROVE  OpenByChoice'
  BY <1>6, <1>7 DEF AskEnable, AskDisable, AskAccess, Block, Unblock
<1>8. ASSUME NEW c \in Conn,
             ReadRows(c) \/ Filter(c) \/ (\E ok \in BOOLEAN : Reconcile(c, ok))
      PROVE  OpenByChoice'
  <2>1. task[c].op \notin {"default", "close"}
    BY <1>8, IdleIsTask DEF ReadRows, Filter, Reconcile
  <2>2. \A d \in Conn \ {c} : task'[d] = task[d]
    BY <1>0, <1>8 DEF ReadRows, Filter, Reconcile, Ends
  <2>3. row' = row /\ access' = access /\ chosen' = chosen
    BY <1>8 DEF ReadRows, Filter, Reconcile, share, notes
  <2>4. QED
    BY <2>1, <2>2, <2>3, OpenKept
<1>9. ASSUME NEW c \in Conn, Hear(c) \/ Cut(c) \/ Reopen(c) PROVE OpenByChoice'
  BY <1>9, OpenKept DEF Hear, Cut, Reopen, share, notes
<1>10. CASE SetDefault
  BY <1>10, OpenKept DEF SetDefault, share, notes
<1>11. CASE UNCHANGED vars
  BY <1>11, OpenKept DEF vars, share, notes
<1>12. QED
  BY <1>1, <1>2, <1>3, <1>4, <1>5, <1>7, <1>8, <1>9, <1>10, <1>11 DEF Next, Serve, Browse

(* A share that others may use is one that its owner opened, or that was    *)
(* made while the default was "everyone"; otherwise it is being made, or    *)
(* making it was cut off.                                                   *)
THEOREM OpenOnlyByChoice == Spec => []OpenByChoice
<1>1. Init => OpenByChoice
  BY DEF Init, OpenByChoice
<1>2. QED
  BY <1>1, TypeInit, TypeStep, OpenStep, PTL DEF Spec

-----------------------------------------------------------------------------
(* The speaker *)

(* A share without a row has no speaker that was told so: removing it takes *)
(* the row first and the speakers after.                                    *)
SpeakerInv == ~raced => claimed \subseteq presence /\ (~row => claimed = {})

LEMMA SpeakerStep == SpeakerInv /\ [Next]_vars => SpeakerInv'
<1> SUFFICES ASSUME SpeakerInv, [Next]_vars PROVE SpeakerInv'
  OBVIOUS
<1>1. ASSUME NEW c \in Conn, CreateShare(c) PROVE SpeakerInv'
  BY <1>1 DEF CreateShare, SpeakerInv
<1>2. ASSUME NEW c \in Conn, Attach(c) PROVE SpeakerInv'
  BY <1>2 DEF Attach, SpeakerInv, share
<1>3. ASSUME NEW c \in Conn, DeleteShare(c) PROVE SpeakerInv'
  BY <1>3 DEF DeleteShare, SpeakerInv
<1>4. ASSUME NEW c \in Conn, DropPresence(c) PROVE SpeakerInv'
  BY <1>4 DEF DropPresence, SpeakerInv, share
<1>5. ASSUME NEW c \in Conn, Cut(c) PROVE SpeakerInv'
  BY <1>5 DEF Cut, SpeakerInv, share
<1>6. CASE UNCHANGED <<row, presence, claimed, raced>>
  BY <1>6 DEF SpeakerInv
<1>7. ASSUME NEW c \in Conn,
             FindShare(c) \/ ReadDefault(c) \/ CloseShare(c) \/ WriteAccess(c) \/ Unlist(c)
             \/ Announce(c) \/ (\E a \in Other : CheckAccount(c, a)) \/ Fail(c)
      PROVE  SpeakerInv'
  BY <1>6, <1>7 DEF FindShare, ReadDefault, CloseShare, WriteAccess, Unlist, Announce,
                    CheckAccount, Fail, share, notes
<1>8. ASSUME NEW c \in Conn,
             AskEnable(c) \/ AskDisable(c)
             \/ (\E mode \in {"everyone", "selected"}, ids \in SUBSET Other : AskAccess(c, mode, ids))
             \/ (\E a \in Other : Block(c, a) \/ Unblock(c, a))
      PROVE  SpeakerInv'
  BY <1>6, <1>8 DEF AskEnable, AskDisable, AskAccess, Block, Unblock, Request, share, notes
<1>9. ASSUME NEW c \in Conn,
             Hear(c) \/ ReadRows(c) \/ Filter(c) \/ (\E ok \in BOOLEAN : Reconcile(c, ok))
             \/ Reopen(c)
      PROVE  SpeakerInv'
  BY <1>6, <1>9 DEF Hear, ReadRows, Filter, Reconcile, Reopen, share, notes
<1>10. CASE SetDefault
  BY <1>6, <1>10 DEF SetDefault, share, notes
<1>11. CASE UNCHANGED vars
  BY <1>6, <1>11 DEF vars, share, notes
<1>12. QED
  BY <1>1, <1>2, <1>3, <1>4, <1>5, <1>7, <1>8, <1>9, <1>10, <1>11 DEF Next, Serve, Browse

(* A tab that was told it is the speaker is among the speakers until it     *)
(* goes or the share is removed, unless removing the share overlapped with  *)
(* a tab's taking it.                                                       *)
THEOREM SpeakerKept == Spec => []SpeakerStays
<1>1. Init => SpeakerInv
  BY DEF Init, SpeakerInv
<1>2. SpeakerInv => SpeakerStays
  BY DEF SpeakerInv, SpeakerStays
<1>3. QED
  BY <1>1, <1>2, SpeakerStep, PTL DEF Spec
=============================================================================
