--------------------------- MODULE AccountsProofs ---------------------------
(***************************************************************************)
(* Theorems about Accounts, for every set of users, attempts and threads.  *)
(* No request has to be told from another by its thread: what is proved    *)
(* holds for any number of requests that interleave in any way.            *)
(***************************************************************************)
EXTENDS Accounts, FiniteSetTheorems, TLAPS

USE NoneAssumption

-----------------------------------------------------------------------------
(* What a step does to the table of requests. *)

LEMMA GoesFacts ==
  ASSUME task \in [Thread -> Task], NEW t, NEW r \in Task, Goes(t, r)
  PROVE  /\ task' \in [Thread -> Task]
         /\ \A s \in Thread :
              /\ s = t => task'[s] = r
              /\ s # t => \/ task'[s] = task[s]
                          \/ /\ task[s].op = "erase" /\ Admins' # Admins
                             /\ task'[s] = [task[s] EXCEPT !.raced = TRUE]
<1>1. ASSUME NEW s \in Thread PROVE [task[s] EXCEPT !.raced = TRUE] \in Task
  BY DEF Task
<1>2. QED
  BY <1>1 DEF Goes

(* A request that is not erasing stays where it is while others move.       *)
LEMMA OthersStay ==
  ASSUME task \in [Thread -> Task], NEW t, NEW r \in Task, Goes(t, r),
         NEW s \in Thread
  PROVE  /\ s = t => task'[s] = r
         /\ s # t => /\ task'[s].op = task[s].op /\ task'[s].at = task[s].at
                     /\ task'[s].id = task[s].id /\ task'[s].first = task[s].first
<1>1. CASE s = t
  BY <1>1, GoesFacts
<1>2. CASE s # t /\ task'[s] = task[s]
  BY <1>2
<1>3. CASE s # t /\ task'[s] = [task[s] EXCEPT !.raced = TRUE]
  BY <1>3 DEF Task
<1>4. QED
  BY <1>1, <1>2, <1>3, GoesFacts


-----------------------------------------------------------------------------
(* Type correctness *)

LEMMA IdleIsTask == Idle \in Task
BY DEF Idle, Task, Op

LEMMA TypeInit == Init => TypeOK
<1> SUFFICES ASSUME Init PROVE TypeOK
  OBVIOUS
<1>1. Idle \in Task
  BY IdleIsTask
<1>2. ownerless \in BOOLEAN /\ conns \subseteq Conn
  BY DEF Init
<1>3. QED
  BY <1>1, <1>2 DEF Init, TypeOK

(* The record a request goes on with is a task. *)
LEMMA TaskFields ==
  ASSUME NEW x \in Task
  PROVE  /\ \A o \in Op : [x EXCEPT !.op = o] \in Task
         /\ \A o \in Op, a \in Attempt : [x EXCEPT !.op = o, !.at = a] \in Task
         /\ \A o \in Op, i \in Id :
              /\ [x EXCEPT !.op = o, !.id = i] \in Task
              /\ [x EXCEPT !.id = i, !.op = o] \in Task
              /\ \A a \in Attempt : [x EXCEPT !.op = o, !.at = a, !.id = i] \in Task
BY DEF Task

(* Counting up at an index, whether or not it is one of the attempts. *)
LEMMA CountUp ==
  ASSUME NEW f \in [Attempt -> Nat], NEW a
  PROVE  [f EXCEPT ![a] = @ + 1] \in [Attempt -> Nat]
<1>1. CASE a \in Attempt
  BY <1>1
<1>2. CASE a \notin Attempt
  <2>1. ASSUME NEW v PROVE [f EXCEPT ![a] = v] = f
    BY <1>2, Zenon
  <2>2. QED
    BY <2>1, Zenon
<1>3. QED
  BY <1>1, <1>2

LEMMA TypeStep == TypeOK /\ [Next]_vars => TypeOK'
<1> SUFFICES ASSUME TypeOK, [Next]_vars PROVE TypeOK'
  OBVIOUS
<1> USE IdleIsTask DEF TypeOK
<1>0. /\ task \in [Thread -> Task]
      /\ \A o \in {"idle", "take", "verify", "enter", "grant", "issue", "claim", "mint",
                   "boot", "count", "erase", "role"} : o \in Op
      /\ Local \in Id
  BY DEF Op, Id
<1>1. ASSUME NEW a \in Attempt, Start(a) \/ Expire(a) PROVE TypeOK'
  BY <1>1 DEF Start, Expire, Id
<1>2. ASSUME NEW t \in Thread, NEW a \in Attempt, ReadAttempt(t, a) PROVE TypeOK'
  <2>1. [Idle EXCEPT !.op = "take", !.at = a] \in Task
    BY <1>0, TaskFields
  <2>2. task' \in [Thread -> Task]
    BY <1>0, <1>2, <2>1, GoesFacts DEF ReadAttempt
  <2>3. QED
    BY <1>2, <2>2 DEF ReadAttempt, KeepAccounts, login
<1>3. ASSUME NEW t \in Thread, NEW a \in Attempt, ReadCode(t, a) PROVE TypeOK'
  <2>1. exchange[a] \in Id
    BY <1>3 DEF ReadCode
  <2>2. [Idle EXCEPT !.op = "claim", !.at = a, !.id = exchange[a]] \in Task
    BY <1>0, <2>1, TaskFields
  <2>3. task' \in [Thread -> Task]
    BY <1>0, <1>3, <2>2, GoesFacts DEF ReadCode
  <2>4. QED
    BY <1>3, <2>3 DEF ReadCode, KeepAccounts, login
<1>4. ASSUME NEW t \in Thread, NEW u \in User, CountAccounts(t, u) PROVE TypeOK'
  <2>1. [task[t] EXCEPT !.op = "enter", !.id = u, !.first = Empty] \in Task
    BY <1>0 DEF Task, Id, Empty
  <2>2. task' \in [Thread -> Task]
    BY <1>0, <1>4, <2>1, GoesFacts DEF CountAccounts
  <2>3. QED
    BY <1>4, <2>2 DEF CountAccounts, KeepAccounts, login
<1>5. ASSUME NEW t \in Thread, TakeAttempt(t) PROVE TypeOK'
  <2>1. [task[t] EXCEPT !.op = "verify"] \in Task
    BY <1>0, TaskFields
  <2>2. task' \in [Thread -> Task]
    BY <1>0, <1>5, <2>1, GoesFacts DEF TakeAttempt
  <2>3. taken' \in [Attempt -> Nat] /\ attempt' \in [Attempt -> {"new", "open", "gone"}]
    BY <1>5, CountUp DEF TakeAttempt
  <2>4. UNCHANGED <<account, exchange, sessions, conns, redeemed, ownerless>>
    BY <1>5 DEF TakeAttempt, KeepAccounts
  <2>5. QED
    BY <2>2, <2>3, <2>4
<1>6. ASSUME NEW t \in Thread, Enter(t) PROVE TypeOK'
  <2>1. [task[t] EXCEPT !.op = IF task[t].first THEN "grant" ELSE "issue"] \in Task
    BY <1>0, TaskFields
  <2>2. task' \in [Thread -> Task]
    BY <1>0, <1>6, <2>1, GoesFacts DEF Enter
  <2>3. QED
    BY <1>6, <2>2 DEF Enter, login, Role
<1>7. ASSUME NEW t \in Thread, Grant(t) PROVE TypeOK'
  <2>1. [task[t] EXCEPT !.op = "issue"] \in Task
    BY <1>0, TaskFields
  <2>2. task' \in [Thread -> Task]
    BY <1>0, <1>7, <2>1, GoesFacts DEF Grant
  <2>3. QED
    BY <1>7, <2>2 DEF Grant, login, Role
<1>8. ASSUME NEW t \in Thread, Issue(t) PROVE TypeOK'
  <2>1. task' \in [Thread -> Task]
    BY <1>0, <1>8, GoesFacts DEF Issue
  <2>2. task[t].id \in Id
    BY <1>0, <1>8 DEF Issue, Exists, Task
  <2>3. QED
    BY <1>8, <2>1, <2>2 DEF Issue, KeepAccounts
<1>9. ASSUME NEW t \in Thread, ClaimCode(t) PROVE TypeOK'
  <2>1. [task[t] EXCEPT !.op = "mint"] \in Task
    BY <1>0, TaskFields
  <2>2. task' \in [Thread -> Task]
    BY <1>0, <1>9, <2>1, GoesFacts DEF ClaimCode
  <2>3. redeemed' \in [Attempt -> Nat] /\ exchange' \in [Attempt -> Id \cup {None}]
    BY <1>9, CountUp DEF ClaimCode
  <2>4. UNCHANGED <<account, attempt, sessions, conns, taken, ownerless>>
    BY <1>9 DEF ClaimCode, KeepAccounts
  <2>5. QED
    BY <2>2, <2>3, <2>4
<1>10. ASSUME NEW t \in Thread, Mint(t) PROVE TypeOK'
  <2>1. task' \in [Thread -> Task]
    BY <1>0, <1>10, GoesFacts DEF Mint
  <2>2. task[t].id \in Id /\ account[task[t].id] # "none"
    BY <1>0, <1>10 DEF Mint, Exists, Task
  <2>3. QED
    BY <1>10, <2>1, <2>2 DEF Mint, login
<1>11. ASSUME NEW t \in Thread, CheckBootstrap(t) PROVE TypeOK'
  <2>1. [Idle EXCEPT !.op = "boot", !.id = Local] \in Task
    BY <1>0, TaskFields
  <2>2. task' \in [Thread -> Task]
    BY <1>0, <1>11, <2>1, GoesFacts DEF CheckBootstrap
  <2>3. QED
    BY <1>11, <2>2 DEF CheckBootstrap, KeepAccounts, login
<1>12. ASSUME NEW t \in Thread, Bootstrap(t) PROVE TypeOK'
  <2>1. [task[t] EXCEPT !.op = "mint"] \in Task
    BY <1>0, TaskFields
  <2>2. task' \in [Thread -> Task]
    BY <1>0, <1>12, <2>1, GoesFacts DEF Bootstrap
  <2>3. QED
    BY <1>12, <2>2 DEF Bootstrap, login, Role
<1>13. ASSUME NEW t \in Thread, CountAdmins(t) PROVE TypeOK'
  <2>1. (IF Cardinality(Admins) <= 1 THEN Idle ELSE [task[t] EXCEPT !.op = "erase"]) \in Task
    BY <1>0, TaskFields
  <2>2. task' \in [Thread -> Task]
    BY <1>0, <1>13, <2>1, GoesFacts DEF CountAdmins
  <2>3. QED
    BY <1>13, <2>2 DEF CountAdmins, KeepAccounts, login
<1>14. ASSUME NEW t \in Thread, Erase(t) PROVE TypeOK'
  <2>1. task' \in [Thread -> Task]
    BY <1>0, <1>14, GoesFacts DEF Erase
  <2>2. QED
    BY <1>14, <2>1 DEF Erase, Role
<1>15. ASSUME NEW t \in Thread, Abandon(t) PROVE TypeOK'
  <2>1. task' \in [Thread -> Task]
    BY <1>0, <1>15, GoesFacts DEF Abandon
  <2>2. QED
    BY <1>15, <2>1 DEF Abandon, login
<1>16. ASSUME NEW i \in Id, Connect(i) PROVE TypeOK'
  BY <1>16 DEF Connect, login, Conn
<1>17. ASSUME NEW c \in conns, Disconnect(c) PROVE TypeOK'
  BY <1>17 DEF Disconnect, login
<1>18. ASSUME NEW c \in conns, NEW i \in Id, NEW r \in Role, SetRole(c, i, r) PROVE TypeOK'
  <2>1. task' \in [Thread -> Task]
    BY <1>0, <1>18, GoesFacts DEF SetRole
  <2>2. QED
    BY <1>18, <2>1 DEF SetRole, login, Role
<1>19. ASSUME NEW t \in Thread, NEW c \in conns, NEW i \in Id, AskErase(t, c, i) PROVE TypeOK'
  <2>1. [Idle EXCEPT !.id = i, !.op = IF account[i] = "admin" THEN "count" ELSE "erase"] \in Task
    BY <1>0, TaskFields
  <2>2. task' \in [Thread -> Task]
    BY <1>0, <1>19, <2>1, GoesFacts DEF AskErase
  <2>3. QED
    BY <1>19, <2>2 DEF AskErase, KeepAccounts, login
<1>ask. ASSUME NEW t \in Thread, NEW i \in Id, AskRole(t, i) PROVE TypeOK'
  <2> DEFINE r == [Idle EXCEPT !.op = "role", !.id = i]
  <2>1. r \in Task /\ r.op = "role" /\ r.id = i
    BY <1>0, TaskFields DEF Task
  <2>2. task' \in [Thread -> Task]
    BY <1>0, <1>ask, <2>1, GoesFacts DEF AskRole
  <2>3. QED
    BY <1>ask, <2>2 DEF AskRole, KeepAccounts, login
<1>guest. ASSUME NEW t \in Thread, NEW r \in Role, GuestSetRole(t, r) PROVE TypeOK'
  <2>1. task' \in [Thread -> Task]
    BY <1>0, <1>guest, GoesFacts DEF GuestSetRole
  <2>2. QED
    BY <1>guest, <2>1 DEF GuestSetRole, login, Role
<1>20. CASE UNCHANGED vars
  BY <1>20 DEF vars
<1>21. QED
  BY <1>1, <1>2, <1>3, <1>4, <1>5, <1>6, <1>7, <1>8, <1>9, <1>10, <1>11, <1>12, <1>13,
     <1>14, <1>15, <1>16, <1>17, <1>18, <1>19, <1>20, <1>ask, <1>guest DEF Next

(* Every variable has its type, and a session belongs to an account that    *)
(* exists: deleting an account ends its sessions, and none is made for an   *)
(* account that is gone by then.                                            *)
THEOREM TypeCorrect == Spec => []TypeOK
<1>1. Spec => []TypeOK
  BY TypeInit, TypeStep, PTL DEF Spec
<1>2. QED
  BY <1>1

-----------------------------------------------------------------------------
(* An attempt and a code are good for one use *)

(* The requests that hold an attempt they have taken. *)
LoginOps == {"verify", "enter", "grant", "issue"}
Holds(t) == task[t].op \in LoginOps

Reading == \A t \in Thread : task[t].op \in {"take", "claim"} => task[t].at \in Attempt
Holding == \A t \in Thread : Holds(t) =>
             /\ task[t].at \in Attempt /\ attempt[task[t].at] = "gone"
             /\ exchange[task[t].at] = None /\ redeemed[task[t].at] = 0
OneHolder == \A s, t \in Thread : Holds(s) /\ Holds(t) /\ task[s].at = task[t].at => s = t
Used == \A a \in Attempt :
          /\ attempt[a] # "gone" => taken[a] = 0 /\ redeemed[a] = 0
          /\ exchange[a] # None => attempt[a] = "gone" /\ redeemed[a] = 0
LoginInv == Reading /\ Holding /\ OneHolder /\ Used /\ UsedOnce

LEMMA LoginInit == Init => LoginInv
BY DEF Init, LoginInv, Reading, Holding, OneHolder, Used, UsedOnce, Holds, LoginOps, Idle

(* Only what happens to the requests of an attempt and to the rows of the   *)
(* login matters.                                                           *)
LEMMA LoginKept ==
  ASSUME LoginInv, UNCHANGED login,
         \A s \in Thread :
           /\ Holds(s)' => Holds(s) /\ task'[s].at = task[s].at
           /\ task'[s].op \in {"take", "claim"} => task'[s].at \in Attempt
  PROVE  LoginInv'
BY DEF login, LoginInv, Reading, Holding, OneHolder, Used, UsedOnce, Holds

(* A request that goes on without taking an attempt.                        *)
LEMMA LoginGoes ==
  ASSUME TypeOK, LoginInv, UNCHANGED login, NEW t, NEW r \in Task, Goes(t, r),
         r.op \in LoginOps /\ t \in Thread => Holds(t) /\ r.at = task[t].at,
         r.op \in {"take", "claim"} => r.at \in Attempt
  PROVE  LoginInv'
<1>1. ASSUME NEW s \in Thread
      PROVE  /\ Holds(s)' => Holds(s) /\ task'[s].at = task[s].at
             /\ task'[s].op \in {"take", "claim"} => task'[s].at \in Attempt
  <2>1. CASE s = t
    BY <2>1, OthersStay DEF TypeOK, Holds
  <2>2. CASE s # t
    BY <2>2, OthersStay DEF TypeOK, Holds, LoginInv, Reading
  <2>3. QED
    BY <2>1, <2>2
<1>2. QED
  BY <1>1, LoginKept

LEMMA LoginTake ==
  ASSUME TypeOK, LoginInv, NEW t \in Thread, TakeAttempt(t) PROVE LoginInv'
<1> DEFINE a == task[t].at
           r == [task[t] EXCEPT !.op = "verify"]
<1> USE DEF TypeOK
<1>1. /\ a \in Attempt /\ attempt[a] = "open" /\ r \in Task
      /\ exchange[a] = None /\ redeemed[a] = 0 /\ taken[a] = 0
      /\ r.op = "verify" /\ r.at = a
      /\ attempt' = [attempt EXCEPT ![a] = "gone"] /\ taken' = [taken EXCEPT ![a] = @ + 1]
      /\ UNCHANGED <<exchange, redeemed>>
      /\ Goes(t, r)
  BY DEF TakeAttempt, LoginInv, Reading, Used, Task, Op
<1> HIDE DEF r, a
<1>2. /\ task'[t] = r
      /\ \A s \in Thread : s # t =>
           /\ Holds(s)' = Holds(s) /\ task'[s].at = task[s].at /\ task'[s].op = task[s].op
  BY <1>1, OthersStay DEF Holds
<1>3. \A s \in Thread : Holds(s) => task[s].at # a
  BY <1>1 DEF LoginInv, Holding
<1>4. Reading'
  BY <1>1, <1>2 DEF LoginInv, Reading
<1>5. Holding' /\ OneHolder'
  BY <1>1, <1>2, <1>3 DEF LoginInv, Holding, OneHolder, Holds, LoginOps
<1>6. Used' /\ UsedOnce'
  BY <1>1 DEF LoginInv, Used, UsedOnce
<1>7. QED
  BY <1>4, <1>5, <1>6 DEF LoginInv

LEMMA LoginIssue ==
  ASSUME TypeOK, LoginInv, NEW t \in Thread, Issue(t) PROVE LoginInv'
<1> DEFINE a == task[t].at
<1> USE DEF TypeOK
<1>1. /\ a \in Attempt /\ attempt[a] = "gone" /\ redeemed[a] = 0 /\ Holds(t)
      /\ exchange' = [exchange EXCEPT ![a] = task[t].id]
      /\ UNCHANGED <<attempt, taken, redeemed>>
      /\ Goes(t, Idle)
  BY DEF Issue, LoginInv, Holding, Holds, LoginOps
<1> HIDE DEF a
<1>2. /\ ~Holds(t)' /\ task'[t].op = "idle"
      /\ \A s \in Thread : s # t =>
           /\ Holds(s)' = Holds(s) /\ task'[s].at = task[s].at /\ task'[s].op = task[s].op
  BY <1>1, OthersStay, IdleIsTask DEF Holds, LoginOps, Idle
<1>3. \A s \in Thread : Holds(s) /\ s # t => task[s].at # a
  BY <1>1 DEF LoginInv, OneHolder, a
<1>4. Reading'
  BY <1>1, <1>2 DEF LoginInv, Reading
<1>5. Holding' /\ OneHolder'
  BY <1>1, <1>2, <1>3 DEF LoginInv, Holding, OneHolder
<1>6. Used' /\ UsedOnce'
  BY <1>1 DEF LoginInv, Used, UsedOnce
<1>7. QED
  BY <1>4, <1>5, <1>6 DEF LoginInv

LEMMA LoginClaim ==
  ASSUME TypeOK, LoginInv, NEW t \in Thread, ClaimCode(t) PROVE LoginInv'
<1> DEFINE a == task[t].at
           r == [task[t] EXCEPT !.op = "mint"]
<1> USE DEF TypeOK
<1>1. /\ a \in Attempt /\ exchange[a] # None /\ attempt[a] = "gone" /\ redeemed[a] = 0
      /\ r \in Task /\ r.op = "mint"
      /\ exchange' = [exchange EXCEPT ![a] = None] /\ redeemed' = [redeemed EXCEPT ![a] = @ + 1]
      /\ UNCHANGED <<attempt, taken>>
      /\ Goes(t, r)
  BY DEF ClaimCode, LoginInv, Reading, Used, Task, Op
<1> HIDE DEF r, a
<1>2. /\ ~Holds(t)' /\ task'[t].op = "mint"
      /\ \A s \in Thread : s # t =>
           /\ Holds(s)' = Holds(s) /\ task'[s].at = task[s].at /\ task'[s].op = task[s].op
  BY <1>1, OthersStay DEF Holds, LoginOps
<1>3. \A s \in Thread : Holds(s) => task[s].at # a
  BY <1>1 DEF LoginInv, Holding
<1>4. Reading'
  BY <1>1, <1>2 DEF LoginInv, Reading
<1>5. Holding' /\ OneHolder'
  BY <1>1, <1>2, <1>3 DEF LoginInv, Holding, OneHolder
<1>6. Used' /\ UsedOnce'
  BY <1>1 DEF LoginInv, Used, UsedOnce
<1>7. QED
  BY <1>4, <1>5, <1>6 DEF LoginInv

LEMMA LoginErase ==
  ASSUME TypeOK, LoginInv, NEW t \in Thread, Erase(t) PROVE LoginInv'
<1> USE DEF TypeOK
<1>1. /\ \A a \in Attempt : exchange'[a] # None => exchange'[a] = exchange[a]
      /\ UNCHANGED <<attempt, taken, redeemed>>
      /\ Goes(t, Idle)
  BY DEF Erase
<1>2. /\ ~Holds(t)' /\ task'[t].op = "idle"
      /\ \A s \in Thread : s # t =>
           /\ Holds(s)' = Holds(s) /\ task'[s].at = task[s].at /\ task'[s].op = task[s].op
  BY <1>1, OthersStay, IdleIsTask DEF Holds, LoginOps, Idle
<1>3. Reading'
  BY <1>1, <1>2 DEF LoginInv, Reading
<1>4. Holding' /\ OneHolder'
  BY <1>1, <1>2 DEF LoginInv, Holding, OneHolder
<1>5. Used' /\ UsedOnce'
  BY <1>1 DEF LoginInv, Used, UsedOnce
<1>6. QED
  BY <1>3, <1>4, <1>5 DEF LoginInv

LEMMA LoginStep == TypeOK /\ LoginInv /\ [Next]_vars => LoginInv'
<1> SUFFICES ASSUME TypeOK, LoginInv, [Next]_vars PROVE LoginInv'
  OBVIOUS
<1>0. /\ Idle \in Task /\ Idle.op = "idle" /\ task \in [Thread -> Task]
      /\ \A o \in {"idle", "take", "verify", "enter", "grant", "issue", "claim", "mint",
                   "boot", "count", "erase", "role"} : o \in Op
      /\ Local \in Id
  BY IdleIsTask DEF TypeOK, Idle, Op, Id
<1>1. ASSUME NEW a \in Attempt, Start(a) \/ Expire(a) PROVE LoginInv'
  <2>1. UNCHANGED <<task, taken, redeemed>>
    BY <1>1 DEF Start, Expire
  <2>2. /\ \A b \in Attempt : attempt'[b] # "gone" => attempt[b] # "gone"
        /\ \A b \in Attempt : attempt[b] = "gone" => attempt'[b] = "gone"
        /\ \A b \in Attempt : exchange'[b] # None => exchange'[b] = exchange[b]
    BY <1>1 DEF Start, Expire, TypeOK
  <2>3. Reading' /\ OneHolder' /\ UsedOnce'
    BY <2>1 DEF LoginInv, Reading, OneHolder, UsedOnce, Holds
  <2>4. Holding' /\ Used'
    BY <2>1, <2>2 DEF LoginInv, Holding, Used, Holds
  <2>5. QED
    BY <2>3, <2>4 DEF LoginInv
<1>2. ASSUME NEW t \in Thread, NEW a \in Attempt, ReadAttempt(t, a) PROVE LoginInv'
  <2> DEFINE r == [Idle EXCEPT !.op = "take", !.at = a]
  <2>1. r \in Task /\ r.op = "take" /\ r.at = a
    BY <1>0, TaskFields DEF Task
  <2>2. QED
    BY <1>2, <2>1, LoginGoes DEF ReadAttempt, LoginOps
<1>3. ASSUME NEW t \in Thread, NEW a \in Attempt, ReadCode(t, a) PROVE LoginInv'
  <2> DEFINE r == [Idle EXCEPT !.op = "claim", !.at = a, !.id = exchange[a]]
  <2>1. exchange[a] \in Id
    BY <1>3 DEF ReadCode, TypeOK
  <2>2. r \in Task /\ r.op = "claim" /\ r.at = a
    BY <1>0, <2>1, TaskFields DEF Task
  <2>3. QED
    BY <1>3, <2>2, LoginGoes DEF ReadCode, LoginOps
<1>4. ASSUME NEW t \in Thread, NEW u \in User, CountAccounts(t, u) PROVE LoginInv'
  <2> DEFINE r == [task[t] EXCEPT !.op = "enter", !.id = u, !.first = Empty]
  <2>1. r \in Task /\ r.op = "enter" /\ r.at = task[t].at
    BY <1>0 DEF Task, Id, Empty
  <2>2. Holds(t)
    BY <1>4 DEF CountAccounts, Holds, LoginOps
  <2>3. QED
    BY <1>4, <2>1, <2>2, LoginGoes DEF CountAccounts
<1>5. ASSUME NEW t \in Thread, Enter(t) \/ Grant(t) PROVE LoginInv'
  <2>1. PICK o \in {"grant", "issue"} : Goes(t, [task[t] EXCEPT !.op = o])
    BY <1>5 DEF Enter, Grant
  <2> DEFINE r == [task[t] EXCEPT !.op = o]
  <2>2. r \in Task /\ r.op = o /\ r.at = task[t].at
    BY <1>0 DEF Task
  <2>3. Holds(t) /\ UNCHANGED login
    BY <1>5 DEF Enter, Grant, Holds, LoginOps
  <2>4. QED
    BY <2>1, <2>2, <2>3, LoginGoes
<1>6. ASSUME NEW t \in Thread, TakeAttempt(t) \/ Issue(t) \/ ClaimCode(t) \/ Erase(t) PROVE LoginInv'
  BY <1>6, LoginTake, LoginIssue, LoginClaim, LoginErase
<1>7. ASSUME NEW t \in Thread, Mint(t) \/ Abandon(t) PROVE LoginInv'
  BY <1>0, <1>7, LoginGoes DEF Mint, Abandon, LoginOps
<1>8. ASSUME NEW t \in Thread, CheckBootstrap(t) PROVE LoginInv'
  <2> DEFINE r == [Idle EXCEPT !.op = "boot", !.id = Local]
  <2>1. r \in Task /\ r.op = "boot"
    BY <1>0, TaskFields DEF Task
  <2>2. QED
    BY <1>8, <2>1, LoginGoes DEF CheckBootstrap, LoginOps
<1>9. ASSUME NEW t \in Thread, Bootstrap(t) PROVE LoginInv'
  <2> DEFINE r == [task[t] EXCEPT !.op = "mint"]
  <2>1. r \in Task /\ r.op = "mint"
    BY <1>0 DEF Task
  <2>2. QED
    BY <1>9, <2>1, LoginGoes DEF Bootstrap, LoginOps
<1>10. ASSUME NEW t \in Thread, CountAdmins(t) PROVE LoginInv'
  <2> DEFINE r == IF Cardinality(Admins) <= 1 THEN Idle ELSE [task[t] EXCEPT !.op = "erase"]
  <2>1. r \in Task /\ r.op \in {"idle", "erase"}
    BY <1>0 DEF Task
  <2>2. QED
    BY <1>10, <2>1, LoginGoes DEF CountAdmins, LoginOps
<1>11. ASSUME NEW t \in Thread, NEW c \in conns, NEW i \in Id, AskErase(t, c, i) PROVE LoginInv'
  <2> DEFINE r == [Idle EXCEPT !.id = i, !.op = IF account[i] = "admin" THEN "count" ELSE "erase"]
  <2>1. r \in Task /\ r.op \in {"count", "erase"}
    BY <1>0, TaskFields DEF Task
  <2>2. QED
    BY <1>11, <2>1, LoginGoes DEF AskErase, LoginOps
<1>12. ASSUME NEW c \in conns, NEW i \in Id, NEW r \in Role, SetRole(c, i, r) PROVE LoginInv'
  BY <1>0, <1>12, LoginGoes DEF SetRole, LoginOps
<1>ask. ASSUME NEW t \in Thread, NEW i \in Id, AskRole(t, i) PROVE LoginInv'
  <2> DEFINE r == [Idle EXCEPT !.op = "role", !.id = i]
  <2>1. r \in Task /\ r.op = "role" /\ r.id = i
    BY <1>0, TaskFields DEF Task
  <2>2. QED
    BY <1>ask, <2>1, LoginGoes DEF AskRole, LoginOps
<1>guest. ASSUME NEW t \in Thread, NEW r \in Role, GuestSetRole(t, r) PROVE LoginInv'
  BY <1>0, <1>guest, LoginGoes DEF GuestSetRole, LoginOps
<1>13. ASSUME UNCHANGED <<task, login>> PROVE LoginInv'
  BY <1>13, LoginKept DEF Holds, LoginInv, Reading
<1>14. ASSUME NEW i \in Id, Connect(i) PROVE LoginInv'
  BY <1>13, <1>14 DEF Connect
<1>15. ASSUME NEW c \in conns, Disconnect(c) PROVE LoginInv'
  BY <1>13, <1>15 DEF Disconnect
<1>16. CASE UNCHANGED vars
  BY <1>13, <1>16 DEF vars, login
<1>17. QED
  BY <1>1, <1>2, <1>3, <1>4, <1>5, <1>6, <1>7, <1>8, <1>9, <1>10, <1>11, <1>12, <1>14, <1>15,
     <1>16, <1>ask, <1>guest DEF Next

(* However often the browser sends an attempt or a code, and however the    *)
(* requests that carry it interleave, finish_linkkeys_login lets one login  *)
(* through and authenticate gives one session.                              *)
THEOREM OneUse == Spec => []UsedOnce
<1>1. Init => TypeOK /\ LoginInv
  BY TypeInit, LoginInit
<1>2. (TypeOK /\ LoginInv) /\ [Next]_vars => (TypeOK /\ LoginInv)'
  BY TypeStep, LoginStep
<1>3. LoginInv => UsedOnce
  BY DEF LoginInv
<1>4. QED
  BY <1>1, <1>2, <1>3, PTL DEF Spec

-----------------------------------------------------------------------------
(* Roles *)

(* Who is about to be made administrator came first.                        *)
GrantsAreFirst ==
  \A t \in Thread : /\ task[t].op = "grant" => task[t].first
                    /\ task[t].op = "boot" => task[t].id = Local

LEMMA RolesGoes ==
  ASSUME TypeOK, GrantsAreFirst, NEW t, NEW r \in Task, Goes(t, r),
         r.op = "grant" => r.first, r.op = "boot" => r.id = Local
  PROVE  GrantsAreFirst'
BY OthersStay DEF TypeOK, GrantsAreFirst

LEMMA RolesStep == TypeOK /\ GrantsAreFirst /\ [Next]_vars => GrantsAreFirst'
<1> SUFFICES ASSUME TypeOK, GrantsAreFirst, [Next]_vars PROVE GrantsAreFirst'
  OBVIOUS
<1>0. /\ Idle \in Task /\ Idle.op = "idle" /\ task \in [Thread -> Task] /\ Local \in Id
      /\ \A o \in {"idle", "take", "verify", "enter", "grant", "issue", "claim", "mint",
                   "boot", "count", "erase", "role"} : o \in Op
  BY IdleIsTask DEF TypeOK, Idle, Op, Id
<1>1. ASSUME UNCHANGED task PROVE GrantsAreFirst'
  BY <1>1 DEF GrantsAreFirst
<1>2. ASSUME NEW t, NEW r \in Task, Goes(t, r), r.op \notin {"grant", "boot"} PROVE GrantsAreFirst'
  BY <1>2, RolesGoes
<1>3. ASSUME NEW t \in Thread, NEW a \in Attempt, ReadAttempt(t, a) PROVE GrantsAreFirst'
  <2> DEFINE r == [Idle EXCEPT !.op = "take", !.at = a]
  <2>1. r \in Task /\ r.op = "take"
    BY <1>0, TaskFields DEF Task
  <2>2. QED
    BY <1>3, <2>1, <1>2 DEF ReadAttempt
<1>4. ASSUME NEW t \in Thread, NEW a \in Attempt, ReadCode(t, a) PROVE GrantsAreFirst'
  <2> DEFINE r == [Idle EXCEPT !.op = "claim", !.at = a, !.id = exchange[a]]
  <2>1. exchange[a] \in Id
    BY <1>4 DEF ReadCode, TypeOK
  <2>2. r \in Task /\ r.op = "claim"
    BY <1>0, <2>1, TaskFields DEF Task
  <2>3. QED
    BY <1>4, <2>2, <1>2 DEF ReadCode
<1>5. ASSUME NEW t \in Thread, NEW u \in User, CountAccounts(t, u) PROVE GrantsAreFirst'
  <2> DEFINE r == [task[t] EXCEPT !.op = "enter", !.id = u, !.first = Empty]
  <2>1. r \in Task /\ r.op = "enter"
    BY <1>0 DEF Task, Id, Empty
  <2>2. QED
    BY <1>5, <2>1, <1>2 DEF CountAccounts
<1>6. ASSUME NEW t \in Thread, Enter(t) PROVE GrantsAreFirst'
  <2> DEFINE r == [task[t] EXCEPT !.op = IF task[t].first THEN "grant" ELSE "issue"]
  <2>1. r \in Task /\ r.first = task[t].first /\ r.op # "boot"
        /\ (r.op = "grant" => task[t].first)
    BY <1>0 DEF Task
  <2>2. QED
    BY <1>6, <2>1, RolesGoes DEF Enter
<1>7. ASSUME NEW t \in Thread, NEW o \in Op \ {"grant", "boot"},
             Goes(t, [task[t] EXCEPT !.op = o])
      PROVE  GrantsAreFirst'
  <2> DEFINE r == [task[t] EXCEPT !.op = o]
  <2>1. r \in Task /\ r.op = o
    BY <1>0 DEF Task
  <2>2. QED
    BY <1>2, <1>7, <2>1
<1>8. ASSUME NEW t \in Thread,
             TakeAttempt(t) \/ Grant(t) \/ ClaimCode(t) \/ Bootstrap(t)
      PROVE  GrantsAreFirst'
  BY <1>0, <1>7, <1>8 DEF TakeAttempt, Grant, ClaimCode, Bootstrap
<1>9. ASSUME NEW t \in Thread, Issue(t) \/ Mint(t) \/ Erase(t) \/ Abandon(t)
      PROVE  GrantsAreFirst'
  BY <1>0, <1>2, <1>9 DEF Issue, Mint, Erase, Abandon
<1>10. ASSUME NEW t \in Thread, CheckBootstrap(t) PROVE GrantsAreFirst'
  <2> DEFINE r == [Idle EXCEPT !.op = "boot", !.id = Local]
  <2>1. r \in Task /\ r.op = "boot" /\ r.id = Local
    BY <1>0, TaskFields DEF Task
  <2>2. QED
    BY <1>10, <2>1, RolesGoes DEF CheckBootstrap
<1>11. ASSUME NEW t \in Thread, CountAdmins(t) PROVE GrantsAreFirst'
  BY <1>0, <1>2, <1>7, <1>11 DEF CountAdmins
<1>12. ASSUME NEW t \in Thread, NEW c \in conns, NEW i \in Id, AskErase(t, c, i)
       PROVE  GrantsAreFirst'
  <2> DEFINE r == [Idle EXCEPT !.id = i, !.op = IF account[i] = "admin" THEN "count" ELSE "erase"]
  <2>1. r \in Task /\ r.op \in {"count", "erase"}
    BY <1>0, TaskFields DEF Task
  <2>2. QED
    BY <1>12, <2>1, <1>2 DEF AskErase
<1>13. ASSUME NEW c \in conns, NEW i \in Id, NEW r \in Role, SetRole(c, i, r)
       PROVE  GrantsAreFirst'
  BY <1>0, <1>2, <1>13 DEF SetRole
<1>ask. ASSUME NEW t \in Thread, NEW i \in Id, AskRole(t, i) PROVE GrantsAreFirst'
  <2> DEFINE r == [Idle EXCEPT !.op = "role", !.id = i]
  <2>1. r \in Task /\ r.op = "role" /\ r.id = i
    BY <1>0, TaskFields DEF Task
  <2>2. QED
    BY <1>ask, <2>1, <1>2 DEF AskRole
<1>guest. ASSUME NEW t \in Thread, NEW r \in Role, GuestSetRole(t, r) PROVE GrantsAreFirst'
  BY <1>0, <1>2, <1>guest DEF GuestSetRole
<1>14. ASSUME NEW a \in Attempt, Start(a) \/ Expire(a) PROVE GrantsAreFirst'
  BY <1>1, <1>14 DEF Start, Expire
<1>15. ASSUME NEW i \in Id, Connect(i) PROVE GrantsAreFirst'
  BY <1>1, <1>15 DEF Connect
<1>16. ASSUME NEW c \in conns, Disconnect(c) PROVE GrantsAreFirst'
  BY <1>1, <1>16 DEF Disconnect
<1>17. CASE UNCHANGED vars
  BY <1>1, <1>17 DEF vars
<1>18. QED
  BY <1>3, <1>4, <1>5, <1>6, <1>8, <1>9, <1>10, <1>11, <1>12, <1>13, <1>14, <1>15, <1>16,
     <1>17, <1>ask, <1>guest DEF Next

RoleChangesAreGiven ==
  \A i \in Id :
    Exists(i) /\ Exists(i)' /\ account'[i] # account[i] =>
      \/ \E c \in conns : c.role = "admin"
      \/ \E t \in Thread : task[t].id = i /\ task[t].op = "role"
      \/ account'[i] = "admin" /\ \E t \in Thread :
           task[t].id = i /\ (task[t].first \/ task[t].op = "boot")

LEMMA RoleChanges ==
  TypeOK /\ GrantsAreFirst /\ [Next]_vars => RoleChangesAreGiven
<1> SUFFICES ASSUME TypeOK, GrantsAreFirst, [Next]_vars,
                    NEW i \in Id, Exists(i), Exists(i)', account'[i] # account[i]
             PROVE  \/ \E c \in conns : c.role = "admin"
                    \/ \E t \in Thread : task[t].id = i /\ task[t].op = "role"
                    \/ account'[i] = "admin" /\ \E t \in Thread :
                         task[t].id = i /\ (task[t].first \/ task[t].op = "boot")
  BY DEF RoleChangesAreGiven
<1> USE DEF TypeOK
<1>1. CASE UNCHANGED account
  BY <1>1
<1>2. ASSUME NEW t \in Thread, Enter(t) PROVE FALSE
  BY <1>2 DEF Enter, Exists
<1>3. ASSUME NEW t \in Thread, Grant(t) PROVE account'[i] = "admin" /\ task[t].id = i /\ task[t].first
  BY <1>3 DEF Grant, GrantsAreFirst, Exists
<1>4. ASSUME NEW t \in Thread, Bootstrap(t)
      PROVE account'[i] = "admin" /\ task[t].id = i /\ task[t].op = "boot"
  BY <1>4 DEF Bootstrap, GrantsAreFirst
<1>5. ASSUME NEW t \in Thread, Erase(t) PROVE FALSE
  BY <1>5 DEF Erase, Exists
<1>6. ASSUME NEW c \in conns, NEW j \in Id, NEW r \in Role, SetRole(c, j, r)
      PROVE  \E d \in conns : d.role = "admin"
  BY <1>6 DEF SetRole
<1>guest. ASSUME NEW t \in Thread, NEW r \in Role, GuestSetRole(t, r)
      PROVE  task[t].id = i /\ task[t].op = "role"
  BY <1>guest DEF GuestSetRole
<1>7. ASSUME NEW a \in Attempt, Start(a) \/ Expire(a) PROVE UNCHANGED account
  BY <1>7 DEF Start, Expire
<1>8. ASSUME NEW t \in Thread,
             \/ \E a \in Attempt : ReadAttempt(t, a) \/ ReadCode(t, a)
             \/ \E u \in User : CountAccounts(t, u)
             \/ TakeAttempt(t) \/ Issue(t) \/ ClaimCode(t) \/ Mint(t) \/ CheckBootstrap(t)
             \/ CountAdmins(t) \/ Abandon(t)
             \/ \E c \in conns, j \in Id : AskErase(t, c, j)
             \/ \E j \in Id : AskRole(t, j)
      PROVE  UNCHANGED account
  BY <1>8 DEF ReadAttempt, ReadCode, CountAccounts, TakeAttempt, Issue, ClaimCode, Mint,
              CheckBootstrap, CountAdmins, Abandon, AskErase, AskRole, KeepAccounts
<1>9. ASSUME (\E j \in Id : Connect(j)) \/ (\E c \in conns : Disconnect(c)) \/ UNCHANGED vars
      PROVE  UNCHANGED account
  BY <1>9 DEF Connect, Disconnect, vars
<1>10. QED
  BY <1>1, <1>2, <1>3, <1>4, <1>5, <1>6, <1>7, <1>8, <1>9, <1>guest DEF Next

(* No login takes a role away, and only a first login, the bootstrap token  *)
(* and a request without a login that was let in while there was no account *)
(* give one without an administrator's connection (set_role,                *)
(* upsert_linkkeys_account, authenticate).                                  *)
THEOREM RolesGiven == Spec => RolesAreGiven
<1>1. Init => TypeOK /\ GrantsAreFirst
  BY TypeInit DEF Init, GrantsAreFirst, Idle
<1>2. (TypeOK /\ GrantsAreFirst) /\ [Next]_vars => (TypeOK /\ GrantsAreFirst)'
  BY TypeStep, RolesStep
<1>3. Spec => [](TypeOK /\ GrantsAreFirst)
  BY <1>1, <1>2, PTL DEF Spec
<1>4. (TypeOK /\ GrantsAreFirst) /\ [Next]_vars => [RoleChangesAreGiven]_vars
  BY RoleChanges
<1>5. Spec => [][RoleChangesAreGiven]_vars
  BY <1>3, <1>4, PTL DEF Spec
<1>6. QED
  BY <1>5 DEF RolesAreGiven, RoleChangesAreGiven

-----------------------------------------------------------------------------
(* An administrator remains *)

(* There is an administrator, or a first login is about to make one.        *)
Safe == Admins # {} \/ \E t \in Thread : task[t].op = "grant"

AdminInv ==
  ~ownerless =>
    /\ Empty \/ Safe
    /\ \A t \in Thread :
         /\ task[t].op = "enter" /\ ~task[t].first => Safe
         /\ task[t].op = "erase" /\ ~task[t].raced => Admins # {task[t].id}

LEMMA OneIsOne ==
  ASSUME NEW x PROVE Cardinality({x}) <= 1
BY FS_Singleton

(* What a step has to show: deletions that have made their checks either    *)
(* see the same administrators or know of the change.                       *)
LEMMA AdminGoes ==
  ASSUME TypeOK, AdminInv, ~ownerless, NEW t, NEW r \in Task, Goes(t, r),
         Empty' \/ Safe', Safe => Safe',
         r.op = "enter" /\ ~r.first => Safe',
         r.op = "erase" /\ ~r.raced => Admins' # {r.id}
  PROVE  AdminInv'
<1>1. ASSUME NEW s \in Thread, task'[s].op = "enter", ~task'[s].first PROVE Safe'
  BY <1>1, OthersStay DEF TypeOK, AdminInv
<1>2. ASSUME NEW s \in Thread, task'[s].op = "erase", ~task'[s].raced
      PROVE  Admins' # {task'[s].id}
  <2>1. CASE s = t
    <3>1. task'[s] = r
      BY <2>1 DEF Goes
    <3>2. r.op = "erase" /\ ~r.raced
      BY <1>2, <3>1
    <3>3. Admins' # {r.id}
      BY <3>2
    <3>4. QED
      BY <3>1, <3>3
  <2>2. CASE s # t /\ task'[s] = task[s] /\ Admins' = Admins
    BY <1>2, <2>2 DEF AdminInv
  <2>3. CASE s # t /\ Admins' # Admins
    <3>1. task[s].op = "erase"
      BY <1>2, <2>3, OthersStay DEF TypeOK
    <3>2. task'[s] = [task[s] EXCEPT !.raced = TRUE]
      BY <2>3, <3>1 DEF Goes
    <3>3. QED
      BY <1>2, <3>2 DEF TypeOK, Task
  <2>4. CASE s # t /\ task'[s] # task[s]
    BY <2>3, <2>4, GoesFacts DEF TypeOK
  <2>5. QED
    BY <2>1, <2>2, <2>3, <2>4
<1>3. QED
  BY <1>1, <1>2 DEF AdminInv

(* A request that changes no account. *)
LEMMA AdminReads ==
  ASSUME TypeOK, AdminInv, UNCHANGED <<account, ownerless>>,
         NEW t \in Thread, NEW r \in Task, Goes(t, r), task[t].op # "grant",
         r.op = "enter" /\ ~r.first => ~Empty,
         r.op = "erase" /\ ~r.raced => Admins # {r.id}
  PROVE  AdminInv'
<1> SUFFICES ASSUME ~ownerless PROVE AdminInv'
  BY DEF AdminInv
<1>1. Admins' = Admins /\ Empty' = Empty
  BY DEF Admins, Empty
<1>2. Safe => Safe'
  BY <1>1, OthersStay DEF Safe, TypeOK
<1>3. Empty \/ Safe
  BY DEF AdminInv
<1>4. QED
  BY <1>1, <1>2, <1>3, AdminGoes

(* A step that leaves an administrator behind. *)
LEMMA AdminMade ==
  ASSUME TypeOK, AdminInv, ~ownerless, NEW t, NEW r \in Task, Goes(t, r),
         r.op # "erase", Admins' # {}
  PROVE  AdminInv'
<1>1. Safe'
  BY DEF Safe
<1>2. QED
  BY <1>1, AdminGoes

LEMMA AdminErase ==
  ASSUME TypeOK, AdminInv, ~ownerless, NEW t \in Thread, Erase(t), ~task[t].raced
  PROVE  AdminInv'
<1> DEFINE i == task[t].id
<1>1. /\ Idle \in Task /\ Idle.op = "idle" /\ Goes(t, Idle) /\ task[t].op = "erase"
      /\ account' = [account EXCEPT ![i] = "none"]
  BY IdleIsTask DEF Erase, Idle
<1>2. Admins # {i}
  BY <1>1 DEF AdminInv
<1>3. /\ \A j \in Id : j # i => account'[j] = account[j]
      /\ i \in Id => account'[i] = "none"
  BY <1>1 DEF TypeOK
<1> HIDE DEF i
<1>4. CASE Admins # {}
  <2>1. PICK j \in Admins : j # i
    BY <1>2, <1>4
  <2>2. j \in Admins'
    BY <1>3, <2>1 DEF Admins
  <2>3. QED
    BY <1>1, <2>2, AdminMade
<1>5. CASE Admins = {}
  <2>1. Empty => Empty'
    BY <1>3 DEF Empty
  <2>2. Safe => Safe'
    BY <1>1, <1>5, OthersStay DEF Safe, TypeOK
  <2>3. Empty \/ Safe
    BY DEF AdminInv
  <2>4. QED
    BY <1>1, <2>1, <2>2, <2>3, AdminGoes
<1>6. QED
  BY <1>4, <1>5

LEMMA AdminGuest ==
  ASSUME TypeOK, AdminInv, ~ownerless, ~ownerless', NEW t \in Thread, NEW r \in Role,
         GuestSetRole(t, r)
  PROVE  AdminInv'
<1> DEFINE i == task[t].id
<1>1. /\ Idle \in Task /\ Idle.op = "idle" /\ Goes(t, Idle) /\ task[t].op = "role"
      /\ account' = [account EXCEPT ![i] = IF @ = "none" THEN @ ELSE r]
  BY IdleIsTask DEF GuestSetRole, Idle
<1>2. Admins = {} \/ Admins' # {}
  BY DEF GuestSetRole
<1>3. \A j \in Id : account[j] = "none" <=> account'[j] = "none"
  BY <1>1 DEF TypeOK, Role
<1>4. CASE Admins' # {}
  BY <1>1, <1>4, AdminMade
<1>5. CASE Admins = {}
  <2>1. Empty => Empty'
    BY <1>3 DEF Empty
  <2>2. Safe => Safe'
    BY <1>1, <1>5, OthersStay DEF Safe, TypeOK
  <2>3. Empty \/ Safe
    BY DEF AdminInv
  <2>4. QED
    BY <1>1, <2>1, <2>2, <2>3, AdminGoes
<1>6. QED
  BY <1>2, <1>4, <1>5

LEMMA AdminStep == TypeOK /\ AdminInv /\ [Next]_vars => AdminInv'
<1> SUFFICES ASSUME TypeOK, AdminInv, [Next]_vars, ~ownerless' PROVE AdminInv'
  BY DEF AdminInv
<1>0. /\ Idle \in Task /\ Idle.op = "idle" /\ task \in [Thread -> Task] /\ Local \in Id
      /\ account \in [Id -> Role \cup {"none"}]
      /\ \A o \in {"idle", "take", "verify", "enter", "grant", "issue", "claim", "mint",
                   "boot", "count", "erase", "role"} : o \in Op
  BY IdleIsTask DEF TypeOK, Idle, Op, Id
<1>1. ASSUME UNCHANGED <<account, task, ownerless>> PROVE AdminInv'
  BY <1>1 DEF AdminInv, Empty, Safe, Admins
<1>2. ASSUME NEW t \in Thread, NEW r \in Task, Goes(t, r), r.op \notin {"enter", "erase"},
             task[t].op # "grant", UNCHANGED <<account, ownerless>>
      PROVE  AdminInv'
  BY <1>2, AdminReads
<1>3. ASSUME NEW t \in Thread, NEW a \in Attempt, ReadAttempt(t, a) PROVE AdminInv'
  <2> DEFINE r == [Idle EXCEPT !.op = "take", !.at = a]
  <2>1. r \in Task /\ r.op = "take"
    BY <1>0, TaskFields DEF Task
  <2>2. QED
    BY <1>3, <2>1, <1>2 DEF ReadAttempt, KeepAccounts
<1>4. ASSUME NEW t \in Thread, NEW a \in Attempt, ReadCode(t, a) PROVE AdminInv'
  <2> DEFINE r == [Idle EXCEPT !.op = "claim", !.at = a, !.id = exchange[a]]
  <2>1. exchange[a] \in Id
    BY <1>4 DEF ReadCode, TypeOK
  <2>2. r \in Task /\ r.op = "claim"
    BY <1>0, <2>1, TaskFields DEF Task
  <2>3. QED
    BY <1>4, <2>2, <1>2 DEF ReadCode, KeepAccounts
<1>5. ASSUME NEW t \in Thread, NEW u \in User, CountAccounts(t, u) PROVE AdminInv'
  <2> DEFINE r == [task[t] EXCEPT !.op = "enter", !.id = u, !.first = Empty]
  <2>1. r \in Task /\ r.op = "enter" /\ r.first = Empty
    BY <1>0 DEF Task, Id, Empty
  <2>2. QED
    BY <1>5, <2>1, AdminReads DEF CountAccounts, KeepAccounts
<1>6. ASSUME NEW t \in Thread, Enter(t) PROVE AdminInv'
  <2> DEFINE r == [task[t] EXCEPT !.op = IF task[t].first THEN "grant" ELSE "issue"]
  <2>1. r \in Task /\ r.op \in {"grant", "issue"} /\ (task[t].first => r.op = "grant")
    BY <1>0 DEF Task
  <2>2. Goes(t, r) /\ ~ownerless /\ task[t].op = "enter"
    BY <1>6 DEF Enter
  <2>3. Admins' = Admins
    BY <1>0, <1>6 DEF Enter, Admins
  <2>4. Safe => Safe'
    <3>1. ASSUME NEW s \in Thread, task[s].op = "grant" PROVE task'[s].op = "grant"
      BY <1>0, <2>1, <2>2, <3>1, OthersStay
    <3>2. QED
      BY <2>3, <3>1 DEF Safe
  <2>5. task[t].first => Safe'
    BY <2>1, <2>2 DEF Safe, Goes
  <2>6. Safe'
    BY <2>2, <2>4, <2>5 DEF AdminInv
  <2>7. QED
    BY <2>1, <2>2, <2>6, AdminGoes
<1>7. ASSUME NEW t \in Thread, Grant(t) PROVE AdminInv'
  <2> DEFINE r == [task[t] EXCEPT !.op = "issue"]
  <2>1. r \in Task /\ r.op = "issue" /\ Goes(t, r) /\ task[t].id \in Id \cup {None}
    BY <1>0, <1>7 DEF Task, Grant
  <2>2. Exists(task[t].id) /\ ~ownerless
    BY <1>7, Zenon DEF Grant
  <2>3. task[t].id \in Admins'
    BY <1>0, <1>7, <2>1, <2>2 DEF Grant, Exists, Admins
  <2>4. QED
    BY <2>1, <2>2, <2>3, AdminMade
<1>8. ASSUME NEW t \in Thread, NEW o \in Op \ {"enter", "erase"},
             Goes(t, [task[t] EXCEPT !.op = o]), task[t].op # "grant",
             UNCHANGED <<account, ownerless>>
      PROVE  AdminInv'
  <2> DEFINE r == [task[t] EXCEPT !.op = o]
  <2>1. r \in Task /\ r.op = o
    BY <1>0 DEF Task
  <2>2. QED
    BY <1>2, <1>8, <2>1
<1>9. ASSUME NEW t \in Thread, TakeAttempt(t) \/ ClaimCode(t) PROVE AdminInv'
  BY <1>0, <1>8, <1>9 DEF TakeAttempt, ClaimCode, KeepAccounts
<1>10. ASSUME NEW t \in Thread, Issue(t) \/ Mint(t) PROVE AdminInv'
  BY <1>0, <1>2, <1>10 DEF Issue, Mint, KeepAccounts
<1>11. ASSUME NEW t \in Thread, Abandon(t) PROVE AdminInv'
  <2>1. account' = account /\ Goes(t, Idle) /\ ownerless' = (ownerless \/ task[t].op = "grant")
    BY <1>11 DEF Abandon
  <2>2. ~ownerless /\ task[t].op # "grant"
    BY <2>1, Zenon
  <2>3. ownerless \in BOOLEAN
    BY DEF TypeOK
  <2>4. ownerless' = ownerless
    BY <2>1, <2>2, <2>3
  <2>5. QED
    BY <1>0, <1>2, <2>1, <2>2, <2>4
<1>12. ASSUME NEW t \in Thread, CheckBootstrap(t) PROVE AdminInv'
  <2> DEFINE r == [Idle EXCEPT !.op = "boot", !.id = Local]
  <2>1. r \in Task /\ r.op = "boot"
    BY <1>0, TaskFields DEF Task
  <2>2. QED
    BY <1>12, <2>1, <1>2 DEF CheckBootstrap, KeepAccounts
<1>13. ASSUME NEW t \in Thread, Bootstrap(t) PROVE AdminInv'
  <2> DEFINE r == [task[t] EXCEPT !.op = "mint"]
  <2>1. r \in Task /\ r.op = "mint" /\ Goes(t, r) /\ ~ownerless
    BY <1>0, <1>13 DEF Task, Bootstrap
  <2>2. Local \in Admins'
    BY <1>0, <1>13 DEF Bootstrap, Admins
  <2>3. QED
    BY <2>1, <2>2, AdminMade
<1>14. ASSUME NEW t \in Thread, CountAdmins(t) PROVE AdminInv'
  <2> DEFINE r == IF Cardinality(Admins) <= 1 THEN Idle ELSE [task[t] EXCEPT !.op = "erase"]
  <2>1. r \in Task /\ r.op \in {"idle", "erase"} /\ (r.op = "erase" => ~(Cardinality(Admins) <= 1))
    BY <1>0 DEF Task
  <2>2. r.op = "erase" => Admins # {r.id}
    BY <2>1, OneIsOne
  <2>3. Goes(t, r) /\ task[t].op = "count" /\ UNCHANGED <<account, ownerless>>
    BY <1>14 DEF CountAdmins, KeepAccounts
  <2>4. QED
    BY <2>1, <2>2, <2>3, AdminReads
<1>15. ASSUME NEW t \in Thread, Erase(t) PROVE AdminInv'
  BY <1>15, AdminErase DEF Erase
<1>16. ASSUME NEW t \in Thread, NEW c \in conns, NEW i \in Id, AskErase(t, c, i) PROVE AdminInv'
  <2> DEFINE r == [Idle EXCEPT !.id = i, !.op = IF account[i] = "admin" THEN "count" ELSE "erase"]
  <2>1. r \in Task /\ r.id = i /\ r.op \in {"count", "erase"} /\ (r.op = "erase" => account[i] # "admin")
    BY <1>0, TaskFields DEF Task, Idle
  <2>2. r.op = "erase" => Admins # {r.id}
    BY <2>1 DEF Admins
  <2>3. QED
    BY <1>16, <2>1, <2>2, AdminReads DEF AskErase, KeepAccounts
<1>17. ASSUME NEW c \in conns, NEW i \in Id, NEW r \in Role, SetRole(c, i, r) PROVE AdminInv'
  <2>1. ~ownerless /\ Admins' # {} /\ Goes(None, Idle)
    BY <1>17 DEF SetRole
  <2>2. QED
    BY <1>0, <2>1, AdminMade
<1>ask. ASSUME NEW t \in Thread, NEW i \in Id, AskRole(t, i) PROVE AdminInv'
  <2> DEFINE r == [Idle EXCEPT !.op = "role", !.id = i]
  <2>1. r \in Task /\ r.op = "role" /\ r.id = i
    BY <1>0, TaskFields DEF Task
  <2>2. QED
    BY <1>ask, <2>1, <1>2 DEF AskRole, KeepAccounts
<1>guest. ASSUME NEW t \in Thread, NEW r \in Role, GuestSetRole(t, r) PROVE AdminInv'
  BY <1>guest, AdminGuest DEF GuestSetRole
<1>18. ASSUME NEW a \in Attempt, Start(a) \/ Expire(a) PROVE AdminInv'
  BY <1>1, <1>18 DEF Start, Expire
<1>19. ASSUME NEW i \in Id, Connect(i) PROVE AdminInv'
  BY <1>1, <1>19 DEF Connect
<1>20. ASSUME NEW c \in conns, Disconnect(c) PROVE AdminInv'
  BY <1>1, <1>20 DEF Disconnect
<1>21. CASE UNCHANGED vars
  BY <1>1, <1>21 DEF vars
<1>22. QED
  BY <1>3, <1>4, <1>5, <1>6, <1>7, <1>9, <1>10, <1>11, <1>12, <1>13, <1>14, <1>15, <1>16,
     <1>17, <1>18, <1>19, <1>20, <1>21, <1>ask, <1>guest DEF Next

(* Whatever the interleaving of first logins, role changes and deletions,   *)
(* an instance with accounts and no administrator got there in one of the   *)
(* four ways the code leaves open (finish_linkkeys_login between upsert     *)
(* and set_role, set_role of the last administrator by an administrator or  *)
(* by a caller without a login that was let in before there was an account, *)
(* delete_account with a count that is out of date); no other exists.       *)
THEOREM AdminStays == Spec => []AdminRemains
<1>1. Init => TypeOK /\ AdminInv
  BY TypeInit DEF Init, AdminInv, Empty, Idle
<1>2. (TypeOK /\ AdminInv) /\ [Next]_vars => (TypeOK /\ AdminInv)'
  BY TypeStep, AdminStep
<1>3. AdminInv => AdminRemains
  BY DEF AdminInv, AdminRemains, Safe
<1>4. QED
  BY <1>1, <1>2, <1>3, PTL DEF Spec
=============================================================================
