--------------------------- MODULE DeletionProofs ---------------------------
(***************************************************************************)
(* Theorems about Deletion, for every set of accounts, names, saves and    *)
(* deletions and any number of stops.                                      *)
(***************************************************************************)
EXTENDS Deletion, TLAPS

USE DistinctAssumption, CrashesAssumption DEF Item, server

-----------------------------------------------------------------------------
(* Type correctness *)

DelState == [pc: DelPc, who: Account \cup {None}, list: SUBSET Name,
             todo: SUBSET Name, own: SUBSET Name, cur: Name \cup {None}]
SaveState == [pc: SavePc, owner: Account \cup {None}, name: Name \cup {None}]

LEMMA States ==
  /\ DelDone = [pc |-> "done", who |-> None, list |-> {}, todo |-> {}, own |-> {}, cur |-> None]
  /\ SaveDone = [pc |-> "done", owner |-> None, name |-> None]
  /\ NoDel \in DelState /\ DelDone \in DelState
  /\ NoSave \in SaveState /\ SaveDone \in SaveState
BY DEF DelState, SaveState, DelPc, Busy, SavePc, NoDel, DelDone, NoSave, SaveDone

LEMMA TypeInit == Init => TypeOK
<1> SUFFICES ASSUME Init PROVE TypeOK
  OBVIOUS
<1>1. row \in [Name -> Row \cup {None}] /\ file \in [Name -> Text \cup {None}]
  BY DEF Init, Row, Text
<1>2. /\ del \in [Request -> DelState] /\ save \in [Writer -> SaveState]
      /\ staged \in [Item -> Text \cup {None}]
  BY States DEF Init
<1>3. QED
  BY <1>1, <1>2 DEF Init, TypeOK, DelState, SaveState

(* A deletion that moves a file, or removes its metadata, has a file in     *)
(* hand that is not in staging (yet, or any more), what it has moved is in  *)
(* staging, and what is left to do is not, as is nothing of a deletion not  *)
(* yet asked for.  Torn metadata is of none of these.                       *)
Untouched(i) == staged[i] = None /\ i \notin torn
Step(d) ==
  /\ del[d].pc = "idle" => \A n \in Name : Untouched(<<d, n>>)
  /\ del[d].pc \in Busy => /\ \A n \in del[d].todo : Untouched(<<d, n>>)
                          /\ \A n \in del[d].own : staged[<<d, n>>] # None
  /\ del[d].pc = "rename" => /\ del[d].cur \in Name \ del[d].todo
                            /\ <<d, del[d].cur>> \in meta
                            /\ Untouched(<<d, del[d].cur>>)
  /\ del[d].pc \in {"forget", "unnote"} => /\ del[d].cur \in Name \ del[d].own
                                          /\ Untouched(<<d, del[d].cur>>)
Steps == \A d \in Request : Step(d)

(* Only a server that is up saves and deletes, and only a start settles.    *)
Resting == phase # "up" => /\ \A d \in Request : del[d].pc \notin Busy
                           /\ \A w \in Writer : save[w].pc \notin {"write", "insert"}
Settling == settling # None => phase = "starting" /\ staged[settling] = None
NotedInv == Steps /\ Resting /\ Settling /\ StagedIsNoted

LEMMA TypeStep == TypeOK /\ NotedInv /\ [Next]_vars => TypeOK'
<1> SUFFICES ASSUME TypeOK, Steps, Resting, Settling, [Next]_vars PROVE TypeOK'
  BY DEF NotedInv
<1>0. /\ del \in [Request -> DelState] /\ save \in [Writer -> SaveState]
      /\ \A e \in Request : /\ del[e].todo \in SUBSET Name /\ del[e].own \in SUBSET Name
                           /\ del[e].list \in SUBSET Name /\ del[e].cur \in Name \cup {None}
                           /\ (del[e].cur # None => del[e].own \cup {del[e].cur} \in SUBSET Name)
      /\ \A p \in {"idle", "stage", "rename", "finish", "forget", "restore", "unnote", "done"} :
           p \in DelPc
  BY DEF TypeOK, DelState, SaveState, DelPc, Busy
<1>a. ASSUME NEW d \in Request PROVE del[d] \in DelState
  BY <1>0
<1>s. ASSUME NEW d \in Request, del[d].pc \in Busy PROVE settling = None
  BY <1>s DEF Resting, Settling
<1>1. ASSUME NEW w \in Writer, NEW a \in Account, NEW n \in Name, ChooseName(w, a, n) PROVE TypeOK'
  <2>1. save' \in [Writer -> SaveState]
    BY <1>0, <1>1, States DEF ChooseName, SaveState, SavePc
  <2>2. QED
    BY <1>1, <2>1 DEF ChooseName, disk, SaveState, Row, Text, TypeOK
<1>2. ASSUME NEW w \in Writer, WriteFile(w) PROVE TypeOK'
  <2>1. save' \in [Writer -> SaveState]
    BY <1>0, <1>2, States DEF WriteFile, SaveState, SavePc
  <2>2. QED
    BY <1>2, <2>1 DEF WriteFile, disk, SaveState, Row, Text, TypeOK
<1>26. ASSUME NEW w \in Writer, WriteFails(w) PROVE TypeOK'
  <2>1. save' \in [Writer -> SaveState]
    BY <1>0, <1>26, States DEF WriteFails, SaveState, SavePc
  <2>2. QED
    BY <1>26, <2>1 DEF WriteFails, disk, SaveState, Row, Text, TypeOK
<1>3. ASSUME NEW w \in Writer, InsertRow(w) PROVE TypeOK'
  <2>1. save' \in [Writer -> SaveState]
    BY <1>0, <1>3, States DEF InsertRow, SaveState, SavePc
  <2>2. QED
    BY <1>3, <2>1 DEF InsertRow, disk, SaveState, Row, Text, TypeOK
<1>4. ASSUME NEW w \in Writer, InsertFails(w) PROVE TypeOK'
  <2>1. save' \in [Writer -> SaveState]
    BY <1>0, <1>4, States DEF InsertFails, SaveState, SavePc
  <2>2. QED
    BY <1>4, <2>1 DEF InsertFails, disk, SaveState, Row, Text, TypeOK
<1>5. ASSUME NEW d \in Request, NEW n \in Name, AskPlaylist(d, n) PROVE TypeOK'
  <2>0. [NoDel EXCEPT !.pc = "stage", !.who = None, !.list = {n}, !.todo = {n}] \in DelState
    BY States DEF DelState, DelPc, Busy
  <2>1. del' \in [Request -> DelState]
    BY <1>0, <1>5, <2>0 DEF AskPlaylist, Begin
  <2>2. QED
    BY <1>5, <2>1 DEF AskPlaylist, Begin, disk, DelState, TypeOK
<1>6. ASSUME NEW d \in Request, NEW a \in Account, AskAccount(d, a) PROVE TypeOK'
  <2>0. [NoDel EXCEPT !.pc = "stage", !.who = a, !.list = OwnedBy(a), !.todo = OwnedBy(a)] \in DelState
    BY States DEF DelState, DelPc, Busy, OwnedBy, NoDel
  <2>1. del' \in [Request -> DelState]
    BY <1>0, <1>6, <2>0 DEF AskAccount, Begin
  <2>2. QED
    BY <1>6, <2>1 DEF AskAccount, Begin, OwnedBy, disk, DelState, TypeOK
<1>7. ASSUME NEW d \in Request, MoveAway(d) PROVE TypeOK'
  <2> DEFINE r == [del[d] EXCEPT !.pc = "stage", !.own = @ \cup {del[d].cur}, !.cur = None]
  <2>a. del[d].cur \in Name
    BY <1>7 DEF MoveAway, Steps, Step
  <2>0. r \in DelState
    BY <1>a, <2>a DEF DelState, DelPc, Busy
  <2>1. del' \in [Request -> DelState]
    BY <1>0, <2>0, <1>7 DEF MoveAway
  <2>2. del[d].cur \in Name /\ file[del[d].cur] \in Text \cup {None}
    BY <2>a DEF TypeOK
  <2>3. QED
    BY <1>7, <2>1, <2>2 DEF MoveAway, DelState, TypeOK
<1>8. ASSUME NEW d \in Request, MoveFails(d) PROVE TypeOK'
  <2> DEFINE r == [del[d] EXCEPT !.pc = "restore", !.who = None, !.todo = {}, !.cur = None]
  <2>0. r \in DelState
    BY <1>a DEF DelState, DelPc, Busy
  <2>1. del' \in [Request -> DelState]
    BY <1>0, <2>0, <1>8 DEF MoveFails, TurnsTo
  <2>2. del[d].cur \in Name /\ <<d, del[d].cur>> \notin torn
    BY <1>8 DEF MoveFails, Steps, Step, Untouched
  <2>3. settling = None
    BY <1>s, <1>8 DEF MoveFails, Busy
  <2>4. meta' \subseteq Item /\ torn' \subseteq meta' /\ settling' = None
    BY <1>8, <2>2, <2>3 DEF MoveFails, TypeOK
  <2>5. UNCHANGED <<phase, crashes, account, row, file, torn, staged, save, reused>>
    BY <1>8 DEF MoveFails
  <2>6. QED
    BY <2>1, <2>4, <2>5 DEF DelState, TypeOK
<1>9. ASSUME NEW d \in Request, Commit(d) PROVE TypeOK'
  <2> DEFINE r == [del[d] EXCEPT !.pc = "finish", !.who = None, !.todo = {}, !.cur = None]
  <2>0. r \in DelState
    BY <1>a DEF DelState, DelPc, Busy
  <2>1. del' \in [Request -> DelState]
    BY <1>0, <2>0, <1>9 DEF Commit, TurnsTo
  <2>2. QED
    BY <1>9, <2>1 DEF Commit, TurnsTo, disk, DelState, TypeOK
<1>10. ASSUME NEW d \in Request, CommitFails(d) PROVE TypeOK'
  <2> DEFINE r == [del[d] EXCEPT !.pc = "restore", !.who = None, !.todo = {}, !.cur = None]
  <2>0. r \in DelState
    BY <1>a DEF DelState, DelPc, Busy
  <2>1. del' \in [Request -> DelState]
    BY <1>0, <2>0, <1>10 DEF CommitFails, TurnsTo
  <2>2. QED
    BY <1>10, <2>1 DEF CommitFails, TurnsTo, disk, DelState, TypeOK
<1>11. ASSUME NEW d \in Request, DropMeta(d) PROVE TypeOK'
  <2> DEFINE r == [del[d] EXCEPT !.pc = IF @ = "forget" THEN "finish" ELSE "restore", !.cur = None]
  <2>0. r \in DelState
    BY <1>a DEF DelState, DelPc, Busy
  <2>1. del' \in [Request -> DelState]
    BY <1>0, <2>0, <1>11 DEF DropMeta
  <2>2. del[d].cur \in Name /\ <<d, del[d].cur>> \notin torn
    BY <1>11 DEF DropMeta, Steps, Step, Untouched
  <2>3. settling = None
    BY <1>s, <1>11 DEF DropMeta, Busy
  <2>4. meta' \subseteq Item /\ torn' \subseteq meta' /\ settling' = None
    BY <1>11, <2>2, <2>3 DEF DropMeta, TypeOK
  <2>5. UNCHANGED <<phase, crashes, account, row, file, torn, staged, save, reused>>
    BY <1>11 DEF DropMeta
  <2>6. QED
    BY <2>1, <2>4, <2>5 DEF DelState, TypeOK
<1>27. ASSUME NEW d \in Request, DropMetaFails(d) PROVE TypeOK'
  <2> DEFINE r == [del[d] EXCEPT !.pc = "finish", !.cur = None]
  <2>0. r \in DelState
    BY <1>a DEF DelState, DelPc, Busy
  <2>1. del' \in [Request -> DelState]
    BY <1>0, <2>0, <1>27 DEF DropMetaFails
  <2>2. QED
    BY <1>27, <2>1 DEF DropMetaFails, disk, DelState, TypeOK
<1>28. ASSUME NEW d \in Request, NEW n \in Name, StageFails(d, n) PROVE TypeOK'
  <2> DEFINE r == [del[d] EXCEPT !.pc = "restore", !.who = None, !.todo = {}, !.cur = None]
  <2>0. r \in DelState
    BY <1>a DEF DelState, DelPc, Busy
  <2>1. del' \in [Request -> DelState]
    BY <1>0, <2>0, <1>28 DEF StageFails, TurnsTo
  <2>2. /\ meta' \subseteq Item /\ torn' \subseteq meta'
        /\ settling' \in (meta' \ torn') \cup {None}
    <3>1. settling = None
      BY <1>s, <1>28 DEF StageFails, Busy
    <3>2. QED
      BY <1>28, <3>1 DEF StageFails, TypeOK
  <2>3. UNCHANGED <<phase, settling, crashes, account, row, file, staged, save, reused>>
    BY <1>28 DEF StageFails
  <2>4. QED
    BY <2>1, <2>2, <2>3 DEF DelState, TypeOK
<1>12. ASSUME NEW d \in Request, PutBackFails(d) PROVE TypeOK'
  <2>1. del' \in [Request -> DelState]
    BY <1>0, <1>12, States DEF PutBackFails
  <2>2. QED
    BY <1>12, <2>1 DEF PutBackFails, disk, DelState, TypeOK
<1>13. ASSUME NEW d \in Request, Answer(d) PROVE TypeOK'
  <2>1. del' \in [Request -> DelState]
    BY <1>0, <1>13, States DEF Answer
  <2>2. QED
    BY <1>13, <2>1 DEF Answer, disk, DelState, TypeOK
<1>14. ASSUME NEW d \in Request, NEW n \in Name, SkipMissing(d, n) PROVE TypeOK'
  <2> DEFINE r == [del[d] EXCEPT !.todo = @ \ {n}]
  <2>0. r \in DelState
    BY <1>a DEF DelState, DelPc, Busy
  <2>1. del' \in [Request -> DelState]
    BY <1>0, <2>0, <1>14 DEF SkipMissing
  <2>2. QED
    BY <1>14, <2>1 DEF SkipMissing, disk, DelState, TypeOK
<1>15. ASSUME NEW d \in Request, NEW n \in Name, WriteMeta(d, n) PROVE TypeOK'
  <2> DEFINE r == [del[d] EXCEPT !.pc = "rename", !.cur = n, !.todo = @ \ {n}]
  <2>0. r \in DelState
    BY <1>a DEF DelState, DelPc, Busy
  <2>1. del' \in [Request -> DelState]
    BY <1>0, <2>0, <1>15 DEF WriteMeta
  <2>2. QED
    BY <1>15, <2>1 DEF WriteMeta, disk, DelState, TypeOK
<1>16. ASSUME NEW d \in Request, NEW n \in Name, DropStaged(d, n) PROVE TypeOK'
  <2> DEFINE r == [del[d] EXCEPT !.pc = "forget", !.cur = n, !.own = @ \ {n}]
  <2>0. r \in DelState
    BY <1>a DEF DelState, DelPc, Busy
  <2>1. del' \in [Request -> DelState]
    BY <1>0, <2>0, <1>16 DEF DropStaged
  <2>2. QED
    BY <1>16, <2>1 DEF DropStaged, disk, DelState, TypeOK
<1>17. ASSUME NEW d \in Request, NEW n \in Name, DropFails(d, n) PROVE TypeOK'
  <2> DEFINE r == [del[d] EXCEPT !.own = @ \ {n}]
  <2>0. r \in DelState
    BY <1>a DEF DelState, DelPc, Busy
  <2>1. del' \in [Request -> DelState]
    BY <1>0, <2>0, <1>17 DEF DropFails
  <2>2. QED
    BY <1>17, <2>1 DEF DropFails, disk, DelState, TypeOK
<1>18. ASSUME NEW d \in Request, NEW n \in Name, PutBack(d, n) PROVE TypeOK'
  <2> DEFINE r == [del[d] EXCEPT !.pc = "unnote", !.cur = n, !.own = @ \ {n}]
  <2>0. r \in DelState
    BY <1>a DEF DelState, DelPc, Busy
  <2>1. del' \in [Request -> DelState]
    BY <1>0, <2>0, <1>18 DEF PutBack
  <2>2. QED
    BY <1>18, <2>1 DEF PutBack, disk, DelState, TypeOK
<1>19. ASSUME Crash PROVE TypeOK'
  <2>1. del' \in [Request -> DelState] /\ save' \in [Writer -> SaveState]
    BY <1>0, <1>19, States DEF Crash
  <2>2. QED
    BY <1>19, <2>1 DEF Crash, disk, DelState, SaveState, TypeOK
<1>20. ASSUME Start PROVE TypeOK'
  BY <1>20 DEF Start, disk, TypeOK
<1>21. ASSUME SettleMeta PROVE TypeOK'
  BY <1>21 DEF SettleMeta, disk, TypeOK
<1>22. ASSUME Serve \/ Refuse \/ AbortStart PROVE TypeOK'
  BY <1>22 DEF Serve, Refuse, AbortStart, disk, TypeOK
<1>23. ASSUME NEW d \in Request, NEW n \in Name, Settle(d, n) PROVE TypeOK'
  BY <1>23 DEF Settle, disk, TypeOK
<1>24. CASE UNCHANGED vars
  BY <1>24 DEF vars, disk, TypeOK
<1>25. QED
  BY <1>1, <1>2, <1>3, <1>4, <1>5, <1>6, <1>7, <1>8, <1>9, <1>10, <1>11, <1>12, <1>13, <1>14, <1>15, <1>16, <1>17, <1>18, <1>19, <1>20, <1>21, <1>22, <1>23, <1>24, <1>26, <1>27, <1>28 DEF Next, SaveStep, DeleteStep, Restart

-----------------------------------------------------------------------------
(* What is in staging has its metadata *)

LEMMA NotedInit == Init => NotedInv
BY DEF Init, NotedInv, Steps, Step, Untouched, Resting, Settling, StagedIsNoted, NoDel, NoSave, Busy

(* What other deletions do to their own items is nothing to a deletion, and *)
(* neither is what a start takes out of staging.                            *)
LEMMA StepKept ==
  ASSUME NEW e \in Request, Step(e), UNCHANGED del[e],
         \A n \in Name : staged'[<<e, n>>] \in {staged[<<e, n>>], None},
         \A n \in Name : <<e, n>> \in torn' => <<e, n>> \in torn,
         \A n \in Name : \/ del[e].pc \notin Busy
                         \/ /\ staged'[<<e, n>>] = staged[<<e, n>>]
                            /\ <<e, n>> \in meta => <<e, n>> \in meta',
         del[e].todo \subseteq Name, del[e].own \subseteq Name
  PROVE  Step(e)'
BY DEF Step, Untouched, Busy

LEMMA NotedStep == TypeOK /\ NotedInv /\ [Next]_vars => NotedInv'
<1> SUFFICES ASSUME TypeOK, NotedInv, [Next]_vars PROVE NotedInv'
  OBVIOUS
<1>0. /\ del \in [Request -> DelState] /\ save \in [Writer -> SaveState]
      /\ \A e \in Request : del[e].todo \subseteq Name /\ del[e].own \subseteq Name
      /\ Steps /\ Resting /\ Settling /\ StagedIsNoted
      /\ staged \in [Item -> Text \cup {None}] /\ settling \in (meta \ torn) \cup {None}
      /\ meta \subseteq Item /\ torn \subseteq meta
  BY DEF TypeOK, DelState, SaveState, NotedInv
(* A deletion at work: the server is up and settles nothing. *)
<1>a. ASSUME NEW d \in Request, NEW r \in DelState, del' = [del EXCEPT ![d] = r],
             del[d].pc # "done", phase = "up", UNCHANGED <<phase, settling, save>>,
             \A e \in Request \ {d}, n \in Name :
               /\ staged'[<<e, n>>] = staged[<<e, n>>]
               /\ <<e, n>> \in meta <=> <<e, n>> \in meta'
               /\ <<e, n>> \in torn <=> <<e, n>> \in torn',
             \A n \in Name : staged'[<<d, n>>] # None => <<d, n>> \in meta' \ torn',
             Step(d)'
      PROVE  NotedInv'
  <2>1. settling = None
    BY <1>0, <1>a DEF Settling
  <2>2. ASSUME NEW e \in Request \ {d} PROVE Step(e)'
    <3>1. del'[e] = del[e]
      BY <1>0, <1>a
    <3>2. QED
      BY <1>0, <1>a, <3>1, StepKept DEF Steps
  <2>3. Steps'
    BY <1>a, <2>2 DEF Steps
  <2>4. StagedIsNoted'
    BY <1>0, <1>a DEF StagedIsNoted
  <2>5. Resting' /\ Settling'
    BY <1>a, <2>1 DEF Resting, Settling
  <2>6. QED
    BY <2>3, <2>4, <2>5 DEF NotedInv
<1>c. ASSUME NEW d \in Request PROVE del[d] \in DelState
  BY <1>0
<1>b. ASSUME NEW d \in Request, del[d].pc \in Busy PROVE phase = "up"
  BY <1>0, <1>b DEF Resting
<1>1. ASSUME NEW d \in Request, NEW n \in Name, AskPlaylist(d, n) PROVE NotedInv'
  <2> DEFINE r == [NoDel EXCEPT !.pc = "stage", !.who = None, !.list = {n}, !.todo = {n}]
  <2>1. r \in DelState /\ r.pc = "stage" /\ r.todo \subseteq Name /\ r.own = {}
    BY States DEF DelState, DelPc, Busy, OwnedBy, NoDel
  <2>2. /\ del' = [del EXCEPT ![d] = r] /\ UNCHANGED <<phase, settling, save>>
        /\ del[d].pc # "done"
    BY <1>0, <1>1 DEF AskPlaylist, Begin, Busy
  <2>3. phase = "up"
    BY <1>1 DEF AskPlaylist, Begin
  <2>4. \A e \in Request \ {d}, m \in Name :
          /\ staged'[<<e, m>>] = staged[<<e, m>>]
          /\ <<e, m>> \in meta <=> <<e, m>> \in meta'
          /\ <<e, m>> \in torn <=> <<e, m>> \in torn'
    BY <1>0, <1>1 DEF AskPlaylist, Begin, disk
  <2>5. \A m \in Name : staged'[<<d, m>>] # None => <<d, m>> \in meta' \ torn'
    BY <1>0, <1>1 DEF AskPlaylist, Begin, disk, StagedIsNoted, Steps, Step, Untouched, Busy
  <2>6. Step(d)'
    <3>1. del'[d] = r
      BY <1>0, <2>2
    <3>2. /\ del[d].pc = "idle" /\ UNCHANGED <<torn, staged>>
          /\ Step(d)
      BY <1>0, <1>1 DEF AskPlaylist, Begin, disk, Steps
    <3>3. \A m \in Name : Untouched(<<d, m>>)'
      BY <3>2 DEF Step, Untouched
    <3>4. QED
      BY <2>1, <3>1, <3>3 DEF Step, Busy
  <2>7. QED
    BY <1>a, <2>1, <2>2, <2>3, <2>4, <2>5, <2>6
<1>2. ASSUME NEW d \in Request, NEW a \in Account, AskAccount(d, a) PROVE NotedInv'
  <2> DEFINE r == [NoDel EXCEPT !.pc = "stage", !.who = a, !.list = OwnedBy(a), !.todo = OwnedBy(a)]
  <2>1. r \in DelState /\ r.pc = "stage" /\ r.todo \subseteq Name /\ r.own = {}
    BY States DEF DelState, DelPc, Busy, OwnedBy, NoDel
  <2>2. /\ del' = [del EXCEPT ![d] = r] /\ UNCHANGED <<phase, settling, save>>
        /\ del[d].pc # "done"
    BY <1>0, <1>2 DEF AskAccount, Begin, Busy
  <2>3. phase = "up"
    BY <1>2 DEF AskAccount, Begin
  <2>4. \A e \in Request \ {d}, m \in Name :
          /\ staged'[<<e, m>>] = staged[<<e, m>>]
          /\ <<e, m>> \in meta <=> <<e, m>> \in meta'
          /\ <<e, m>> \in torn <=> <<e, m>> \in torn'
    BY <1>0, <1>2 DEF AskAccount, Begin, disk
  <2>5. \A m \in Name : staged'[<<d, m>>] # None => <<d, m>> \in meta' \ torn'
    BY <1>0, <1>2 DEF AskAccount, Begin, disk, StagedIsNoted, Steps, Step, Untouched, Busy
  <2>6. Step(d)'
    <3>1. del'[d] = r
      BY <1>0, <2>2
    <3>2. /\ del[d].pc = "idle" /\ UNCHANGED <<torn, staged>>
          /\ Step(d)
      BY <1>0, <1>2 DEF AskAccount, Begin, disk, Steps
    <3>3. \A m \in Name : Untouched(<<d, m>>)'
      BY <3>2 DEF Step, Untouched
    <3>4. QED
      BY <2>1, <3>1, <3>3 DEF Step, Busy
  <2>7. QED
    BY <1>a, <2>1, <2>2, <2>3, <2>4, <2>5, <2>6
<1>3. ASSUME NEW d \in Request, MoveAway(d) PROVE NotedInv'
  <2> DEFINE r == [del[d] EXCEPT !.pc = "stage", !.own = @ \cup {del[d].cur}, !.cur = None]
  <2>a. del[d].cur \in Name
    BY <1>0, <1>3 DEF MoveAway, Steps, Step
  <2>1. r \in DelState /\ r.pc = "stage" /\ r.todo = del[d].todo /\ r.own = del[d].own \cup {del[d].cur}
    BY <1>c, <2>a DEF DelState, DelPc, Busy
  <2>2. /\ del' = [del EXCEPT ![d] = r] /\ UNCHANGED <<phase, settling, save>>
        /\ del[d].pc # "done"
    BY <1>0, <1>3 DEF MoveAway, Busy
  <2>3. phase = "up"
    BY <1>b, <1>3 DEF MoveAway, Busy
  <2>4. \A e \in Request \ {d}, m \in Name :
          /\ staged'[<<e, m>>] = staged[<<e, m>>]
          /\ <<e, m>> \in meta <=> <<e, m>> \in meta'
          /\ <<e, m>> \in torn <=> <<e, m>> \in torn'
    BY <1>0, <1>3 DEF MoveAway, disk
  <2>5. \A m \in Name : staged'[<<d, m>>] # None => <<d, m>> \in meta' \ torn'
    BY <1>0, <1>3, <2>a DEF MoveAway, disk, StagedIsNoted, Steps, Step, Untouched, Busy
  <2>6. Step(d)'
    <3>1. del'[d] = r
      BY <1>0, <2>2
    <3>2. QED
      BY <1>0, <1>3, <2>a, <2>1, <3>1 DEF MoveAway, disk, Steps, Step, Untouched, Busy
  <2>7. QED
    BY <1>a, <2>1, <2>2, <2>3, <2>4, <2>5, <2>6
<1>4. ASSUME NEW d \in Request, MoveFails(d) PROVE NotedInv'
  <2> DEFINE r == [del[d] EXCEPT !.pc = "restore", !.who = None, !.todo = {}, !.cur = None]
  <2>1. r \in DelState /\ r.pc = "restore" /\ r.todo = {} /\ r.own = del[d].own
    BY <1>c DEF DelState, DelPc, Busy
  <2>2. /\ del' = [del EXCEPT ![d] = r] /\ UNCHANGED <<phase, settling, save>>
        /\ del[d].pc # "done"
    BY <1>0, <1>4 DEF MoveFails, TurnsTo, Busy
  <2>3. phase = "up"
    BY <1>b, <1>4 DEF MoveFails, TurnsTo, Busy
  <2>4. \A e \in Request \ {d}, m \in Name :
          /\ staged'[<<e, m>>] = staged[<<e, m>>]
          /\ <<e, m>> \in meta <=> <<e, m>> \in meta'
          /\ <<e, m>> \in torn <=> <<e, m>> \in torn'
    BY <1>0, <1>4 DEF MoveFails, TurnsTo, disk
  <2>5. \A m \in Name : staged'[<<d, m>>] # None => <<d, m>> \in meta' \ torn'
    BY <1>0, <1>4 DEF MoveFails, TurnsTo, disk, StagedIsNoted, Steps, Step, Untouched, Busy
  <2>6. Step(d)'
    <3>1. del'[d] = r
      BY <1>0, <2>2
    <3>2. /\ del[d].pc \in Busy
          /\ \A m \in Name : staged'[<<d, m>>] = staged[<<d, m>>]
      BY <1>0, <1>4 DEF MoveFails, disk, Busy
    <3>3. \A m \in r.own : m \in Name /\ staged[<<d, m>>] # None
      BY <1>0, <2>1, <3>2 DEF Steps, Step
    <3>4. QED
      BY <2>1, <3>1, <3>2, <3>3 DEF Step, Untouched, Busy
  <2>7. QED
    BY <1>a, <2>1, <2>2, <2>3, <2>4, <2>5, <2>6
<1>5. ASSUME NEW d \in Request, Commit(d) PROVE NotedInv'
  <2> DEFINE r == [del[d] EXCEPT !.pc = "finish", !.who = None, !.todo = {}, !.cur = None]
  <2>1. r \in DelState /\ r.pc = "finish" /\ r.todo = {} /\ r.own = del[d].own
    BY <1>c DEF DelState, DelPc, Busy
  <2>2. /\ del' = [del EXCEPT ![d] = r] /\ UNCHANGED <<phase, settling, save>>
        /\ del[d].pc # "done"
    BY <1>0, <1>5 DEF Commit, TurnsTo, Listed, Busy
  <2>3. phase = "up"
    BY <1>b, <1>5 DEF Commit, TurnsTo, Listed, Busy
  <2>4. \A e \in Request \ {d}, m \in Name :
          /\ staged'[<<e, m>>] = staged[<<e, m>>]
          /\ <<e, m>> \in meta <=> <<e, m>> \in meta'
          /\ <<e, m>> \in torn <=> <<e, m>> \in torn'
    BY <1>0, <1>5 DEF Commit, TurnsTo, Listed, disk
  <2>5. \A m \in Name : staged'[<<d, m>>] # None => <<d, m>> \in meta' \ torn'
    BY <1>0, <1>5 DEF Commit, TurnsTo, Listed, disk, StagedIsNoted, Steps, Step, Untouched, Busy
  <2>6. Step(d)'
    <3>1. del'[d] = r
      BY <1>0, <2>2
    <3>2. /\ del[d].pc \in Busy /\ UNCHANGED staged
      BY <1>5 DEF Commit, Listed, disk, Busy
    <3>3. \A m \in r.own : m \in Name /\ staged[<<d, m>>] # None
      BY <1>0, <2>1, <3>2 DEF Steps, Step
    <3>4. QED
      BY <2>1, <3>1, <3>2, <3>3 DEF Step, Busy
  <2>7. QED
    BY <1>a, <2>1, <2>2, <2>3, <2>4, <2>5, <2>6
<1>6. ASSUME NEW d \in Request, CommitFails(d) PROVE NotedInv'
  <2> DEFINE r == [del[d] EXCEPT !.pc = "restore", !.who = None, !.todo = {}, !.cur = None]
  <2>1. r \in DelState /\ r.pc = "restore" /\ r.todo = {} /\ r.own = del[d].own
    BY <1>c DEF DelState, DelPc, Busy
  <2>2. /\ del' = [del EXCEPT ![d] = r] /\ UNCHANGED <<phase, settling, save>>
        /\ del[d].pc # "done"
    BY <1>0, <1>6 DEF CommitFails, TurnsTo, Listed, Busy
  <2>3. phase = "up"
    BY <1>b, <1>6 DEF CommitFails, TurnsTo, Listed, Busy
  <2>4. \A e \in Request \ {d}, m \in Name :
          /\ staged'[<<e, m>>] = staged[<<e, m>>]
          /\ <<e, m>> \in meta <=> <<e, m>> \in meta'
          /\ <<e, m>> \in torn <=> <<e, m>> \in torn'
    BY <1>0, <1>6 DEF CommitFails, TurnsTo, Listed, disk
  <2>5. \A m \in Name : staged'[<<d, m>>] # None => <<d, m>> \in meta' \ torn'
    BY <1>0, <1>6 DEF CommitFails, TurnsTo, Listed, disk, StagedIsNoted, Steps, Step, Untouched, Busy
  <2>6. Step(d)'
    <3>1. del'[d] = r
      BY <1>0, <2>2
    <3>2. /\ del[d].pc \in Busy /\ UNCHANGED staged
      BY <1>6 DEF CommitFails, Listed, disk, Busy
    <3>3. \A m \in r.own : m \in Name /\ staged[<<d, m>>] # None
      BY <1>0, <2>1, <3>2 DEF Steps, Step
    <3>4. QED
      BY <2>1, <3>1, <3>2, <3>3 DEF Step, Busy
  <2>7. QED
    BY <1>a, <2>1, <2>2, <2>3, <2>4, <2>5, <2>6
<1>7. ASSUME NEW d \in Request, DropMeta(d) PROVE NotedInv'
  <2> DEFINE r == [del[d] EXCEPT !.pc = IF @ = "forget" THEN "finish" ELSE "restore", !.cur = None]
  <2>1. r \in DelState /\ r.pc \in {"finish", "restore"} /\ r.todo = del[d].todo /\ r.own = del[d].own
    BY <1>c DEF DelState, DelPc, Busy
  <2>2. /\ del' = [del EXCEPT ![d] = r] /\ UNCHANGED <<phase, settling, save>>
        /\ del[d].pc # "done"
    BY <1>0, <1>7 DEF DropMeta, Busy
  <2>3. phase = "up"
    BY <1>b, <1>7 DEF DropMeta, Busy
  <2>4. \A e \in Request \ {d}, m \in Name :
          /\ staged'[<<e, m>>] = staged[<<e, m>>]
          /\ <<e, m>> \in meta <=> <<e, m>> \in meta'
          /\ <<e, m>> \in torn <=> <<e, m>> \in torn'
    BY <1>0, <1>7 DEF DropMeta, disk
  <2>5. \A m \in Name : staged'[<<d, m>>] # None => <<d, m>> \in meta' \ torn'
    BY <1>0, <1>7 DEF DropMeta, disk, StagedIsNoted, Steps, Step, Untouched, Busy
  <2>6. Step(d)'
    <3>1. del'[d] = r
      BY <1>0, <2>2
    <3>2. /\ del[d].pc \in Busy
          /\ \A m \in Name : staged'[<<d, m>>] = staged[<<d, m>>]
          /\ torn' = torn
      BY <1>0, <1>7 DEF DropMeta, disk, Busy
    <3>3. /\ \A m \in del[d].todo : m \in Name /\ Untouched(<<d, m>>)
          /\ \A m \in del[d].own : m \in Name /\ staged[<<d, m>>] # None
      BY <1>0, <3>2 DEF Steps, Step
    <3>4. \A m \in r.todo : Untouched(<<d, m>>)'
      BY <2>1, <3>2, <3>3 DEF Untouched
    <3>6. \A m \in r.own : staged'[<<d, m>>] # None
      BY <2>1, <3>2, <3>3
    <3>5. QED
      BY <2>1, <3>1, <3>2, <3>4, <3>6 DEF Step, Untouched, Busy
  <2>7. QED
    BY <1>a, <2>1, <2>2, <2>3, <2>4, <2>5, <2>6
<1>8. ASSUME NEW d \in Request, PutBackFails(d) PROVE NotedInv'
  <2> DEFINE r == DelDone
  <2>1. r \in DelState /\ r.pc = "done"
    BY States DEF DelState, DelPc, Busy, OwnedBy, NoDel
  <2>2. /\ del' = [del EXCEPT ![d] = r] /\ UNCHANGED <<phase, settling, save>>
        /\ del[d].pc # "done"
    BY <1>0, <1>8 DEF PutBackFails, Busy
  <2>3. phase = "up"
    BY <1>b, <1>8 DEF PutBackFails, Busy
  <2>4. \A e \in Request \ {d}, m \in Name :
          /\ staged'[<<e, m>>] = staged[<<e, m>>]
          /\ <<e, m>> \in meta <=> <<e, m>> \in meta'
          /\ <<e, m>> \in torn <=> <<e, m>> \in torn'
    BY <1>0, <1>8 DEF PutBackFails, disk
  <2>5. \A m \in Name : staged'[<<d, m>>] # None => <<d, m>> \in meta' \ torn'
    BY <1>0, <1>8 DEF PutBackFails, disk, StagedIsNoted, Steps, Step, Untouched, Busy
  <2>6. Step(d)'
    <3>1. del'[d] = r
      BY <1>0, <2>2
    <3>2. QED
      BY <1>0, <1>8, <2>1, <3>1 DEF PutBackFails, disk, Steps, Step, Untouched, Busy
  <2>7. QED
    BY <1>a, <2>1, <2>2, <2>3, <2>4, <2>5, <2>6
<1>9. ASSUME NEW d \in Request, Answer(d) PROVE NotedInv'
  <2> DEFINE r == DelDone
  <2>1. r \in DelState /\ r.pc = "done"
    BY States DEF DelState, DelPc, Busy, OwnedBy, NoDel
  <2>2. /\ del' = [del EXCEPT ![d] = r] /\ UNCHANGED <<phase, settling, save>>
        /\ del[d].pc # "done"
    BY <1>0, <1>9 DEF Answer, Busy
  <2>3. phase = "up"
    BY <1>b, <1>9 DEF Answer, Busy
  <2>4. \A e \in Request \ {d}, m \in Name :
          /\ staged'[<<e, m>>] = staged[<<e, m>>]
          /\ <<e, m>> \in meta <=> <<e, m>> \in meta'
          /\ <<e, m>> \in torn <=> <<e, m>> \in torn'
    BY <1>0, <1>9 DEF Answer, disk
  <2>5. \A m \in Name : staged'[<<d, m>>] # None => <<d, m>> \in meta' \ torn'
    BY <1>0, <1>9 DEF Answer, disk, StagedIsNoted, Steps, Step, Untouched, Busy
  <2>6. Step(d)'
    <3>1. del'[d] = r
      BY <1>0, <2>2
    <3>2. QED
      BY <1>0, <1>9, <2>1, <3>1 DEF Answer, disk, Steps, Step, Untouched, Busy
  <2>7. QED
    BY <1>a, <2>1, <2>2, <2>3, <2>4, <2>5, <2>6
<1>10. ASSUME NEW d \in Request, NEW n \in Name, SkipMissing(d, n) PROVE NotedInv'
  <2> DEFINE r == [del[d] EXCEPT !.todo = @ \ {n}]
  <2>1. /\ r \in DelState /\ r.pc = del[d].pc /\ r.cur = del[d].cur /\ r.todo = del[d].todo \ {n}
        /\ r.own = del[d].own
    BY <1>c DEF DelState, DelPc, Busy
  <2>2. /\ del' = [del EXCEPT ![d] = r] /\ UNCHANGED <<phase, settling, save>>
        /\ del[d].pc # "done"
    BY <1>0, <1>10 DEF SkipMissing, Busy
  <2>3. phase = "up"
    BY <1>b, <1>10 DEF SkipMissing, Busy
  <2>4. \A e \in Request \ {d}, m \in Name :
          /\ staged'[<<e, m>>] = staged[<<e, m>>]
          /\ <<e, m>> \in meta <=> <<e, m>> \in meta'
          /\ <<e, m>> \in torn <=> <<e, m>> \in torn'
    BY <1>0, <1>10 DEF SkipMissing, disk
  <2>5. \A m \in Name : staged'[<<d, m>>] # None => <<d, m>> \in meta' \ torn'
    BY <1>0, <1>10 DEF SkipMissing, disk, StagedIsNoted, Steps, Step, Untouched, Busy
  <2>6. Step(d)'
    <3>1. del'[d] = r
      BY <1>0, <2>2
    <3>2. QED
      BY <1>0, <1>10, <2>1, <3>1 DEF SkipMissing, disk, Steps, Step, Untouched, Busy
  <2>7. QED
    BY <1>a, <2>1, <2>2, <2>3, <2>4, <2>5, <2>6
<1>11. ASSUME NEW d \in Request, NEW n \in Name, WriteMeta(d, n) PROVE NotedInv'
  <2> DEFINE r == [del[d] EXCEPT !.pc = "rename", !.cur = n, !.todo = @ \ {n}]
  <2>1. /\ r \in DelState /\ r.pc = "rename" /\ r.cur = n /\ r.todo = del[d].todo \ {n}
        /\ r.own = del[d].own
    BY <1>c DEF DelState, DelPc, Busy
  <2>2. /\ del' = [del EXCEPT ![d] = r] /\ UNCHANGED <<phase, settling, save>>
        /\ del[d].pc # "done"
    BY <1>0, <1>11 DEF WriteMeta, Busy
  <2>3. phase = "up"
    BY <1>b, <1>11 DEF WriteMeta, Busy
  <2>4. \A e \in Request \ {d}, m \in Name :
          /\ staged'[<<e, m>>] = staged[<<e, m>>]
          /\ <<e, m>> \in meta <=> <<e, m>> \in meta'
          /\ <<e, m>> \in torn <=> <<e, m>> \in torn'
    BY <1>0, <1>11 DEF WriteMeta, disk
  <2>5. \A m \in Name : staged'[<<d, m>>] # None => <<d, m>> \in meta' \ torn'
    BY <1>0, <1>11 DEF WriteMeta, disk, StagedIsNoted, Steps, Step, Untouched, Busy
  <2>6. Step(d)'
    <3>1. del'[d] = r
      BY <1>0, <2>2
    <3>2. /\ del[d].pc \in Busy
          /\ \A m \in Name : staged'[<<d, m>>] = staged[<<d, m>>]
          /\ torn' = torn /\ n \in del[d].todo /\ <<d, n>> \in meta'
      BY <1>0, <1>11 DEF WriteMeta, disk, Busy
    <3>3. /\ \A m \in del[d].todo : m \in Name /\ Untouched(<<d, m>>)
          /\ \A m \in del[d].own : m \in Name /\ staged[<<d, m>>] # None
      BY <1>0, <3>2 DEF Steps, Step
    <3>4. \A m \in r.todo : Untouched(<<d, m>>)'
      BY <2>1, <3>2, <3>3 DEF Untouched
    <3>6. \A m \in r.own : staged'[<<d, m>>] # None
      BY <2>1, <3>2, <3>3
    <3>7. Untouched(<<d, n>>)' /\ n \in Name \ r.todo
      BY <1>0, <2>1, <3>2, <3>3 DEF Untouched, StagedIsNoted
    <3>5. QED
      BY <2>1, <3>1, <3>2, <3>4, <3>6, <3>7 DEF Step
  <2>7. QED
    BY <1>a, <2>1, <2>2, <2>3, <2>4, <2>5, <2>6
<1>12. ASSUME NEW d \in Request, NEW n \in Name, DropStaged(d, n) PROVE NotedInv'
  <2> DEFINE r == [del[d] EXCEPT !.pc = "forget", !.cur = n, !.own = @ \ {n}]
  <2>1. /\ r \in DelState /\ r.pc = "forget" /\ r.cur = n /\ r.todo = del[d].todo
        /\ r.own = del[d].own \ {n}
    BY <1>c DEF DelState, DelPc, Busy
  <2>2. /\ del' = [del EXCEPT ![d] = r] /\ UNCHANGED <<phase, settling, save>>
        /\ del[d].pc # "done"
    BY <1>0, <1>12 DEF DropStaged, Busy
  <2>3. phase = "up"
    BY <1>b, <1>12 DEF DropStaged, Busy
  <2>4. \A e \in Request \ {d}, m \in Name :
          /\ staged'[<<e, m>>] = staged[<<e, m>>]
          /\ <<e, m>> \in meta <=> <<e, m>> \in meta'
          /\ <<e, m>> \in torn <=> <<e, m>> \in torn'
    BY <1>0, <1>12 DEF DropStaged, disk
  <2>5. \A m \in Name : staged'[<<d, m>>] # None => <<d, m>> \in meta' \ torn'
    BY <1>0, <1>12 DEF DropStaged, disk, StagedIsNoted, Steps, Step, Untouched, Busy
  <2>6. Step(d)'
    <3>1. del'[d] = r
      BY <1>0, <2>2
    <3>2. /\ del[d].pc \in Busy
          /\ \A m \in Name : staged'[<<d, m>>] = IF m = n THEN None ELSE staged[<<d, m>>]
          /\ torn' = torn /\ n \in del[d].own /\ n \notin r.own
      BY <1>0, <1>12, <2>1 DEF DropStaged, disk, Busy
    <3>3. /\ \A m \in del[d].todo : m \in Name /\ Untouched(<<d, m>>)
          /\ \A m \in del[d].own : m \in Name /\ staged[<<d, m>>] # None
      BY <1>0, <3>2 DEF Steps, Step
    <3>4. \A m \in r.todo : Untouched(<<d, m>>)'
      BY <2>1, <3>2, <3>3 DEF Untouched
    <3>6. \A m \in r.own : staged'[<<d, m>>] # None
      BY <2>1, <3>2, <3>3
    <3>7. Untouched(<<d, n>>)' /\ n \in Name \ r.own
      BY <1>0, <2>1, <3>2, <3>3 DEF Untouched, StagedIsNoted
    <3>5. QED
      BY <2>1, <3>1, <3>2, <3>4, <3>6, <3>7 DEF Step
  <2>7. QED
    BY <1>a, <2>1, <2>2, <2>3, <2>4, <2>5, <2>6
<1>25. ASSUME NEW d \in Request, DropMetaFails(d) PROVE NotedInv'
  <2> DEFINE r == [del[d] EXCEPT !.pc = "finish", !.cur = None]
  <2>1. r \in DelState /\ r.pc = "finish" /\ r.todo = del[d].todo /\ r.own = del[d].own
    BY <1>c DEF DelState, DelPc, Busy
  <2>2. /\ del' = [del EXCEPT ![d] = r] /\ UNCHANGED <<phase, settling, save, meta, torn, staged>>
        /\ del[d].pc \in Busy \ {"done"}
    BY <1>0, <1>25 DEF DropMetaFails, disk, Busy
  <2>3. phase = "up"
    BY <1>b, <2>2
  <2>4. \A m \in Name : staged'[<<d, m>>] # None => <<d, m>> \in meta' \ torn'
    BY <1>0, <2>2 DEF StagedIsNoted
  <2>5. Step(d)'
    <3>1. del'[d] = r /\ Step(d)
      BY <1>0, <2>2 DEF Steps
    <3>2. QED
      BY <1>0, <2>1, <2>2, <3>1 DEF Step, Untouched, Busy
  <2>6. QED
    BY <1>a, <2>1, <2>2, <2>3, <2>4, <2>5
<1>26. ASSUME NEW d \in Request, NEW n \in Name, StageFails(d, n) PROVE NotedInv'
  <2> DEFINE r == [del[d] EXCEPT !.pc = "restore", !.who = None, !.todo = {}, !.cur = None]
  <2>1. r \in DelState /\ r.pc = "restore" /\ r.todo = {} /\ r.own = del[d].own
    BY <1>c DEF DelState, DelPc, Busy
  <2>2. /\ del' = [del EXCEPT ![d] = r] /\ UNCHANGED <<phase, settling, save, staged>>
        /\ del[d].pc = "stage" /\ n \in del[d].todo
        /\ \/ UNCHANGED <<meta, torn>>
           \/ meta' = meta \cup {<<d, n>>} /\ torn' = torn \cup {<<d, n>>}
    BY <1>0, <1>26 DEF StageFails, TurnsTo
  <2>3. phase = "up"
    BY <1>b, <2>2 DEF Busy
  <2>4. Step(d)
    BY <1>0 DEF Steps
  <2>5. staged[<<d, n>>] = None
    BY <2>2, <2>4 DEF Step, Untouched, Busy
  <2>6. \A m \in Name : staged'[<<d, m>>] # None => <<d, m>> \in meta' \ torn'
    BY <1>0, <2>2, <2>5 DEF StagedIsNoted
  <2>7. Step(d)'
    <3>1. del'[d] = r
      BY <1>0, <2>2
    <3>2. QED
      BY <1>0, <2>1, <2>2, <2>4, <3>1 DEF Step, Busy
  <2>8. \A e \in Request \ {d}, m \in Name :
          /\ staged'[<<e, m>>] = staged[<<e, m>>]
          /\ <<e, m>> \in meta <=> <<e, m>> \in meta'
          /\ <<e, m>> \in torn <=> <<e, m>> \in torn'
    BY <2>2
  <2>9. QED
    BY <1>a, <2>1, <2>2, <2>3, <2>6, <2>7, <2>8
<1>13. ASSUME NEW d \in Request, NEW n \in Name, DropFails(d, n) PROVE NotedInv'
  <2> DEFINE r == [del[d] EXCEPT !.own = @ \ {n}]
  <2>1. /\ r \in DelState /\ r.pc = del[d].pc /\ r.cur = del[d].cur /\ r.todo = del[d].todo
        /\ r.own = del[d].own \ {n}
    BY <1>c DEF DelState, DelPc, Busy
  <2>2. /\ del' = [del EXCEPT ![d] = r] /\ UNCHANGED <<phase, settling, save>>
        /\ del[d].pc # "done"
    BY <1>0, <1>13 DEF DropFails, Busy
  <2>3. phase = "up"
    BY <1>b, <1>13 DEF DropFails, Busy
  <2>4. \A e \in Request \ {d}, m \in Name :
          /\ staged'[<<e, m>>] = staged[<<e, m>>]
          /\ <<e, m>> \in meta <=> <<e, m>> \in meta'
          /\ <<e, m>> \in torn <=> <<e, m>> \in torn'
    BY <1>0, <1>13 DEF DropFails, disk
  <2>5. \A m \in Name : staged'[<<d, m>>] # None => <<d, m>> \in meta' \ torn'
    BY <1>0, <1>13 DEF DropFails, disk, StagedIsNoted, Steps, Step, Untouched, Busy
  <2>6. Step(d)'
    <3>1. del'[d] = r
      BY <1>0, <2>2
    <3>2. QED
      BY <1>0, <1>13, <2>1, <3>1 DEF DropFails, disk, Steps, Step, Untouched, Busy
  <2>7. QED
    BY <1>a, <2>1, <2>2, <2>3, <2>4, <2>5, <2>6
<1>14. ASSUME NEW d \in Request, NEW n \in Name, PutBack(d, n) PROVE NotedInv'
  <2> DEFINE r == [del[d] EXCEPT !.pc = "unnote", !.cur = n, !.own = @ \ {n}]
  <2>1. /\ r \in DelState /\ r.pc = "unnote" /\ r.cur = n /\ r.todo = del[d].todo
        /\ r.own = del[d].own \ {n}
    BY <1>c DEF DelState, DelPc, Busy
  <2>2. /\ del' = [del EXCEPT ![d] = r] /\ UNCHANGED <<phase, settling, save>>
        /\ del[d].pc # "done"
    BY <1>0, <1>14 DEF PutBack, Busy
  <2>3. phase = "up"
    BY <1>b, <1>14 DEF PutBack, Busy
  <2>4. \A e \in Request \ {d}, m \in Name :
          /\ staged'[<<e, m>>] = staged[<<e, m>>]
          /\ <<e, m>> \in meta <=> <<e, m>> \in meta'
          /\ <<e, m>> \in torn <=> <<e, m>> \in torn'
    BY <1>0, <1>14 DEF PutBack, disk
  <2>5. \A m \in Name : staged'[<<d, m>>] # None => <<d, m>> \in meta' \ torn'
    BY <1>0, <1>14 DEF PutBack, disk, StagedIsNoted, Steps, Step, Untouched, Busy
  <2>6. Step(d)'
    <3>1. del'[d] = r
      BY <1>0, <2>2
    <3>2. /\ del[d].pc \in Busy
          /\ \A m \in Name : staged'[<<d, m>>] = IF m = n THEN None ELSE staged[<<d, m>>]
          /\ torn' = torn /\ n \in del[d].own /\ n \notin r.own
      BY <1>0, <1>14, <2>1 DEF PutBack, disk, Busy
    <3>3. /\ \A m \in del[d].todo : m \in Name /\ Untouched(<<d, m>>)
          /\ \A m \in del[d].own : m \in Name /\ staged[<<d, m>>] # None
      BY <1>0, <3>2 DEF Steps, Step
    <3>4. \A m \in r.todo : Untouched(<<d, m>>)'
      BY <2>1, <3>2, <3>3 DEF Untouched
    <3>6. \A m \in r.own : staged'[<<d, m>>] # None
      BY <2>1, <3>2, <3>3
    <3>7. Untouched(<<d, n>>)' /\ n \in Name \ r.own
      BY <1>0, <2>1, <3>2, <3>3 DEF Untouched, StagedIsNoted
    <3>5. QED
      BY <2>1, <3>1, <3>2, <3>4, <3>6, <3>7 DEF Step
  <2>7. QED
    BY <1>a, <2>1, <2>2, <2>3, <2>4, <2>5, <2>6
<1>15. ASSUME UNCHANGED <<phase, disk, settling, del>>, phase = "up" PROVE NotedInv'
  <2>1. Steps'
    BY <1>0, <1>15 DEF Steps, Step, Untouched, disk
  <2>2. QED
    BY <1>0, <1>15, <2>1 DEF NotedInv, Resting, Settling, StagedIsNoted, disk
<1>16. ASSUME NEW w \in Writer, NEW a \in Account, NEW n \in Name, ChooseName(w, a, n) PROVE NotedInv'
  BY <1>15, <1>16 DEF ChooseName
<1>17. ASSUME NEW w \in Writer, InsertRow(w) \/ InsertFails(w) PROVE NotedInv'
  BY <1>0, <1>15, <1>17 DEF InsertRow, InsertFails, Resting
<1>18. ASSUME NEW w \in Writer, WriteFile(w) \/ WriteFails(w) PROVE NotedInv'
  <2>1. phase = "up" /\ UNCHANGED <<phase, meta, torn, staged, settling, del>>
    BY <1>0, <1>18 DEF WriteFile, WriteFails, Resting
  <2>2. Steps'
    BY <1>0, <2>1 DEF Steps, Step, Untouched
  <2>3. QED
    BY <1>0, <2>1, <2>2 DEF NotedInv, Resting, Settling, StagedIsNoted
<1>19. CASE Crash
  <2>1. Steps'
    BY <1>0, <1>19 DEF Crash, Steps, Step, Untouched, disk, DelDone, NoDel, Busy
  <2>2. Resting'
    BY <1>0, <1>19 DEF Crash, Resting, DelDone, NoDel, SaveDone, NoSave, Busy
  <2>3. QED
    BY <1>0, <1>19, <2>1, <2>2 DEF Crash, NotedInv, Settling, StagedIsNoted, disk
<1>20. ASSUME Start \/ Serve \/ Refuse \/ AbortStart PROVE NotedInv'
  <2>1. UNCHANGED <<disk, del, save>>
    BY <1>20 DEF Start, Serve, Refuse, AbortStart
  <2>2. Steps'
    BY <1>0, <2>1 DEF Steps, Step, Untouched, disk
  <2>3. settling' = None /\ Resting'
    BY <1>0, <1>20 DEF Start, Serve, Refuse, AbortStart, Settling, Resting
  <2>4. QED
    BY <1>0, <2>1, <2>2, <2>3 DEF NotedInv, Settling, StagedIsNoted, disk
<1>21. ASSUME NEW d \in Request, NEW n \in Name, Settle(d, n) PROVE NotedInv'
  <2>1. /\ staged' = [staged EXCEPT ![<<d, n>>] = None] /\ UNCHANGED <<phase, meta, torn, del, save>>
        /\ phase = "starting" /\ settling' = <<d, n>>
    BY <1>21 DEF Settle
  <2>2. ASSUME NEW e \in Request PROVE Step(e)'
    <3>1. \A m \in Name : staged'[<<e, m>>] \in {staged[<<e, m>>], None}
      BY <1>0, <2>1
    <3>3. del[e].pc \notin Busy
      BY <1>0, <2>1 DEF Resting
    <3>2. QED
      BY <1>0, <2>1, <3>1, <3>3, StepKept DEF Steps
  <2>3. Resting' /\ Settling' /\ StagedIsNoted'
    BY <1>0, <2>1 DEF Resting, Settling, StagedIsNoted
  <2>4. QED
    BY <2>2, <2>3 DEF NotedInv, Steps
<1>22. CASE SettleMeta
  <2>1. /\ phase = "starting" /\ settling # None /\ staged[settling] = None
        /\ meta' = meta \ {settling} /\ settling' = None /\ UNCHANGED <<phase, torn, staged, del, save>>
    BY <1>0, <1>22 DEF SettleMeta, Settling
  <2>2. \A e \in Request : del[e].pc \notin Busy
    BY <1>0, <2>1 DEF Resting
  <2>3. ASSUME NEW e \in Request PROVE Step(e)'
    BY <1>0, <2>1, <2>2, StepKept DEF Steps
  <2>4. Resting' /\ Settling' /\ StagedIsNoted'
    BY <1>0, <2>1 DEF Resting, Settling, StagedIsNoted
  <2>5. QED
    BY <2>3, <2>4 DEF NotedInv, Steps
<1>23. CASE UNCHANGED vars
  <2>1. Steps'
    BY <1>0, <1>23 DEF Steps, Step, Untouched, vars, disk
  <2>2. QED
    BY <1>0, <1>23, <2>1 DEF NotedInv, Resting, Settling, StagedIsNoted, vars, disk
<1>24. QED
  BY <1>1, <1>2, <1>3, <1>4, <1>5, <1>6, <1>7, <1>8, <1>9, <1>10, <1>11, <1>12, <1>13, <1>14, <1>16, <1>17, <1>18, <1>19, <1>20, <1>21, <1>22, <1>23, <1>25, <1>26 DEF Next, SaveStep, DeleteStep, Restart

LEMMA NotedAlways == Spec => [](TypeOK /\ NotedInv)
<1>1. Init => TypeOK /\ NotedInv
  BY TypeInit, NotedInit
<1>2. (TypeOK /\ NotedInv) /\ [Next]_vars => (TypeOK /\ NotedInv)'
  BY TypeStep, NotedStep DEF NotedInv
<1>3. QED
  BY <1>1, <1>2, PTL DEF Spec

(* Every variable has its type; at a start the entry that is settled next   *)
(* still has its metadata, and a deletion that moves a file has one in hand.*)
THEOREM TypeCorrect == Spec => []TypeOK
BY NotedAlways, PTL

(* At whatever step of deletion.rs the process stops, a file it has moved   *)
(* away is found by the next start: its metadata is written before the move *)
(* and outlives the staged file.                                            *)
THEOREM NothingLost == Spec => []StagedIsNoted
<1>1. NotedInv => StagedIsNoted
  BY DEF NotedInv
<1>2. QED
  BY <1>1, NotedAlways, PTL

-----------------------------------------------------------------------------
(* Rows and files *)

(* A playlist whose name was not reused has its file in one place, and what *)
(* is there was saved with the row.                                         *)
Place(n) ==
  n \notin reused =>
    /\ row[n] # None =>
         /\ file[n] \in {None, row[n].text}
         /\ \A d \in Request : staged[<<d, n>>] \in {None, row[n].text}
         /\ file[n] # None \/ \E d \in Request : staged[<<d, n>>] # None
    /\ \A d \in Request : staged[<<d, n>>] # None =>
         file[n] = None /\ \A e \in Request \ {d} : staged[<<e, n>>] = None

(* A save has its name to itself, unless it is reused.                      *)
Saving(w) == save[w].pc \in {"write", "insert"}
Saves(w) ==
  Saving(w) =>
    /\ save[w].name \in Name /\ save[w].owner \in Account
    /\ save[w].name \notin reused =>
         /\ row[save[w].name] = None
         /\ \A d \in Request : /\ staged[<<d, save[w].name>>] = None
                               /\ del[d].pc \in Busy => save[w].name \notin del[d].list
         /\ \A v \in Writer \ {w} : Saving(v) => save[v].name # save[w].name
         /\ file[save[w].name] = IF save[w].pc = "write" THEN None ELSE w

(* A deletion works on what it has listed: the one playlist, or those of    *)
(* the account; once committed, they have no rows any more.                 *)
Lists(d) ==
  del[d].pc \in Busy =>
    /\ del[d].todo \subseteq del[d].list /\ del[d].own \subseteq del[d].list
    /\ del[d].pc = "rename" => del[d].cur \in del[d].list
    /\ del[d].pc \in {"stage", "rename"} =>
         IF del[d].who = None THEN \E n \in Name : del[d].list = {n}
         ELSE \A n \in del[d].list \ reused : row[n] # None => row[n].owner = del[d].who
    /\ del[d].pc \in {"finish", "forget"} => \A n \in del[d].list \ reused : row[n] = None

FileInv ==
  /\ \A n \in Name : Place(n)
  /\ \A w \in Writer : Saves(w)
  /\ \A d \in Request : Lists(d)

LEMMA FileInit == Init => FileInv
<1> SUFFICES ASSUME Init PROVE FileInv
  OBVIOUS
<1>1. ASSUME NEW n \in Name PROVE Place(n)
  <2>1. /\ row[n] # None => row[n].text = Old
        /\ file[n] = IF row[n] = None THEN None ELSE Old
        /\ \A d \in Request : staged[<<d, n>>] = None
    BY DEF Init
  <2>2. QED
    BY <2>1 DEF Place, Text
<1>2. QED
  BY <1>1 DEF Init, FileInv, Saves, Saving, Lists, NoDel, NoSave, Busy

Same(n) == row'[n] = row[n] /\ file'[n] = file[n] /\ \A d \in Request : staged'[<<d, n>>] = staged[<<d, n>>]

LEMMA PlaceKept ==
  ASSUME NEW n \in Name, Place(n), Same(n), n \in reused => n \in reused'
  PROVE  Place(n)'
BY DEF Place, Same

LEMMA SavesKept ==
  ASSUME NEW w \in Writer, Saves(w), save'[w] = save[w],
         Saving(w) => save[w].name \in reused' \/ Same(save[w].name),
         \A n \in Name : n \in reused => n \in reused',
         \A d \in Request, n \in Name \ reused' : n = save[w].name /\ Saving(w) =>
           (del'[d].pc \in Busy /\ n \in del'[d].list => del[d].pc \in Busy /\ n \in del[d].list),
         \A v \in Writer \ {w} : Saving(v)' /\ save'[v].name \notin reused' /\ Saving(w) /\ save'[v].name = save[w].name
           => Saving(v) /\ save[v].name = save'[v].name
  PROVE  Saves(w)'
<1> SUFFICES ASSUME Saving(w) PROVE Saves(w)'
  BY DEF Saves, Saving
<1> DEFINE n == save[w].name
<1>1. n \in Name /\ save[w].owner \in Account
  BY DEF Saves
<1>2. CASE n \in reused'
  BY <1>1, <1>2 DEF Saves
<1>3. CASE n \notin reused'
  <2>1. n \notin reused
    BY <1>1, <1>3
  <2>2. /\ row[n] = None
        /\ \A d \in Request : staged[<<d, n>>] = None /\ (del[d].pc \in Busy => n \notin del[d].list)
        /\ \A v \in Writer \ {w} : Saving(v) => save[v].name # n
        /\ file[n] = IF save[w].pc = "write" THEN None ELSE w
    BY <2>1 DEF Saves
  <2>3. row'[n] = None /\ file'[n] = file[n] /\ \A d \in Request : staged'[<<d, n>>] = None
    BY <1>3, <2>2 DEF Same
  <2>4. \A d \in Request : del'[d].pc \in Busy => n \notin del'[d].list
    BY <1>1, <1>3, <2>2
  <2>5. \A v \in Writer \ {w} : Saving(v)' => save'[v].name # n
    BY <1>3, <2>2
  <2>6. QED
    BY <1>1, <2>2, <2>3, <2>4, <2>5 DEF Saves
<1>4. QED
  BY <1>2, <1>3

LEMMA ListsKept ==
  ASSUME NEW d \in Request, Lists(d), del'[d] = del[d], del[d].list \subseteq Name,
         \A n \in Name \ reused' : n \in del[d].list /\ del[d].pc \in Busy => row'[n] \in {row[n], None},
         \A n \in Name : n \in reused => n \in reused'
  PROVE  Lists(d)'
BY DEF Lists

LEMMA FileTypes ==
  TypeOK =>
    /\ del \in [Request -> DelState] /\ save \in [Writer -> SaveState]
    /\ row \in [Name -> Row \cup {None}] /\ file \in [Name -> Text \cup {None}]
    /\ staged \in [Item -> Text \cup {None}] /\ reused \subseteq Name /\ account \subseteq Account
    /\ \A d \in Request : /\ del[d] \in DelState /\ del[d].todo \subseteq Name
                          /\ del[d].list \subseteq Name /\ del[d].own \subseteq Name
    /\ \A w \in Writer : save[w] \in SaveState
BY DEF TypeOK, DelState, SaveState

(* What a deletion does to the playlists it lists is nothing to anybody     *)
(* else.                                                                    *)
LEMMA DeletionGoes ==
  ASSUME TypeOK, FileInv, NEW d \in Request, NEW r \in DelState, del' = [del EXCEPT ![d] = r],
         UNCHANGED <<save, reused>>,
         r.pc \in Busy => \/ del[d].pc \in Busy /\ r.list = del[d].list
                          \/ \A n \in r.list : row[n] # None,
         \A n \in Name : Same(n) \/ (del[d].pc \in Busy /\ n \in del[d].list /\ Place(n)'),
         \A n \in Name : row'[n] \in {row[n], None},
         \A e \in Request \ {d}, n \in Name : staged'[<<e, n>>] = staged[<<e, n>>],
         Lists(d)'
  PROVE  FileInv'
<1>1. /\ del \in [Request -> DelState] /\ del'[d] = r /\ \A e \in Request \ {d} : del'[e] = del[e]
      /\ \A e \in Request : del[e].list \subseteq Name /\ del[e].own \subseteq Name
  BY FileTypes
<1>2. ASSUME NEW n \in Name PROVE Place(n)'
  BY <1>2, PlaceKept DEF FileInv
<1>3. ASSUME NEW w \in Writer, Saving(w), save[w].name \notin reused
      PROVE  /\ save[w].name \in Name /\ Same(save[w].name)
             /\ r.pc \in Busy /\ save[w].name \in r.list => del[d].pc \in Busy /\ save[w].name \in del[d].list
  BY <1>3 DEF FileInv, Saves
<1>4. ASSUME NEW w \in Writer PROVE Saves(w)'
  <2>1. Saving(w) => save[w].name \in reused' \/ Same(save[w].name)
    BY <1>3
  <2>2. \A e \in Request, n \in Name \ reused' : n = save[w].name /\ Saving(w) =>
           (del'[e].pc \in Busy /\ n \in del'[e].list => del[e].pc \in Busy /\ n \in del[e].list)
    BY <1>1, <1>3
  <2>3. \A v \in Writer : Saving(v)' <=> Saving(v)
    BY DEF Saving
  <2>4. Saves(w)
    BY DEF FileInv
  <2>5. QED
    BY <2>1, <2>2, <2>3, <2>4, SavesKept
<1>5. ASSUME NEW e \in Request PROVE Lists(e)'
  <2>1. CASE e = d
    BY <2>1
  <2>2. CASE e # d
    BY <1>1, <2>2, ListsKept DEF FileInv
  <2>3. QED
    BY <2>1, <2>2
<1>6. QED
  BY <1>2, <1>4, <1>5 DEF FileInv

LEMMA FileStep == TypeOK /\ NotedInv /\ FileInv /\ [Next]_vars => FileInv'
<1> SUFFICES ASSUME TypeOK, NotedInv, FileInv, [Next]_vars PROVE FileInv'
  OBVIOUS
<1>0. /\ del \in [Request -> DelState] /\ save \in [Writer -> SaveState]
      /\ staged \in [Item -> Text \cup {None}] /\ file \in [Name -> Text \cup {None}]
      /\ row \in [Name -> Row \cup {None}]
      /\ \A e \in Request : del[e].todo \subseteq Name /\ del[e].list \subseteq Name /\ del[e].own \subseteq Name
      /\ Steps /\ Resting /\ StagedIsNoted
      /\ \A n \in Name : Place(n)
      /\ \A w \in Writer : Saves(w)
      /\ \A e \in Request : Lists(e)
  BY FileTypes DEF NotedInv, FileInv
<1>c. ASSUME NEW d \in Request PROVE del[d] \in DelState
  BY <1>0
(* A step of a deletion that moves no file and deletes no row. *)
<1>a. ASSUME NEW d \in Request, NEW r \in DelState, del' = [del EXCEPT ![d] = r],
             UNCHANGED <<row, file, staged, save, reused>>, del[d].pc \in Busy,
             r.pc \in Busy => /\ r.list = del[d].list
                              /\ r.todo \subseteq del[d].todo /\ r.own \subseteq del[d].own
                              /\ r.pc = "rename" => r.cur \in del[d].list
                              /\ r.pc \in {"stage", "rename"} => r.who = del[d].who /\ del[d].pc = "stage"
                              /\ r.pc \in {"finish", "forget"} => del[d].pc \in {"finish", "forget"}
      PROVE  FileInv'
  <2>1. del'[d] = r
    BY <1>0, <1>a
  <2>2. Lists(d)
    BY <1>0
  <2>3. Lists(d)'
    BY <1>a, <2>1, <2>2 DEF Lists
  <2>4. \A n \in Name : Same(n)
    BY <1>a DEF Same
  <2>5. QED
    BY <1>a, <2>3, <2>4, DeletionGoes
<1>1. ASSUME NEW d \in Request, MoveFails(d) PROVE FileInv'
  <2> DEFINE r == [del[d] EXCEPT !.pc = "restore", !.who = None, !.todo = {}, !.cur = None]
  <2>1. /\ del' = [del EXCEPT ![d] = r] /\ UNCHANGED <<row, file, staged, save, reused>>
        /\ del[d].pc \in Busy
    BY <1>0, <1>1 DEF MoveFails, TurnsTo, disk, Busy
  <2>2. /\ r \in DelState
        /\ r.pc = "restore" /\ r.todo = {} /\ r.own = del[d].own
        /\ r.list = del[d].list
    BY <1>c, <2>1 DEF DelState, DelPc, Busy
  <2>3. QED
    BY <1>a, <2>1, <2>2 DEF Busy
<1>2. ASSUME NEW d \in Request, CommitFails(d) PROVE FileInv'
  <2> DEFINE r == [del[d] EXCEPT !.pc = "restore", !.who = None, !.todo = {}, !.cur = None]
  <2>1. /\ del' = [del EXCEPT ![d] = r] /\ UNCHANGED <<row, file, staged, save, reused>>
        /\ del[d].pc \in Busy
    BY <1>0, <1>2 DEF CommitFails, TurnsTo, Listed, disk, Busy
  <2>2. /\ r \in DelState
        /\ r.pc = "restore" /\ r.todo = {} /\ r.own = del[d].own
        /\ r.list = del[d].list
    BY <1>c, <2>1 DEF DelState, DelPc, Busy
  <2>3. QED
    BY <1>a, <2>1, <2>2 DEF Busy
<1>3. ASSUME NEW d \in Request, DropMeta(d) PROVE FileInv'
  <2> DEFINE r == [del[d] EXCEPT !.pc = IF @ = "forget" THEN "finish" ELSE "restore", !.cur = None]
  <2>1. /\ del' = [del EXCEPT ![d] = r] /\ UNCHANGED <<row, file, staged, save, reused>>
        /\ del[d].pc \in Busy
    BY <1>0, <1>3 DEF DropMeta, disk, Busy
  <2>2. /\ r \in DelState
        /\ ((r.pc = "finish" /\ del[d].pc = "forget") \/ r.pc = "restore") /\ r.todo = del[d].todo /\ r.own = del[d].own
        /\ r.list = del[d].list /\ r.who = del[d].who
    BY <1>c, <2>1 DEF DelState, DelPc, Busy
  <2>3. QED
    BY <1>a, <2>1, <2>2 DEF Busy
<1>26. ASSUME NEW d \in Request, DropMetaFails(d) PROVE FileInv'
  <2> DEFINE r == [del[d] EXCEPT !.pc = "finish", !.cur = None]
  <2>1. /\ del' = [del EXCEPT ![d] = r] /\ UNCHANGED <<row, file, staged, save, reused>>
        /\ del[d].pc \in Busy /\ del[d].pc = "forget"
    BY <1>0, <1>26 DEF DropMetaFails, disk, Busy
  <2>2. /\ r \in DelState
        /\ r.pc = "finish" /\ r.todo = del[d].todo /\ r.own = del[d].own
        /\ r.list = del[d].list
    BY <1>c, <2>1 DEF DelState, DelPc, Busy
  <2>3. QED
    BY <1>a, <2>1, <2>2 DEF Busy
<1>27. ASSUME NEW d \in Request, NEW n \in Name, StageFails(d, n) PROVE FileInv'
  <2> DEFINE r == [del[d] EXCEPT !.pc = "restore", !.who = None, !.todo = {}, !.cur = None]
  <2>1. /\ del' = [del EXCEPT ![d] = r] /\ UNCHANGED <<row, file, staged, save, reused>>
        /\ del[d].pc \in Busy
    BY <1>0, <1>27 DEF StageFails, TurnsTo, Busy
  <2>2. /\ r \in DelState
        /\ r.pc = "restore" /\ r.todo = {} /\ r.own = del[d].own
        /\ r.list = del[d].list
    BY <1>c, <2>1 DEF DelState, DelPc, Busy
  <2>3. QED
    BY <1>a, <2>1, <2>2 DEF Busy
<1>4. ASSUME NEW d \in Request, PutBackFails(d) PROVE FileInv'
  <2> DEFINE r == DelDone
  <2>1. /\ del' = [del EXCEPT ![d] = r] /\ UNCHANGED <<row, file, staged, save, reused>>
        /\ del[d].pc \in Busy
    BY <1>0, <1>4 DEF PutBackFails, disk, Busy
  <2>2. r \in DelState /\ r.pc = "done"
    BY States
  <2>3. QED
    BY <1>a, <2>1, <2>2 DEF Busy
<1>5. ASSUME NEW d \in Request, Answer(d) PROVE FileInv'
  <2> DEFINE r == DelDone
  <2>1. /\ del' = [del EXCEPT ![d] = r] /\ UNCHANGED <<row, file, staged, save, reused>>
        /\ del[d].pc \in Busy
    BY <1>0, <1>5 DEF Answer, disk, Busy
  <2>2. r \in DelState /\ r.pc = "done"
    BY States
  <2>3. QED
    BY <1>a, <2>1, <2>2 DEF Busy
<1>6. ASSUME NEW d \in Request, NEW n \in Name, SkipMissing(d, n) PROVE FileInv'
  <2> DEFINE r == [del[d] EXCEPT !.todo = @ \ {n}]
  <2>1. /\ del' = [del EXCEPT ![d] = r] /\ UNCHANGED <<row, file, staged, save, reused>>
        /\ del[d].pc \in Busy /\ del[d].pc = "stage"
    BY <1>0, <1>6 DEF SkipMissing, disk, Busy
  <2>2. /\ r \in DelState
        /\ r.pc = "stage" /\ r.todo = del[d].todo \ {n} /\ r.own = del[d].own
        /\ r.list = del[d].list /\ r.who = del[d].who
    BY <1>c, <2>1 DEF DelState, DelPc, Busy
  <2>3. QED
    BY <1>a, <2>1, <2>2 DEF Busy
<1>7. ASSUME NEW d \in Request, NEW n \in Name, WriteMeta(d, n) PROVE FileInv'
  <2> DEFINE r == [del[d] EXCEPT !.pc = "rename", !.cur = n, !.todo = @ \ {n}]
  <2>1. /\ del' = [del EXCEPT ![d] = r] /\ UNCHANGED <<row, file, staged, save, reused>>
        /\ del[d].pc \in Busy /\ del[d].pc = "stage" /\ n \in del[d].list
    BY <1>0, <1>7 DEF WriteMeta, Lists, disk, Busy
  <2>2. /\ r \in DelState
        /\ r.pc = "rename" /\ r.cur = n /\ r.todo = del[d].todo \ {n} /\ r.own = del[d].own
        /\ r.list = del[d].list /\ r.who = del[d].who
    BY <1>c, <2>1 DEF DelState, DelPc, Busy
  <2>3. QED
    BY <1>a, <2>1, <2>2 DEF Busy
<1>8. ASSUME NEW d \in Request, NEW n \in Name, DropFails(d, n) PROVE FileInv'
  <2> DEFINE r == [del[d] EXCEPT !.own = @ \ {n}]
  <2>1. /\ del' = [del EXCEPT ![d] = r] /\ UNCHANGED <<row, file, staged, save, reused>>
        /\ del[d].pc \in Busy /\ del[d].pc = "finish"
    BY <1>0, <1>8 DEF DropFails, disk, Busy
  <2>2. /\ r \in DelState
        /\ r.pc = "finish" /\ r.todo = del[d].todo /\ r.own = del[d].own \ {n}
        /\ r.list = del[d].list /\ r.who = del[d].who
    BY <1>c, <2>1 DEF DelState, DelPc, Busy
  <2>3. QED
    BY <1>a, <2>1, <2>2 DEF Busy
<1>9. ASSUME NEW d \in Request, NEW r \in DelState, del' = [del EXCEPT ![d] = r],
             UNCHANGED <<row, file, staged, save, reused>>,
             r.pc = "stage", r.todo = r.list, r.own = {},
             \A n \in r.list : n \in Name /\ row[n] # None /\ (r.who # None => row[n].owner = r.who),
             r.who = None => \E n \in Name : r.list = {n}
      PROVE  FileInv'
  <2>1. del'[d] = r
    BY <1>0, <1>9
  <2>2. Lists(d)'
    BY <1>9, <2>1 DEF Lists
  <2>3. \A n \in Name : Same(n)
    BY <1>9 DEF Same
  <2>4. QED
    BY <1>9, <2>2, <2>3, DeletionGoes
<1>10. ASSUME NEW d \in Request, NEW n \in Name, AskPlaylist(d, n) PROVE FileInv'
  <2> DEFINE r == [NoDel EXCEPT !.pc = "stage", !.who = None, !.list = {n}, !.todo = {n}]
  <2>1. /\ r \in DelState /\ r.pc = "stage" /\ r.todo = {n} /\ r.list = {n} /\ r.own = {} /\ r.who = None
    BY DEF NoDel, DelState, DelPc, Busy
  <2>2. row[n] # None /\ del' = [del EXCEPT ![d] = r] /\ UNCHANGED <<row, file, staged, save, reused>>
    BY <1>10 DEF AskPlaylist, Begin, disk
  <2>3. QED
    BY <1>9, <2>1, <2>2
<1>11. ASSUME NEW d \in Request, NEW a \in Account, AskAccount(d, a) PROVE FileInv'
  <2> DEFINE L == OwnedBy(a)
             r == [NoDel EXCEPT !.pc = "stage", !.who = a, !.list = L, !.todo = L]
  <2>1. L \subseteq Name /\ a # None /\ \A n \in L : row[n] # None /\ row[n].owner = a
    BY DEF OwnedBy
  <2>2. r \in DelState /\ r.pc = "stage" /\ r.todo = L /\ r.list = L /\ r.own = {} /\ r.who = a
    BY <2>1 DEF NoDel, DelState, DelPc, Busy
  <2>3. del' = [del EXCEPT ![d] = r] /\ UNCHANGED <<row, file, staged, save, reused>>
    BY <1>11 DEF AskAccount, Begin, disk
  <2> HIDE DEF L, r
  <2>4. QED
    BY <1>9, <2>1, <2>2, <2>3
<1>12. ASSUME NEW d \in Request, MoveAway(d) PROVE FileInv'
  <2>a. PICK n \in Name : n = del[d].cur
    BY <1>0, <1>12 DEF MoveAway, Steps, Step
  <2> DEFINE r == [del[d] EXCEPT !.pc = "stage", !.own = @ \cup {n}, !.cur = None]
  <2>1. /\ n \in Name /\ n \in del[d].list /\ del[d].pc = "rename" /\ file[n] # None
        /\ staged' = [staged EXCEPT ![<<d, n>>] = file[n]] /\ file' = [file EXCEPT ![n] = None]
        /\ del' = [del EXCEPT ![d] = r] /\ UNCHANGED <<row, save, reused>>
    BY <1>0, <1>12, <2>a DEF MoveAway, Lists, Busy
  <2>2. /\ r \in DelState /\ r.pc = "stage" /\ r.own = del[d].own \cup {n} /\ r.todo = del[d].todo
        /\ r.list = del[d].list /\ r.who = del[d].who
    BY <1>c, <2>1 DEF DelState, DelPc, Busy
  <2> HIDE DEF r
  <2>3. /\ \A m \in Name \ {n} : Same(m)
        /\ file'[n] = None /\ staged'[<<d, n>>] = file[n]
        /\ \A e \in Request, m \in Name : e # d \/ m # n => staged'[<<e, m>>] = staged[<<e, m>>]
    BY <1>0, <2>1 DEF Same
  <2>4. Place(n)'
    <3>1. Place(n)
      BY <1>0, <2>1
    <3>2. n \notin reused => \A e \in Request : staged[<<e, n>>] = None
      BY <2>1, <3>1 DEF Place
    <3>3. n \notin reused => \A e \in Request : staged'[<<e, n>>] = IF e = d THEN file[n] ELSE None
      BY <2>1, <2>3, <3>2
    <3>4. row[n] # None /\ n \notin reused => file[n] = row[n].text
      BY <2>1, <3>1 DEF Place
    <3>5. QED
      BY <2>1, <2>3, <3>3, <3>4 DEF Place
  <2>5. Lists(d)'
    <3>1. del'[d] = r /\ Lists(d) /\ del[d].own \subseteq Name
      BY <1>0, <2>1
    <3>2. QED
      BY <2>1, <2>2, <2>3, <3>1 DEF Lists, Busy
  <2>6. \A m \in Name : Same(m) \/ (del[d].pc \in Busy /\ m \in del[d].list /\ Place(m)')
    BY <2>1, <2>3, <2>4 DEF Busy
  <2>7. /\ \A m \in Name : row'[m] \in {row[m], None}
        /\ \A e \in Request \ {d}, m \in Name : staged'[<<e, m>>] = staged[<<e, m>>]
        /\ UNCHANGED <<save, reused>>
    BY <2>1, <2>3
  <2>8. QED
    BY <2>1, <2>2, <2>5, <2>6, <2>7, DeletionGoes DEF Busy
<1>13. ASSUME NEW d \in Request, Commit(d) PROVE FileInv'
  <2> DEFINE L == del[d].list
             r == [del[d] EXCEPT !.pc = "finish", !.who = None, !.todo = {}, !.cur = None]
  <2>1. /\ L \subseteq Name /\ del[d].pc = "stage" /\ del[d].todo = {}
        /\ \A n \in Name : row'[n] = IF n \in L THEN None ELSE row[n]
        /\ del' = [del EXCEPT ![d] = r] /\ UNCHANGED <<file, staged, save, reused>>
    BY <1>0, <1>13 DEF Commit, TurnsTo, Listed, disk
  <2>2. /\ r \in DelState /\ r.pc = "finish" /\ r.own = del[d].own /\ r.todo = {}
        /\ r.list = L
    BY <1>c, <2>1 DEF DelState, DelPc, Busy
  <2> HIDE DEF r
  <2>3. \A n \in Name \ L : Same(n)
    BY <2>1 DEF Same
  <2>4. \A n \in L : Place(n)'
    BY <1>0, <2>1 DEF Place
  <2>5. Lists(d)'
    <3>1. del'[d] = r /\ Lists(d)
      BY <1>0, <2>1
    <3>2. QED
      BY <2>1, <2>2, <3>1 DEF Lists, Busy
  <2>6. QED
    BY <2>1, <2>2, <2>3, <2>4, <2>5, DeletionGoes DEF Busy
<1>14. ASSUME NEW d \in Request, NEW n \in Name, DropStaged(d, n) PROVE FileInv'
  <2> DEFINE r == [del[d] EXCEPT !.pc = "forget", !.cur = n, !.own = @ \ {n}]
  <2>1. /\ n \in del[d].list /\ n \in del[d].own /\ del[d].pc = "finish" /\ (n \notin reused => row[n] = None)
        /\ staged' = [staged EXCEPT ![<<d, n>>] = None]
        /\ del' = [del EXCEPT ![d] = r] /\ UNCHANGED <<row, file, save, reused>>
    BY <1>0, <1>14 DEF DropStaged, Lists, Busy
  <2>2. /\ r \in DelState /\ r.pc = "forget" /\ r.own = del[d].own \ {n} /\ r.todo = del[d].todo
        /\ r.list = del[d].list /\ r.who = del[d].who
    BY <1>c, <2>1 DEF DelState, DelPc, Busy
  <2> HIDE DEF r
  <2>3. /\ \A m \in Name \ {n} : Same(m)
        /\ staged'[<<d, n>>] = None
        /\ \A e \in Request, m \in Name : e # d \/ m # n => staged'[<<e, m>>] = staged[<<e, m>>]
    BY <1>0, <2>1 DEF Same
  <2>4. Place(n)'
    <3>1. Place(n)
      BY <1>0
    <3>2. QED
      BY <2>1, <2>3, <3>1 DEF Place
  <2>5. Lists(d)'
    <3>1. del'[d] = r /\ Lists(d) /\ del[d].own \subseteq Name
      BY <1>0, <2>1
    <3>2. QED
      BY <2>1, <2>2, <2>3, <3>1 DEF Lists, Busy
  <2>6. QED
    BY <2>1, <2>2, <2>3, <2>4, <2>5, DeletionGoes DEF Busy
<1>15. ASSUME NEW d \in Request, NEW n \in Name, PutBack(d, n) PROVE FileInv'
  <2> DEFINE r == [del[d] EXCEPT !.pc = "unnote", !.cur = n, !.own = @ \ {n}]
  <2>1. /\ n \in del[d].list /\ n \in del[d].own /\ del[d].pc = "restore" /\ staged[<<d, n>>] # None
        /\ staged' = [staged EXCEPT ![<<d, n>>] = None] /\ file' = [file EXCEPT ![n] = staged[<<d, n>>]]
        /\ del' = [del EXCEPT ![d] = r] /\ UNCHANGED <<row, save, reused>>
    BY <1>0, <1>15 DEF PutBack, Lists, Steps, Step, Busy
  <2>2. /\ r \in DelState /\ r.pc = "unnote" /\ r.own = del[d].own \ {n} /\ r.todo = del[d].todo
        /\ r.list = del[d].list /\ r.who = del[d].who
    BY <1>c, <2>1 DEF DelState, DelPc, Busy
  <2> HIDE DEF r
  <2>3. /\ \A m \in Name \ {n} : Same(m)
        /\ staged'[<<d, n>>] = None /\ file'[n] = staged[<<d, n>>]
        /\ \A e \in Request, m \in Name : e # d \/ m # n => staged'[<<e, m>>] = staged[<<e, m>>]
    BY <1>0, <2>1 DEF Same
  <2>4. Place(n)'
    <3>1. Place(n)
      BY <1>0
    <3>2. QED
      BY <2>1, <2>3, <3>1 DEF Place
  <2>5. Lists(d)'
    <3>1. del'[d] = r /\ Lists(d) /\ del[d].own \subseteq Name
      BY <1>0, <2>1
    <3>2. QED
      BY <2>1, <2>2, <2>3, <3>1 DEF Lists, Busy
  <2>6. QED
    BY <2>1, <2>2, <2>3, <2>4, <2>5, DeletionGoes DEF Busy
<1>16. ASSUME UNCHANGED <<row, file, staged, del, reused>>,
             \A w \in Writer : save'[w] = save[w] \/ ~Saving(w)'
      PROVE  FileInv'
  <2>1. \A n \in Name : Same(n)
    BY <1>16 DEF Same
  <2>2. \A n \in Name : Place(n)'
    BY <1>0, <1>16, <2>1, PlaceKept
  <2>3. ASSUME NEW w \in Writer PROVE Saves(w)'
    <3>1. \A v \in Writer : Saving(v)' => Saving(v) /\ save'[v] = save[v]
      BY <1>16 DEF Saving
    <3>2. QED
      BY <1>0, <1>16, <2>1, <3>1 DEF Saves
  <2>4. \A e \in Request : Lists(e)'
    BY <1>0, <1>16 DEF Lists
  <2>5. QED
    BY <2>2, <2>3, <2>4 DEF FileInv
<1>17. ASSUME NEW w \in Writer, NEW a \in Account, NEW n \in Name, ChooseName(w, a, n) PROVE FileInv'
  <2>1. /\ UNCHANGED <<row, file, staged, del>> /\ file[n] = None
        /\ save'[w] = [pc |-> "write", owner |-> a, name |-> n]
        /\ \A v \in Writer \ {w} : save'[v] = save[v]
        /\ \A m \in Name : m \in reused => m \in reused'
        /\ n \notin reused' => n \notin reused /\ ~Claimed(n)
    BY <1>0, <1>17 DEF ChooseName, disk
  <2>2. \A m \in Name : Same(m)
    BY <2>1 DEF Same
  <2>3. \A m \in Name : Place(m)'
    BY <1>0, <2>1, <2>2, PlaceKept
  <2>4. Saves(w)'
    <3>1. ASSUME n \notin reused'
          PROVE  /\ row[n] = None
                 /\ \A d \in Request : staged[<<d, n>>] = None /\ (del[d].pc \in Busy => n \notin del[d].list)
                 /\ \A v \in Writer : Saving(v) => save[v].name # n
      <4>1. /\ \A d \in Request : staged[<<d, n>>] = None /\ (del[d].pc \in Busy => n \notin del[d].list)
            /\ \A v \in Writer : Saving(v) => save[v].name # n
        BY <2>1, <3>1 DEF Claimed, Saving
      <4>2. Place(n)
        BY <1>0
      <4>3. row[n] = None
        BY <2>1, <3>1, <4>1, <4>2 DEF Place
      <4>4. QED
        BY <4>1, <4>3
    <3>2. QED
      BY <2>1, <3>1 DEF Saves, Saving
  <2>5. ASSUME NEW v \in Writer \ {w} PROVE Saves(v)'
    <3>1. Saves(v) /\ save'[v] = save[v]
      BY <1>0, <2>1
    <3>2. Saving(v) => save[v].name \in Name
      BY <3>1 DEF Saves
    <3>3. n \notin reused' /\ Saving(v) => save[v].name # n
      BY <2>1 DEF Claimed, Saving
    <3>4. ASSUME NEW u \in Writer \ {v}, Saving(u)', save'[u].name \notin reused', Saving(v),
                 save'[u].name = save[v].name
          PROVE  Saving(u) /\ save[u].name = save'[u].name
      <4>1. CASE u = w
        BY <2>1, <3>3, <3>4, <4>1
      <4>2. CASE u # w
        BY <2>1, <3>4, <4>2 DEF Saving
      <4>3. QED
        BY <4>1, <4>2
    <3>5. QED
      BY <2>1, <2>2, <3>1, <3>2, <3>4, SavesKept
  <2>6. \A e \in Request : Lists(e)'
    BY <1>0, <2>1, ListsKept
  <2>7. QED
    BY <2>3, <2>4, <2>5, <2>6 DEF FileInv
<1>18. ASSUME NEW w \in Writer, WriteFile(w) PROVE FileInv'
  <2> DEFINE n == save[w].name
  <2>1. /\ UNCHANGED <<row, staged, del, reused>> /\ Saving(w) /\ save[w].pc = "write"
        /\ file' = [file EXCEPT ![n] = w]
        /\ save'[w].pc = "insert" /\ save'[w].name = n /\ save'[w].owner = save[w].owner
        /\ \A v \in Writer \ {w} : save'[v] = save[v]
    BY <1>0, <1>18 DEF WriteFile, Saving, SaveState
  <2>2. /\ n \in Name /\ save[w].owner \in Account
        /\ n \notin reused =>
             /\ row[n] = None
             /\ \A d \in Request : staged[<<d, n>>] = None /\ (del[d].pc \in Busy => n \notin del[d].list)
             /\ \A v \in Writer \ {w} : Saving(v) => save[v].name # n
    BY <1>0, <2>1 DEF Saves
  <2> HIDE DEF n
  <2>3. file'[n] = w /\ \A m \in Name \ {n} : Same(m)
    BY <1>0, <2>1, <2>2 DEF Same
  <2>4. ASSUME NEW m \in Name PROVE Place(m)'
    <3>1. CASE m = n
      BY <2>1, <2>2, <3>1 DEF Place
    <3>2. CASE m # n
      BY <1>0, <2>1, <2>3, <3>2, PlaceKept
    <3>3. QED
      BY <3>1, <3>2
  <2>5. \A v \in Writer : Saving(v)' <=> Saving(v)
    BY <2>1 DEF Saving
  <2>6. Saves(w)'
    BY <2>1, <2>2, <2>3, <2>5 DEF Saves
  <2>7. ASSUME NEW v \in Writer \ {w} PROVE Saves(v)'
    <3>1. Saves(v) /\ save'[v] = save[v]
      BY <1>0, <2>1
    <3>2. Saving(v) => save[v].name \in Name
      BY <3>1 DEF Saves
    <3>3. Saving(v) => save[v].name \in reused' \/ Same(save[v].name)
      BY <2>1, <2>2, <2>3, <3>2
    <3>4. \A u \in Writer \ {v} : Saving(u)' /\ save'[u].name \notin reused' /\ Saving(v) /\ save'[u].name = save[v].name
            => Saving(u) /\ save[u].name = save'[u].name
      BY <2>1, <2>5 DEF n
    <3>5. QED
      BY <2>1, <3>1, <3>3, <3>4, SavesKept
  <2>8. \A e \in Request : Lists(e)'
    BY <1>0, <2>1, ListsKept
  <2>9. QED
    BY <2>4, <2>6, <2>7, <2>8 DEF FileInv
<1>19. ASSUME NEW w \in Writer, InsertRow(w) PROVE FileInv'
  <2> DEFINE n == save[w].name
             new == [owner |-> save[w].owner, text |-> w]
  <2>1. /\ UNCHANGED <<file, staged, del, reused>> /\ Saving(w) /\ save[w].pc = "insert"
        /\ row' = [row EXCEPT ![n] = new] /\ ~Saving(w)'
        /\ \A v \in Writer \ {w} : save'[v] = save[v]
    BY <1>0, <1>19, States DEF InsertRow, Saving, disk
  <2>2. /\ n \in Name
        /\ n \notin reused =>
             /\ file[n] = w
             /\ \A d \in Request : staged[<<d, n>>] = None /\ (del[d].pc \in Busy => n \notin del[d].list)
             /\ \A v \in Writer \ {w} : Saving(v) => save[v].name # n
    BY <1>0, <2>1 DEF Saves
  <2> HIDE DEF n
  <2>3. row'[n] = new /\ \A m \in Name \ {n} : Same(m)
    BY <1>0, <2>1, <2>2 DEF Same
  <2>4. ASSUME NEW m \in Name PROVE Place(m)'
    <3>1. CASE m = n
      <4>1. new.text = w /\ w # None
        BY DEF Text
      <4>2. QED
        BY <2>1, <2>2, <2>3, <3>1, <4>1 DEF Place
    <3>2. CASE m # n
      BY <1>0, <2>1, <2>3, <3>2, PlaceKept
    <3>3. QED
      BY <3>1, <3>2
  <2>5. \A v \in Writer : Saving(v)' => Saving(v) /\ v # w
    BY <2>1 DEF Saving
  <2>6. ASSUME NEW v \in Writer PROVE Saves(v)'
    <3>1. CASE v = w
      BY <2>1, <3>1 DEF Saves
    <3>2. CASE v # w
      <4>1. Saves(v) /\ save'[v] = save[v]
        BY <1>0, <2>1, <3>2
      <4>2. Saving(v) => save[v].name \in Name
        BY <4>1 DEF Saves
      <4>3. Saving(v) => save[v].name \in reused' \/ Same(save[v].name)
        BY <2>1, <2>2, <2>3, <3>2, <4>2
      <4>4. \A u \in Writer \ {v} : Saving(u)' => Saving(u) /\ save[u].name = save'[u].name
        BY <2>1, <2>5
      <4>5. QED
        BY <2>1, <4>1, <4>3, <4>4, SavesKept
    <3>3. QED
      BY <3>1, <3>2
  <2>7. ASSUME NEW e \in Request PROVE Lists(e)'
    <3>1. \A m \in Name \ reused' : m \in del[e].list /\ del[e].pc \in Busy => row'[m] \in {row[m], None}
      BY <2>1, <2>2, <2>3 DEF Same
    <3>2. QED
      BY <1>0, <2>1, <3>1, ListsKept
  <2>8. QED
    BY <2>4, <2>6, <2>7 DEF FileInv
<1>28. ASSUME NEW w \in Writer, WriteFails(w) PROVE FileInv'
  <2> DEFINE n == save[w].name
  <2>1. /\ UNCHANGED <<row, staged, del, reused>> /\ Saving(w) /\ save[w].pc = "write"
        /\ file' \in {file, [file EXCEPT ![n] = w]} /\ ~Saving(w)'
        /\ \A v \in Writer \ {w} : save'[v] = save[v]
    BY <1>0, <1>28, States DEF WriteFails, Saving
  <2>2. /\ n \in Name
        /\ n \notin reused =>
             /\ row[n] = None
             /\ \A d \in Request : staged[<<d, n>>] = None
             /\ \A v \in Writer \ {w} : Saving(v) => save[v].name # n
    BY <1>0, <2>1 DEF Saves
  <2> HIDE DEF n
  <2>3. \A m \in Name \ {n} : Same(m)
    BY <1>0, <2>1, <2>2 DEF Same
  <2>4. ASSUME NEW m \in Name PROVE Place(m)'
    <3>1. CASE m = n
      BY <2>1, <2>2, <3>1 DEF Place
    <3>2. CASE m # n
      BY <1>0, <2>1, <2>3, <3>2, PlaceKept
    <3>3. QED
      BY <3>1, <3>2
  <2>5. \A v \in Writer : Saving(v)' => Saving(v) /\ v # w
    BY <2>1 DEF Saving
  <2>6. ASSUME NEW v \in Writer PROVE Saves(v)'
    <3>1. CASE v = w
      BY <2>1, <3>1 DEF Saves
    <3>2. CASE v # w
      <4>1. Saves(v) /\ save'[v] = save[v]
        BY <1>0, <2>1, <3>2
      <4>2. Saving(v) => save[v].name \in Name
        BY <4>1 DEF Saves
      <4>3. Saving(v) => save[v].name \in reused' \/ Same(save[v].name)
        BY <2>1, <2>2, <2>3, <3>2, <4>2
      <4>4. \A u \in Writer \ {v} : Saving(u)' => Saving(u) /\ save[u].name = save'[u].name
        BY <2>1, <2>5
      <4>5. QED
        BY <2>1, <4>1, <4>3, <4>4, SavesKept
    <3>3. QED
      BY <3>1, <3>2
  <2>7. \A e \in Request : Lists(e)'
    BY <1>0, <2>1, ListsKept
  <2>8. QED
    BY <2>4, <2>6, <2>7 DEF FileInv
<1>20. ASSUME NEW w \in Writer, InsertFails(w) PROVE FileInv'
  BY <1>0, <1>16, <1>20, States DEF InsertFails, disk, Saving
<1>21. ASSUME UNCHANGED <<row, reused>>,
             \A n \in Name : Same(n) \/ Place(n)',
             \A d \in Request : del'[d].pc \notin Busy, \A w \in Writer : ~Saving(w)'
      PROVE  FileInv'
  <2>1. \A n \in Name : Place(n)'
    BY <1>0, <1>21, PlaceKept
  <2>2. QED
    BY <1>21, <2>1 DEF FileInv, Saves, Lists
<1>22. CASE Crash
  <2>1. /\ \A d \in Request : del'[d].pc \notin Busy
        /\ \A w \in Writer : ~Saving(w)'
    BY <1>0, <1>22, States DEF Crash, Saving, Busy
  <2>2. UNCHANGED <<row, reused>> /\ \A n \in Name : Same(n)
    BY <1>22 DEF Crash, Same, disk
  <2>3. QED
    BY <1>21, <2>1, <2>2
<1>23. ASSUME Start \/ Serve \/ SettleMeta \/ Refuse \/ AbortStart \/ UNCHANGED vars PROVE FileInv'
  BY <1>16, <1>23 DEF Start, Serve, SettleMeta, Refuse, AbortStart, vars, disk
<1>24. ASSUME NEW d \in Request, NEW n \in Name, Settle(d, n) PROVE FileInv'
  <2>1. /\ staged' = [staged EXCEPT ![<<d, n>>] = None] /\ UNCHANGED <<phase, row, del, save, reused>>
        /\ phase = "starting"
        /\ file' = IF row[n] # None /\ file[n] = None
                     THEN [file EXCEPT ![n] = staged[<<d, n>>]] ELSE file
    BY <1>24 DEF Settle
  <2>2. \A m \in Name \ {n} : Same(m)
    BY <1>0, <2>1 DEF Same
  <2>3. /\ staged'[<<d, n>>] = None /\ \A e \in Request \ {d} : staged'[<<e, n>>] = staged[<<e, n>>]
        /\ file'[n] = IF row[n] # None /\ file[n] = None THEN staged[<<d, n>>] ELSE file[n]
    BY <1>0, <2>1
  <2>4. Place(n)'
    <3>1. Place(n)
      BY <1>0
    <3>2. QED
      BY <2>1, <2>3, <3>1 DEF Place
  <2>5. /\ \A e \in Request : del'[e].pc \notin Busy
        /\ \A w \in Writer : ~Saving(w)'
    BY <1>0, <2>1 DEF Resting, Saving
  <2>6. QED
    BY <1>21, <2>1, <2>2, <2>4, <2>5
<1>25. QED
  BY <1>1, <1>2, <1>3, <1>4, <1>5, <1>6, <1>7, <1>8, <1>10, <1>11, <1>12, <1>13, <1>14, <1>15, <1>17, <1>18, <1>19, <1>20, <1>22, <1>23, <1>24, <1>26, <1>27, <1>28 DEF Next, SaveStep, DeleteStep, Restart

LEMMA FileAlways == Spec => [](TypeOK /\ NotedInv /\ FileInv)
<1>1. Init => TypeOK /\ NotedInv /\ FileInv
  BY TypeInit, NotedInit, FileInit
<1>2. (TypeOK /\ NotedInv /\ FileInv) /\ [Next]_vars => (TypeOK /\ NotedInv /\ FileInv)'
  BY TypeStep, NotedStep, FileStep DEF NotedInv
<1>3. QED
  BY <1>1, <1>2, PTL DEF Spec

(* The file that was saved with a playlist is never lost, nor mistaken for  *)
(* that of another one, while its row is there: whatever the interleaving   *)
(* of saves (save_playlist) and deletions, and wherever the process stops.  *)
THEOREM FilesStay == Spec => []RowHasFile
<1>1. FileInv => RowHasFile
  <2> SUFFICES ASSUME FileInv, NEW n \in Name \ reused, row[n] # None
               PROVE  \/ file[n] = row[n].text
                      \/ file[n] = None /\ \E d \in Request : staged[<<d, n>>] = row[n].text
    BY DEF RowHasFile
  <2>1. Place(n)
    BY DEF FileInv
  <2>2. QED
    BY <2>1 DEF Place
<1>2. QED
  BY <1>1, FileAlways, PTL

-----------------------------------------------------------------------------
(* Deletion implements PlaylistStore *)

(* What a start would make of a playlist is its row. *)
Promised == [n \in Name |-> IF n \in reused THEN Mixed ELSE row[n]]

LEMMA KeptIsRow == TypeOK /\ FileInv => [n \in Name |-> Kept(n)] = Promised
<1> SUFFICES ASSUME TypeOK, FileInv, NEW n \in Name, n \notin reused, row[n] # None
             PROVE  Kept(n) = row[n]
  BY DEF Kept, Promised
<1>1. row[n] \in Row /\ Place(n)
  BY DEF TypeOK, FileInv
<1>2. row[n] = [owner |-> row[n].owner, text |-> row[n].text]
  BY <1>1 DEF Row
<1> DEFINE away == {d \in Request : staged[<<d, n>>] # None}
<1>3. \A d \in away : staged[<<d, n>>] = row[n].text
  BY <1>1 DEF Place
<1>4. file[n] # None => file[n] = row[n].text
  BY <1>1 DEF Place
<1>5. file[n] = None => away # {}
  BY <1>1 DEF Place
<1>6. away # {} => (CHOOSE d \in away : TRUE) \in away
  OBVIOUS
<1>7. (IF file[n] # None THEN file[n]
       ELSE IF away # {} THEN staged[<<CHOOSE d \in away : TRUE, n>>] ELSE None) = row[n].text
  BY <1>3, <1>4, <1>5, <1>6
<1>8. QED
  BY <1>2, <1>7 DEF Kept

LEMMA KeptIsRowNext == (TypeOK /\ FileInv => [n \in Name |-> Kept(n)] = Promised)'
BY KeptIsRow, PTL

LEMMA StoreInit == TypeOK /\ FileInv /\ Init => Store!Init
<1> SUFFICES ASSUME TypeOK, FileInv, Init PROVE Store!Init
  OBVIOUS
<1>1. Promised \in [Name -> Row \cup {None}]
  BY DEF Init, Promised, TypeOK
<1>2. QED
  BY <1>1, KeptIsRow DEF Init, Store!Init, Store!Playlist, Row

LEMMA StoreStep ==
  TypeOK /\ FileInv /\ TypeOK' /\ FileInv' /\ [Next]_vars
    => [Store!Next]_<<account, [n \in Name |-> Kept(n)]>>
<1> SUFFICES ASSUME TypeOK, FileInv, TypeOK', FileInv', [Next]_vars
             PROVE  [Store!Next]_<<account, [n \in Name |-> Kept(n)]>>
  OBVIOUS
<1> DEFINE K == [n \in Name |-> Kept(n)]
<1>0. K = Promised /\ K' = Promised'
  BY KeptIsRow, KeptIsRowNext
<1> HIDE DEF K
<1>t. /\ row \in [Name -> Row \cup {None}] /\ row' \in [Name -> Row \cup {None}]
      /\ account \subseteq Account /\ Row = Store!Playlist /\ Mixed \notin Row
  BY DEF TypeOK, Store!Playlist, Row
<1>k. \A n \in Name : /\ K[n] = IF n \in reused THEN Mixed ELSE row[n]
                      /\ K'[n] = IF n \in reused' THEN Mixed ELSE row'[n]
  BY <1>0 DEF Promised
<1>f. /\ K = [n \in Name |-> K[n]] /\ K' = [n \in Name |-> K'[n]]
  BY <1>0 DEF Promised
<1>1. ASSUME UNCHANGED <<account, row, reused>> PROVE UNCHANGED <<account, K>>
  BY <1>0, <1>1 DEF Promised
<1>2. ASSUME NEW w \in Writer, NEW a \in Account, NEW n \in Name, ChooseName(w, a, n)
      PROVE  Store!Next \/ UNCHANGED <<account, K>>
  <2>1. UNCHANGED <<account, row>> /\ reused' \in {reused, reused \cup {n}}
    BY <1>2 DEF ChooseName
  <2>2. CASE reused' = reused
    BY <1>1, <2>1, <2>2
  <2>3. CASE reused' = reused \cup {n}
    <3>1. K' = [K EXCEPT ![n] = Mixed]
      BY <1>k, <1>f, <2>1, <2>3
    <3>2. Store!Mix(n)
      BY <2>1, <3>1 DEF Store!Mix, K
    <3>3. QED
      BY <3>2 DEF Store!Next
  <2>4. QED
    BY <2>1, <2>2, <2>3
<1>3. ASSUME NEW w \in Writer, InsertRow(w)
      PROVE  Store!Next \/ UNCHANGED <<account, K>>
  <2>1. PICK n \in Name, a \in Account :
          /\ n = save[w].name /\ a = save[w].owner /\ a \in account
          /\ row' = [row EXCEPT ![n] = [owner |-> a, text |-> w]] /\ UNCHANGED <<account, reused>>
          /\ n \notin reused => row[n] = None
    BY <1>3 DEF InsertRow, FileInv, Saves, Saving
  <2>2. CASE n \in reused
    <3>1. \A m \in Name : K'[m] = K[m]
      BY <1>t, <1>k, <2>1, <2>2
    <3>2. K' = K
      BY <1>f, <3>1
    <3>3. QED
      BY <2>1, <3>2
  <2>3. CASE n \notin reused
    <3>1. \A m \in Name : K'[m] = IF m = n THEN [owner |-> a, text |-> w] ELSE K[m]
      BY <1>t, <1>k, <2>1, <2>3
    <3>2. K' = [K EXCEPT ![n] = [owner |-> a, text |-> w]] /\ K[n] = None
      BY <1>f, <1>k, <2>1, <2>3, <3>1
    <3>3. Store!Save(n, a, w)
      BY <2>1, <3>2 DEF Store!Save, K
    <3>4. QED
      BY <3>3 DEF Store!Next, Text
  <2>4. QED
    BY <2>2, <2>3
<1>4. ASSUME NEW d \in Request, Commit(d)
      PROVE  Store!Next \/ UNCHANGED <<account, K>>
  <2> DEFINE L == del[d].list
  <2>1. /\ L \subseteq Name /\ UNCHANGED reused /\ account' = account \ {del[d].who}
        /\ \A m \in Name : row'[m] = IF m \in L THEN None ELSE row[m]
        /\ \A m \in Name \ L : row[m] # None => row[m].owner # del[d].who
        /\ del[d].who \in Account \cup {None}
    BY <1>4, FileTypes DEF Commit, TurnsTo, DelState
  <2>2. Lists(d) /\ del[d].pc \in Busy /\ del[d].pc = "stage"
    BY <1>4 DEF Commit, Listed, Busy, FileInv
  <2>3. CASE del[d].who = None
    <3>1. account' = account
      BY <1>t, <2>1, <2>3
    <3>2. PICK n \in Name : L = {n}
      BY <2>2, <2>3 DEF Lists
    <3>3. \A m \in Name : K'[m] = IF m = n /\ n \notin reused THEN None ELSE K[m]
      BY <1>k, <2>1, <3>2
    <3>4. CASE n \in reused \/ row[n] = None
      <4>1. \A m \in Name : K'[m] = K[m]
        BY <1>k, <3>3, <3>4
      <4>2. K' = K
        BY <1>f, <4>1
      <4>3. QED
        BY <3>1, <4>2
    <3>5. CASE n \notin reused /\ row[n] # None
      <4>1. K' = [K EXCEPT ![n] = None] /\ K[n] \in Store!Playlist
        BY <1>t, <1>k, <1>f, <3>3, <3>5
      <4>2. Store!DeletePlaylist(n)
        BY <3>1, <4>1 DEF Store!DeletePlaylist, K
      <4>3. QED
        BY <4>2 DEF Store!Next
    <3>6. QED
      BY <3>4, <3>5
  <2>4. CASE del[d].who # None
    <3>1. PICK a \in Account : a = del[d].who
      BY <2>1, <2>4
    <3>2. ASSUME NEW m \in Name
          PROVE  K'[m] = IF K[m] \in Store!Playlist /\ K[m].owner = a THEN None ELSE K[m]
      <4>1. CASE m \in reused
        BY <1>t, <1>k, <2>1, <4>1
      <4>2. CASE m \notin reused /\ row[m] = None
        BY <1>k, <2>1, <4>2
      <4>3. CASE m \notin reused /\ row[m] # None
        <5>1. K[m] = row[m] /\ row[m] \in Store!Playlist /\ K'[m] = IF m \in L THEN None ELSE row[m]
          BY <1>t, <1>k, <2>1, <4>3
        <5>2. m \in L <=> row[m].owner = a
          BY <2>1, <2>2, <2>4, <3>1, <4>3 DEF Lists
        <5>3. QED
          BY <5>1, <5>2
      <4>4. QED
        BY <4>1, <4>2, <4>3
    <3>3. K' = [m \in Name |-> IF K[m] \in Store!Playlist /\ K[m].owner = a THEN None ELSE K[m]]
      BY <1>f, <3>2
    <3>4. Store!DeleteAccount(a)
      BY <2>1, <3>1, <3>3 DEF Store!DeleteAccount, K
    <3>5. QED
      BY <3>4 DEF Store!Next
  <2>5. QED
    BY <2>3, <2>4
<1>5. ASSUME NEW w \in Writer, WriteFile(w) \/ WriteFails(w) \/ InsertFails(w)
      PROVE  UNCHANGED <<account, row, reused>>
  BY <1>5 DEF WriteFile, WriteFails, InsertFails
<1>6. ASSUME NEW d \in Request,
             \/ \E n \in Name : \/ AskPlaylist(d, n) \/ SkipMissing(d, n) \/ WriteMeta(d, n)
                                \/ DropStaged(d, n) \/ DropFails(d, n) \/ PutBack(d, n)
                                \/ StageFails(d, n) \/ Settle(d, n)
             \/ \E a \in Account : AskAccount(d, a)
             \/ MoveAway(d) \/ MoveFails(d) \/ CommitFails(d) \/ DropMeta(d)
             \/ DropMetaFails(d) \/ PutBackFails(d) \/ Answer(d)
      PROVE  UNCHANGED <<account, row, reused>>
  BY <1>6 DEF AskPlaylist, AskAccount, Begin, SkipMissing, WriteMeta, StageFails, DropStaged, DropFails,
              DropMetaFails, PutBack, Settle, MoveAway, MoveFails, CommitFails, DropMeta, PutBackFails, Answer
<1>7. ASSUME Crash \/ Start \/ SettleMeta \/ Refuse \/ AbortStart \/ Serve \/ UNCHANGED vars
      PROVE  UNCHANGED <<account, row, reused>>
  BY <1>7 DEF Crash, Start, SettleMeta, Refuse, AbortStart, Serve, vars
<1>8. Store!Next \/ UNCHANGED <<account, K>>
  BY <1>1, <1>2, <1>3, <1>4, <1>5, <1>6, <1>7 DEF Next, SaveStep, DeleteStep, Restart
<1>9. QED
  BY <1>8 DEF K

(* Saves and deletions are atomic, and nothing else changes a playlist: not *)
(* a deletion that fails half way, not a stop of the process, not the       *)
(* clean-up of the next start (deletion.rs, reconcile_playlist_staging).    *)
THEOREM DeletionIsAtomic == Spec => StoreSpec
<1>1. TypeOK /\ FileInv /\ Init => Store!Init
  BY StoreInit
<1>2. (TypeOK /\ NotedInv /\ FileInv) /\ (TypeOK /\ NotedInv /\ FileInv)' /\ [Next]_vars
        => [Store!Next]_<<account, [n \in Name |-> Kept(n)]>>
  BY StoreStep
<1>3. QED
  BY <1>1, <1>2, FileAlways, PTL DEF Spec, StoreSpec, Store!Spec
=============================================================================
