------------------------------ MODULE Accounts ------------------------------
(***************************************************************************)
(* Accounts, roles and login.  A browser starts a login, comes back from   *)
(* its identity provider with the attempt (finish_linkkeys_login,          *)
(* server/http.rs), and trades the exchange code it is given for a session *)
(* (authenticate, handlers/mod.rs); the bootstrap token makes the first    *)
(* account directly.  Administrators change roles and delete accounts.     *)
(*                                                                         *)
(* Requests run on threads of their own, and each statement is a step: a   *)
(* count that was read may be stale when it is acted on, a role that was   *)
(* read at hello is kept as long as the connection lives, and any          *)
(* statement may fail, which ends the request where it stands.             *)
(***************************************************************************)
EXTENDS Naturals, FiniteSets

CONSTANTS User,       \* accounts of the identity provider
          Local,      \* the account of the bootstrap token, admin@local
          Attempt,    \* login attempts, and the exchange codes they lead to
          Thread,     \* requests served at once
          None,
          MaxConns    \* bound: open connections of different identity

Id == User \cup {Local}
Role == {"member", "admin"}          \* guest is a role like member here
Conn == [id: Id, role: Role]         \* what a connection resolved at hello

ASSUME NoneAssumption == None \notin Id \cup Attempt
ASSUME ConnsAssumption == MaxConns \in Nat

VARIABLES
  account,    \* [Id -> Role \cup {"none"}]: rows of accounts
  attempt,    \* [Attempt -> {"new", "open", "gone"}]: rows of login attempts
  exchange,   \* [Attempt -> Id \cup {None}]: rows of exchange codes
  sessions,   \* the accounts that have a session
  conns,      \* the open connections
  task,       \* [Thread -> ...]: where each request is
  taken,      \* history: how many requests each attempt got through
  redeemed,   \* history: how many sessions each exchange code was good for
  ownerless   \* history: the code has let the last administrator go

vars == <<account, attempt, exchange, sessions, conns, task, taken, redeemed, ownerless>>
login == <<attempt, exchange, taken, redeemed>>

Op == {"idle", "take", "verify", "enter", "grant", "issue", "claim", "mint",
       "boot", "count", "erase", "role"}
Task == [op: Op, at: Attempt \cup {None}, id: Id \cup {None},
         first: BOOLEAN, raced: BOOLEAN]
Idle == [op |-> "idle", at |-> None, id |-> None, first |-> FALSE, raced |-> FALSE]

TypeOK ==
  /\ account \in [Id -> Role \cup {"none"}]
  /\ attempt \in [Attempt -> {"new", "open", "gone"}]
  /\ exchange \in [Attempt -> Id \cup {None}]
  /\ sessions \subseteq {i \in Id : account[i] # "none"}
  /\ conns \subseteq Conn
  /\ task \in [Thread -> Task]
  /\ taken \in [Attempt -> Nat] /\ redeemed \in [Attempt -> Nat]
  /\ ownerless \in BOOLEAN

Exists(i) == i # None /\ account[i] # "none"
Admins == {i \in Id : account[i] = "admin"}
Empty == \A i \in Id : account[i] = "none"

Init ==
  /\ account = [i \in Id |-> "none"]
  /\ attempt = [a \in Attempt |-> "new"] /\ exchange = [a \in Attempt |-> None]
  /\ sessions = {} /\ conns = {} /\ task = [t \in Thread |-> Idle]
  /\ taken = [a \in Attempt |-> 0] /\ redeemed = [a \in Attempt |-> 0]
  /\ ownerless = FALSE

(* Thread t goes on with r.  Deletions that have made their checks learn    *)
(* (history) that the administrators have changed since.                    *)
Goes(t, r) ==
  task' = [s \in Thread |->
             IF s = t THEN r
             ELSE IF task[s].op = "erase" /\ Admins' # Admins
                    THEN [task[s] EXCEPT !.raced = TRUE] ELSE task[s]]

KeepAccounts == UNCHANGED <<account, sessions, conns, ownerless>>

-----------------------------------------------------------------------------
(* Login attempts *)

Start(a) ==
  /\ attempt[a] = "new" /\ attempt' = [attempt EXCEPT ![a] = "open"]
  /\ UNCHANGED <<account, exchange, sessions, conns, task, taken, redeemed, ownerless>>

(* A later login purges what has expired.                                   *)
Expire(a) ==
  /\ \/ attempt[a] = "open" /\ attempt' = [attempt EXCEPT ![a] = "gone"]
        /\ UNCHANGED exchange
     \/ exchange[a] # None /\ exchange' = [exchange EXCEPT ![a] = None]
        /\ UNCHANGED attempt
  /\ UNCHANGED <<account, sessions, conns, task, taken, redeemed, ownerless>>

(* The callback, once for each time the browser sends it: one transaction   *)
(* reads the attempt ...                                                    *)
ReadAttempt(t, a) ==
  /\ task[t].op = "idle" /\ attempt[a] = "open"
  /\ UNCHANGED login /\ KeepAccounts
  /\ Goes(t, [Idle EXCEPT !.op = "take", !.at = a])

\* Mutant: the delete is a transaction of its own.
TakeUnlocked(t) ==
  LET a == task[t].at IN
  /\ task[t].op = "take"
  /\ attempt' = [attempt EXCEPT ![a] = "gone"]
  /\ taken' = [taken EXCEPT ![a] = @ + 1]
  /\ UNCHANGED <<exchange, redeemed>> /\ KeepAccounts
  /\ Goes(t, [task[t] EXCEPT !.op = "verify"])

(* ... and deletes it.  The database lets a transaction write only while    *)
(* what it has read is still current: the second of two fails.              *)
TakeAttempt(t) ==
  LET a == task[t].at IN
  /\ task[t].op = "take" /\ attempt[a] = "open"
  /\ attempt' = [attempt EXCEPT ![a] = "gone"]
  /\ taken' = [taken EXCEPT ![a] = @ + 1]
  /\ UNCHANGED <<exchange, redeemed>> /\ KeepAccounts
  /\ Goes(t, [task[t] EXCEPT !.op = "verify"])

(* The provider's answer names a user that is trusted; are there accounts?  *)
CountAccounts(t, u) ==
  /\ task[t].op = "verify"
  /\ UNCHANGED login /\ KeepAccounts
  /\ Goes(t, [task[t] EXCEPT !.op = "enter", !.id = u, !.first = Empty])

\* Mutant: the row of an account that logs in again is written anew.
EnterAsMember(t) ==
  /\ task[t].op = "enter"
  /\ account' = [account EXCEPT ![task[t].id] = "member"]
  /\ Goes(t, [task[t] EXCEPT !.op = IF task[t].first THEN "grant" ELSE "issue"])
  /\ UNCHANGED <<login, sessions, conns, ownerless>>

(* upsert_linkkeys_account: a new account is a member.                      *)
Enter(t) ==
  LET i == task[t].id IN
  /\ task[t].op = "enter"
  /\ account' = [account EXCEPT ![i] = IF @ = "none" THEN "member" ELSE @]
  /\ Goes(t, [task[t] EXCEPT !.op = IF task[t].first THEN "grant" ELSE "issue"])
  /\ UNCHANGED <<login, sessions, conns, ownerless>>

(* The first account is made administrator, if it is still there.           *)
Grant(t) ==
  LET i == task[t].id IN
  /\ task[t].op = "grant"
  /\ account' = [account EXCEPT ![i] = IF @ = "none" THEN @ ELSE "admin"]
  /\ ownerless' = (ownerless \/ ~Exists(i))
  /\ Goes(t, [task[t] EXCEPT !.op = "issue"])
  /\ UNCHANGED <<login, sessions, conns>>

Issue(t) ==
  LET i == task[t].id IN
  /\ task[t].op = "issue" /\ Exists(i)
  /\ exchange' = [exchange EXCEPT ![task[t].at] = i]
  /\ UNCHANGED <<attempt, taken, redeemed>> /\ KeepAccounts
  /\ Goes(t, Idle)

-----------------------------------------------------------------------------
(* Sessions and connections *)

ReadCode(t, a) ==
  /\ task[t].op = "idle" /\ exchange[a] # None
  /\ UNCHANGED login /\ KeepAccounts
  /\ Goes(t, [Idle EXCEPT !.op = "claim", !.at = a, !.id = exchange[a]])

(* The code is deleted in the transaction that read it, as the attempt was. *)
ClaimCode(t) ==
  LET a == task[t].at IN
  /\ task[t].op = "claim" /\ exchange[a] # None
  /\ exchange' = [exchange EXCEPT ![a] = None]
  /\ redeemed' = [redeemed EXCEPT ![a] = @ + 1]
  /\ UNCHANGED <<attempt, taken>> /\ KeepAccounts
  /\ Goes(t, [task[t] EXCEPT !.op = "mint"])

Mint(t) ==
  /\ task[t].op = "mint" /\ Exists(task[t].id)
  /\ sessions' = sessions \cup {task[t].id}
  /\ UNCHANGED <<login, account, conns, ownerless>>
  /\ Goes(t, Idle)

(* The bootstrap token is accepted while there is no account ...            *)
CheckBootstrap(t) ==
  /\ task[t].op = "idle" /\ Empty
  /\ UNCHANGED login /\ KeepAccounts
  /\ Goes(t, [Idle EXCEPT !.op = "boot", !.id = Local])

(* ... and makes admin@local the administrator.                             *)
Bootstrap(t) ==
  /\ task[t].op = "boot"
  /\ account' = [account EXCEPT ![Local] = "admin"]
  /\ Goes(t, [task[t] EXCEPT !.op = "mint"])
  /\ UNCHANGED <<login, sessions, conns, ownerless>>

(* hello: the role is read once, for as long as the connection lives.       *)
Connect(i) ==
  /\ i \in sessions /\ Cardinality(conns) < MaxConns
  /\ conns' = conns \cup {[id |-> i, role |-> account[i]]}
  /\ UNCHANGED <<login, account, sessions, task, ownerless>>

Disconnect(c) ==
  /\ c \in conns /\ conns' = conns \ {c}
  /\ UNCHANGED <<login, account, sessions, task, ownerless>>

-----------------------------------------------------------------------------
(* Administration *)

(* set_role, of an account that exists, on the connection's word.           *)
SetRole(c, i, r) ==
  /\ c \in conns /\ c.role = "admin" /\ Exists(i)
  /\ account' = [account EXCEPT ![i] = r]
  /\ ownerless' = (ownerless \/ Admins' = {})
  /\ Goes(None, Idle)
  /\ UNCHANGED <<login, sessions, conns>>

(* require_admin_or_guest_instance: while there is no account, a caller     *)
(* without a login may give a role, too ...                                 *)
AskRole(t, i) ==
  /\ task[t].op = "idle" /\ Empty
  /\ UNCHANGED login /\ KeepAccounts
  /\ Goes(t, [Idle EXCEPT !.op = "role", !.id = i])

(* ... by a statement of its own, which finds the account or does nothing.  *)
GuestSetRole(t, r) ==
  LET i == task[t].id IN
  /\ task[t].op = "role"
  /\ account' = [account EXCEPT ![i] = IF @ = "none" THEN @ ELSE r]
  /\ ownerless' = (ownerless \/ (Admins # {} /\ Admins' = {}))
  /\ Goes(t, Idle)
  /\ UNCHANGED <<login, sessions, conns>>

(* delete_account, one's own or, for an administrator, anyone's: the role   *)
(* is read, then for an administrator the number of administrators ...      *)
AskErase(t, c, i) ==
  /\ task[t].op = "idle" /\ c \in conns /\ (c.id = i \/ c.role = "admin")
  /\ Exists(i)
  /\ UNCHANGED login /\ KeepAccounts
  /\ Goes(t, [Idle EXCEPT !.id = i,
                          !.op = IF account[i] = "admin" THEN "count" ELSE "erase"])

\* Mutant: one administrator is enough.
CountOne(t) ==
  /\ task[t].op = "count"
  /\ UNCHANGED login /\ KeepAccounts
  /\ Goes(t, IF Cardinality(Admins) < 1 THEN Idle ELSE [task[t] EXCEPT !.op = "erase"])

CountAdmins(t) ==
  /\ task[t].op = "count"
  /\ UNCHANGED login /\ KeepAccounts
  /\ Goes(t, IF Cardinality(Admins) <= 1 THEN Idle ELSE [task[t] EXCEPT !.op = "erase"])

\* Mutant: the sessions of the account survive it.
EraseRowOnly(t) ==
  LET i == task[t].id IN
  /\ task[t].op = "erase"
  /\ account' = [account EXCEPT ![i] = "none"]
  /\ exchange' = [a \in Attempt |-> IF exchange[a] = i THEN None ELSE exchange[a]]
  /\ ownerless' = (ownerless \/ task[t].raced)
  /\ Goes(t, Idle)
  /\ UNCHANGED <<attempt, taken, redeemed, sessions, conns>>

(* ... and the transaction, with all that refers to the row.                *)
Erase(t) ==
  LET i == task[t].id IN
  /\ task[t].op = "erase"
  /\ account' = [account EXCEPT ![i] = "none"]
  /\ exchange' = [a \in Attempt |-> IF exchange[a] = i THEN None ELSE exchange[a]]
  /\ sessions' = sessions \ {i}
  /\ ownerless' = (ownerless \/ task[t].raced)
  /\ Goes(t, Idle)
  /\ UNCHANGED <<attempt, taken, redeemed, conns>>

(* A statement fails, the identity is refused, or the process stops.        *)
Abandon(t) ==
  /\ task[t].op # "idle"
  /\ ownerless' = (ownerless \/ task[t].op = "grant")
  /\ UNCHANGED <<login, account, sessions, conns>>
  /\ Goes(t, Idle)

-----------------------------------------------------------------------------
Next ==
  \/ \E a \in Attempt : Start(a) \/ Expire(a)
  \/ \E t \in Thread, a \in Attempt : ReadAttempt(t, a) \/ ReadCode(t, a)
  \/ \E t \in Thread, u \in User : CountAccounts(t, u)
  \/ \E t \in Thread :
       \/ TakeAttempt(t) \/ Enter(t) \/ Grant(t) \/ Issue(t)
       \/ ClaimCode(t) \/ Mint(t) \/ CheckBootstrap(t) \/ Bootstrap(t)
       \/ CountAdmins(t) \/ Erase(t) \/ Abandon(t)
  \/ \E i \in Id : Connect(i)
  \/ \E c \in conns : Disconnect(c)
  \/ \E c \in conns, i \in Id, r \in Role : SetRole(c, i, r)
  \/ \E t \in Thread, i \in Id, r \in Role : AskRole(t, i) \/ GuestSetRole(t, r)
  \/ \E t \in Thread, c \in conns, i \in Id : AskErase(t, c, i)

Spec == Init /\ [][Next]_vars

-----------------------------------------------------------------------------
(* Properties *)

(* An attempt leads to at most one login and an exchange code to at most    *)
(* one session, however often the browser sends them and however the        *)
(* requests interleave.                                                     *)
UsedOnce == \A a \in Attempt : taken[a] <= 1 /\ redeemed[a] <= 1

(* An instance that has accounts has an administrator, unless a first login *)
(* is about to make one or was cut off before it did, an administrator      *)
(* demoted the last one or a caller without a login did that was let in     *)
(* before the first account was made, or administrators changed between the *)
(* checks of a deletion and its transaction.                                *)
AdminRemains ==
  ~Empty /\ Admins = {} =>
    ownerless \/ \E t \in Thread : task[t].op = "grant"

(* Logging in costs nobody a role, and gives one only to who came when      *)
(* there was no account: everything else takes the connection of an         *)
(* administrator, or a request without a login that is still under way from *)
(* the time when there was no account.                                      *)
RolesAreGiven ==
  [][\A i \in Id :
       Exists(i) /\ Exists(i)' /\ account'[i] # account[i] =>
         \/ \E c \in conns : c.role = "admin"
         \/ \E t \in Thread : task[t].id = i /\ task[t].op = "role"
         \/ account'[i] = "admin" /\ \E t \in Thread :
              task[t].id = i /\ (task[t].first \/ task[t].op = "boot")]_vars

(* docs/PLAY_STORE_COMPLIANCE.md:383, of deletions: "It refuses to delete   *)
(* the last admin."                                                         *)
LastAdminStays ==
  [][Admins # {} /\ Admins' = {} => \E i \in Admins : Exists(i)']_vars
=============================================================================
