---------------------------- MODULE AuthSessions ----------------------------
(***************************************************************************)
(* The users and sessions of internal/auth: kept in memory under a mutex   *)
(* and written to one JSON file, as a whole, by every operation that       *)
(* changes them.  Writing goes to a temporary file that is renamed, so the *)
(* file is the old or the new one, but the write may fail and the process  *)
(* may die before or after it.                                             *)
(***************************************************************************)
EXTENDS Naturals

CONSTANTS
  Users,      (* the users auth.bootstrap_users names                      *)
  Tokens,     (* session tokens, random and never drawn twice              *)
  TTL,        (* auth.session_ttl                                          *)
  MaxTime     (* bound: instants                                           *)

ASSUME ConstantsOK == TTL \in Nat \ {0} /\ MaxTime \in Nat

VARIABLES
  now,
  up,          (* whether the process runs                                 *)
  memory,      (* its diskState                                            *)
  disk,        (* what the file decodes to                                 *)
  issued,      (* history: tokens Login has returned                       *)
  asked,       (* history: tokens Logout was called with                   *)
  loggedOut    (* history: tokens Logout has returned for without an error *)

vars == <<now, up, memory, disk, issued, asked, loggedOut>>

Sessions == [token : Tokens, user : Users, expires : Nat, revoked : BOOLEAN]

(* hashed: the users whose PasswordHash is known.                          *)
States == [users : SUBSET Users, hashed : SUBSET Users,
           sessions : SUBSET Sessions]

NoState == [users |-> {}, hashed |-> {}, sessions |-> {}]

(* PasswordHash has the JSON name "-": it is not encoded.                  *)
Encoded(state) == [state EXCEPT !.hashed = {}]

Init ==
  /\ now = 0
  /\ up = FALSE
  /\ memory = NoState
  /\ disk = NoState
  /\ issued = {}
  /\ asked = {}
  /\ loggedOut = {}

(* Open: load, and provision the bootstrap users where there are none; if  *)
(* their file cannot be written the process does not come up.              *)
Open ==
  /\ ~ up
  /\ \/ /\ disk.users # {}
        /\ memory' = disk
        /\ UNCHANGED disk
     \/ /\ disk.users = {}
        /\ memory' = [disk EXCEPT !.users = Users, !.hashed = Users]
        /\ disk' = Encoded(memory')
  /\ up' = TRUE
  /\ UNCHANGED <<now, issued, asked, loggedOut>>

Crash ==
  /\ up
  /\ up' = FALSE
  /\ memory' = NoState
  /\ UNCHANGED <<now, disk, issued, asked, loggedOut>>

Tick ==
  /\ now < MaxTime
  /\ now' = now + 1
  /\ UNCHANGED <<up, memory, disk, issued, asked, loggedOut>>

(* Authenticate: only a user whose hash is known can be checked.           *)
Authenticates(user) == user \in memory.users /\ user \in memory.hashed

SessionsOf(state, token) == {s \in state.sessions : s.token = token}

(* The new state reaches the file or does not (Persisted), and the process *)
(* goes on or dies; it answers only if it goes on.                         *)
Persisted(new) == disk' = Encoded(new)

(* Seeded fault: an error of persist is dropped.                           *)
LoginUnsaved(token, user) ==
  /\ up
  /\ Authenticates(user)
  /\ SessionsOf(memory, token) = {} /\ SessionsOf(disk, token) = {}
  /\ LET new == [memory EXCEPT !.sessions = @ \cup
                   {[token |-> token, user |-> user,
                     expires |-> now + TTL, revoked |-> FALSE]}]
     IN  /\ memory' = new
         /\ Persisted(new) \/ UNCHANGED disk
         /\ issued' = issued \cup {token}
  /\ UNCHANGED <<now, up, asked, loggedOut>>

(* The session stays in memory where the file could not be written, and    *)
(* its token is not returned.                                              *)
Login(token, user) ==
  /\ up
  /\ Authenticates(user)
  /\ SessionsOf(memory, token) = {} /\ SessionsOf(disk, token) = {}
  /\ LET new == [memory EXCEPT !.sessions = @ \cup
                   {[token |-> token, user |-> user,
                     expires |-> now + TTL, revoked |-> FALSE]}]
     IN  \/ /\ memory' = new
            /\ Persisted(new)
            /\ issued' = issued \cup {token}
            /\ UNCHANGED up
         \/ /\ memory' = new
            /\ UNCHANGED <<up, disk, issued>>
         \/ /\ up' = FALSE
            /\ memory' = NoState
            /\ Persisted(new)
            /\ UNCHANGED issued
  /\ UNCHANGED <<now, asked, loggedOut>>

Resolves(state, token, at) ==
  \E s \in SessionsOf(state, token) :
    ~ s.revoked /\ at < s.expires /\ s.user \in state.users

(* Seeded fault: the session is ended by dating its expiry back.           *)
RevokedByExpiry(state, token) ==
  [state EXCEPT !.sessions =
     {IF s.token = token THEN [s EXCEPT !.expires = now - 1] ELSE s : s \in @}]

Revoked(state, token) ==
  [state EXCEPT !.sessions =
     {IF s.token = token THEN [s EXCEPT !.revoked = TRUE] ELSE s : s \in @}]

(* Seeded fault: a session revoked already is not written again.           *)
LogoutOnce(token) ==
  /\ up
  /\ SessionsOf(memory, token) # {}
  /\ LET new == Revoked(memory, token)
     IN  \/ /\ memory' = new
            /\ IF new = memory THEN UNCHANGED disk ELSE Persisted(new)
            /\ loggedOut' = loggedOut \cup {token}
         \/ /\ memory' = new
            /\ UNCHANGED <<disk, loggedOut>>
  /\ asked' = asked \cup {token}
  /\ UNCHANGED <<now, up, issued>>

Logout(token) ==
  /\ up
  /\ SessionsOf(memory, token) # {}
  /\ LET new == Revoked(memory, token)
     IN  \/ /\ memory' = new
            /\ Persisted(new)
            /\ loggedOut' = loggedOut \cup {token}
            /\ UNCHANGED up
         \/ /\ memory' = new
            /\ UNCHANGED <<up, disk, loggedOut>>
         \/ /\ up' = FALSE
            /\ memory' = NoState
            /\ Persisted(new)
            /\ UNCHANGED loggedOut
  /\ asked' = asked \cup {token}
  /\ UNCHANGED <<now, issued>>

Next ==
  \/ Open
  \/ Crash
  \/ Tick
  \/ \E token \in Tokens, user \in Users : Login(token, user)
  \/ \E token \in Tokens : Logout(token)

Spec == Init /\ [][Next]_vars

-----------------------------------------------------------------------------
(* Properties.                                                             *)

(* Types of the variables.                                                 *)
TypeOK ==
  /\ now \in 0 .. MaxTime
  /\ up \in BOOLEAN
  /\ memory.users \subseteq Users /\ memory.hashed \subseteq Users
  /\ disk.users \subseteq Users /\ disk.hashed \subseteq Users
  /\ memory.sessions \subseteq Sessions
  /\ disk.sessions \subseteq Sessions
  /\ issued \subseteq Tokens
  /\ asked \subseteq Tokens
  /\ loggedOut \subseteq asked

(* A logout that was confirmed holds for ever: the token opens nothing, in *)
(* this process or one that starts from the file, whatever writes failed   *)
(* or crashes came since (Logout, persist).                                *)
LogoutHolds ==
  \A token \in loggedOut :
    /\ \A at \in 0 .. MaxTime : ~ Resolves(disk, token, at)
    /\ up => ~ Resolves(memory, token, now)

(* A token that Login has returned resolves until it expires or somebody   *)
(* logs it out, also after a restart (Login, persist, load).               *)
IssuedResolves ==
  \A token \in issued \ asked :
    \E s \in SessionsOf(disk, token) :
      now < s.expires => /\ Resolves(disk, token, now)
                         /\ up => Resolves(memory, token, now)
=============================================================================
