------------------------- MODULE AuthSessionsProofs -------------------------
(***************************************************************************)
(* Proofs about AuthSessions, for any users, tokens and time to live: a    *)
(* confirmed logout is never undone, and an issued token keeps its session *)
(* until somebody asks to end it.                                          *)
(***************************************************************************)
EXTENDS AuthSessions, TLAPS

TypeInv ==
  /\ now \in 0 .. MaxTime
  /\ up \in BOOLEAN
  /\ memory \in States
  /\ disk \in States
  /\ issued \subseteq Tokens
  /\ asked \subseteq Tokens
  /\ loggedOut \subseteq asked

(* The state knows the token, as revoked.                                  *)
Ended(state, token) ==
  /\ SessionsOf(state, token) # {}
  /\ \A s \in SessionsOf(state, token) : s.revoked

(* The state knows the token, as a user's and not revoked.                 *)
Live(state, token) ==
  /\ SessionsOf(state, token) # {}
  /\ \A s \in SessionsOf(state, token) : ~ s.revoked /\ s.user \in state.users

(* What was answered for is in the state.                                  *)
Kept(state) ==
  /\ \A token \in loggedOut : Ended(state, token)
  /\ \A token \in issued \ asked : Live(state, token)

(* The file keeps every answer by itself, for the process may die.  Memory *)
(* must keep them too, for the next write puts it in the file's place; and *)
(* it must have the same sessions, for they are what the process resolves. *)
Inv ==
  /\ TypeInv
  /\ Kept(disk)
  /\ up => /\ Kept(memory)
           /\ \A token \in issued \ asked :
                SessionsOf(memory, token) = SessionsOf(disk, token)

-----------------------------------------------------------------------------
(* Encoding loses the hashes alone.                                        *)
LEMMA EncodedSame ==
  ASSUME NEW state \in States
  PROVE  /\ Encoded(state) \in States
         /\ Encoded(state).users = state.users
         /\ \A token \in Tokens :
              SessionsOf(Encoded(state), token) = SessionsOf(state, token)
BY DEF Encoded, States, SessionsOf

(* The session Login adds is the only one changed.                         *)
LEMMA SessionAdded ==
  ASSUME NEW state \in States, NEW s \in Sessions,
         NEW new, new = [state EXCEPT !.sessions = @ \cup {s}]
  PROVE  /\ new \in States
         /\ new.users = state.users
         /\ \A t \in Tokens \ {s.token} : SessionsOf(new, t) = SessionsOf(state, t)
         /\ SessionsOf(new, s.token) = SessionsOf(state, s.token) \cup {s}
BY DEF States, SessionsOf

(* Revoking a token changes its own sessions alone, and keeps them.        *)
LEMMA RevokedSame ==
  ASSUME NEW state \in States, NEW token \in Tokens
  PROVE  /\ Revoked(state, token) \in States
         /\ Revoked(state, token).users = state.users
         /\ \A t \in Tokens \ {token} :
              SessionsOf(Revoked(state, token), t) = SessionsOf(state, t)
         /\ SessionsOf(state, token) # {} => Ended(Revoked(state, token), token)
<1> DEFINE Mark(s) == IF s.token = token THEN [s EXCEPT !.revoked = TRUE] ELSE s
           new == Revoked(state, token)
<1>1. /\ new.sessions = {Mark(s) : s \in state.sessions}
      /\ new.users = state.users
      /\ new = [state EXCEPT !.sessions = {Mark(s) : s \in state.sessions}]
  BY DEF Revoked, States
<1>2. \A s \in state.sessions :
        /\ Mark(s) \in Sessions
        /\ Mark(s).token = s.token
        /\ s.token # token => Mark(s) = s
        /\ s.token = token => Mark(s).revoked
  BY DEF States, Sessions
<1> HIDE DEF Mark, new
<1>3. new \in States
  BY <1>1, <1>2 DEF States
<1>4. ASSUME NEW t \in Tokens \ {token}
      PROVE  SessionsOf(new, t) = SessionsOf(state, t)
  BY <1>1, <1>2 DEF SessionsOf
<1>5. SessionsOf(state, token) # {} => Ended(new, token)
  BY <1>1, <1>2 DEF SessionsOf, Ended
<1> QED
  BY <1>1, <1>3, <1>4, <1>5 DEF new

(* A state keeps a token's fate if it keeps its sessions and the users.    *)
LEMMA SameFate ==
  ASSUME NEW old, NEW new, NEW token,
         SessionsOf(new, token) = SessionsOf(old, token),
         new.users = old.users
  PROVE  /\ Ended(old, token) => Ended(new, token)
         /\ Live(old, token) => Live(new, token)
BY DEF Ended, Live

-----------------------------------------------------------------------------
LEMMA InvInit == Init => Inv
<1> SUFFICES ASSUME Init PROVE Inv
  OBVIOUS
<1>1. NoState \in States
  BY DEF NoState, States
<1>2. now \in 0 .. MaxTime
  BY ConstantsOK DEF Init
<1>3. TypeInv
  BY <1>1, <1>2, Zenon DEF Init, TypeInv
<1> QED
  BY <1>3 DEF Init, Inv, Kept

(* Open: memory becomes what the file says; a file without users has no    *)
(* session that was answered for.                                          *)
LEMMA OpenInv ==
  ASSUME Inv, Open
  PROVE  Inv'
<1>1. CASE disk.users # {}
  BY <1>1 DEF Open, Inv, TypeInv, Kept, Ended, Live, SessionsOf
<1>2. CASE disk.users = {}
  <2>1. memory' = [disk EXCEPT !.users = Users, !.hashed = Users]
        /\ disk' = Encoded(memory') /\ up' = TRUE
        /\ UNCHANGED <<now, issued, asked, loggedOut>>
    BY <1>2 DEF Open
  <2>2. issued \ asked = {}
    BY <1>2 DEF Inv, Kept, Live
  <2>3. memory' \in States /\ memory'.sessions = disk.sessions
    BY <2>1 DEF Inv, TypeInv, States
  <2>4. /\ disk' \in States
        /\ \A t \in Tokens : SessionsOf(disk', t) = SessionsOf(memory', t)
    BY <2>1, <2>3, EncodedSame
  <2>5. \A t : SessionsOf(memory', t) = SessionsOf(disk, t)
    BY <2>3 DEF SessionsOf
  <2>6. \A t \in loggedOut : Ended(memory', t) /\ Ended(disk', t)
    BY <2>4, <2>5 DEF Inv, TypeInv, Kept, Ended
  <2> QED
    BY <2>1, <2>2, <2>3, <2>4, <2>6 DEF Inv, TypeInv, Kept, Ended
<1> QED
  BY <1>1, <1>2

(* Login: other tokens keep their sessions, and the new one was unknown.   *)
LEMMA LoginInv ==
  ASSUME Inv, NEW token \in Tokens, NEW user \in Users, Login(token, user)
  PROVE  Inv'
<1> DEFINE s == [token |-> token, user |-> user, expires |-> now + TTL,
                 revoked |-> FALSE]
           new == [memory EXCEPT !.sessions = @ \cup {s}]
<1>1. /\ up /\ user \in memory.users
      /\ SessionsOf(memory, token) = {} /\ SessionsOf(disk, token) = {}
      /\ UNCHANGED <<now, asked, loggedOut>>
      /\ \/ /\ memory' = new /\ disk' = Encoded(new)
            /\ issued' = issued \cup {token} /\ up' = up
         \/ memory' = new /\ UNCHANGED <<up, disk, issued>>
         \/ /\ up' = FALSE /\ memory' = NoState /\ disk' = Encoded(new)
            /\ UNCHANGED issued
  BY DEF Login, Authenticates, Persisted
<1>2. s \in Sessions /\ s.token = token /\ ~ s.revoked /\ s.user = user
  BY ConstantsOK DEF Sessions, Inv, TypeInv
<1> HIDE DEF s
<1>3. /\ new \in States /\ new.users = memory.users
      /\ \A t \in Tokens \ {token} : SessionsOf(new, t) = SessionsOf(memory, t)
      /\ SessionsOf(new, token) = {s}
  <2>1. memory \in States /\ new = [memory EXCEPT !.sessions = @ \cup {s}]
    BY DEF Inv, TypeInv
  <2> HIDE DEF new
  <2>2. /\ new \in States /\ new.users = memory.users
        /\ \A t \in Tokens \ {s.token} :
             SessionsOf(new, t) = SessionsOf(memory, t)
        /\ SessionsOf(new, s.token) = SessionsOf(memory, s.token) \cup {s}
    BY <2>1, <1>2, SessionAdded
  <2> QED
    BY <2>2, <1>1, <1>2
<1> HIDE DEF new
<1>4. token \notin loggedOut /\ token \notin issued \ asked
  BY <1>1 DEF Inv, Kept, Ended, Live
<1>5. loggedOut \subseteq Tokens \ {token} /\ issued \ asked \subseteq Tokens \ {token}
  BY <1>4 DEF Inv, TypeInv
<1>6. Kept(new) /\ Live(new, token)
  <2>1. Live(new, token)
    BY <1>1, <1>2, <1>3 DEF Live
  <2> QED
    BY <1>1, <1>3, <1>5, <2>1, SameFate DEF Inv, Kept
<1>7. /\ Encoded(new) \in States /\ Encoded(new).users = new.users
      /\ \A t \in Tokens : SessionsOf(Encoded(new), t) = SessionsOf(new, t)
  BY <1>3, EncodedSame
<1>8. Kept(Encoded(new)) /\ Live(Encoded(new), token)
  BY <1>5, <1>6, <1>7, SameFate DEF Kept
<1>9. CASE /\ memory' = new /\ disk' = Encoded(new)
           /\ issued' = issued \cup {token} /\ up' = up
  BY <1>1, <1>3, <1>6, <1>7, <1>8, <1>9 DEF Inv, TypeInv, Kept, Ended, Live
<1>10. CASE memory' = new /\ UNCHANGED <<up, disk, issued>>
  BY <1>1, <1>3, <1>5, <1>6, <1>10 DEF Inv, TypeInv, Kept, Ended, Live
<1>11. CASE /\ up' = FALSE /\ memory' = NoState /\ disk' = Encoded(new)
            /\ UNCHANGED issued
  <2>1. NoState \in States
    BY DEF NoState, States
  <2> QED
    BY <1>1, <1>7, <1>8, <1>11, <2>1 DEF Inv, TypeInv, Kept, Ended, Live
<1> QED
  BY <1>1, <1>9, <1>10, <1>11

(* Logout: the token is asked for, and revoked where it is written.        *)
LEMMA LogoutInv ==
  ASSUME Inv, NEW token \in Tokens, Logout(token)
  PROVE  Inv'
<1> DEFINE new == Revoked(memory, token)
<1>1. /\ up /\ SessionsOf(memory, token) # {}
      /\ asked' = asked \cup {token} /\ UNCHANGED <<now, issued>>
      /\ \/ /\ memory' = new /\ disk' = Encoded(new)
            /\ loggedOut' = loggedOut \cup {token} /\ up' = up
         \/ memory' = new /\ UNCHANGED <<up, disk, loggedOut>>
         \/ /\ up' = FALSE /\ memory' = NoState /\ disk' = Encoded(new)
            /\ UNCHANGED loggedOut
  BY DEF Logout, Persisted
<1>2. /\ new \in States /\ new.users = memory.users
      /\ \A t \in Tokens \ {token} : SessionsOf(new, t) = SessionsOf(memory, t)
      /\ Ended(new, token)
  BY <1>1, RevokedSame DEF Inv, TypeInv
<1> HIDE DEF new
<1>3. /\ \A t \in loggedOut \cup {token} : Ended(new, t)
      /\ \A t \in (issued \ asked) \ {token} : Live(new, t)
  BY <1>1, <1>2, SameFate DEF Inv, TypeInv, Kept
<1>4. /\ Encoded(new) \in States /\ Encoded(new).users = new.users
      /\ \A t \in Tokens : SessionsOf(Encoded(new), t) = SessionsOf(new, t)
  BY <1>2, EncodedSame
<1>5. /\ \A t \in loggedOut \cup {token} : Ended(Encoded(new), t)
      /\ \A t \in (issued \ asked) \ {token} : Live(Encoded(new), t)
  BY <1>3, <1>4, SameFate DEF Inv, TypeInv
<1>6. /\ asked' \subseteq Tokens /\ loggedOut' \subseteq asked'
      /\ issued' \ asked' = (issued \ asked) \ {token}
  BY <1>1 DEF Inv, TypeInv
<1>7. CASE /\ memory' = new /\ disk' = Encoded(new)
           /\ loggedOut' = loggedOut \cup {token} /\ up' = up
  BY <1>1, <1>2, <1>3, <1>4, <1>5, <1>6, <1>7
     DEF Inv, TypeInv, Kept, Ended, Live
<1>8. CASE memory' = new /\ UNCHANGED <<up, disk, loggedOut>>
  BY <1>1, <1>2, <1>3, <1>6, <1>8 DEF Inv, TypeInv, Kept, Ended, Live
<1>9. CASE /\ up' = FALSE /\ memory' = NoState /\ disk' = Encoded(new)
           /\ UNCHANGED loggedOut
  <2>1. NoState \in States
    BY DEF NoState, States
  <2> QED
    BY <1>1, <1>4, <1>5, <1>6, <1>9, <2>1 DEF Inv, TypeInv, Kept, Ended, Live
<1> QED
  BY <1>1, <1>7, <1>8, <1>9

LEMMA InvNext == Inv /\ [Next]_vars => Inv'
<1> SUFFICES ASSUME Inv, [Next]_vars PROVE Inv'
  OBVIOUS
<1>1. CASE Crash
  BY <1>1 DEF Crash, Inv, TypeInv, Kept, Ended, Live, SessionsOf, NoState, States
<1>2. CASE Tick
  BY <1>2, ConstantsOK DEF Tick, Inv, TypeInv, Kept, Ended, Live, SessionsOf
<1>3. CASE UNCHANGED vars
  BY <1>3 DEF vars, Inv, TypeInv, Kept, Ended, Live, SessionsOf
<1> QED
  BY <1>1, <1>2, <1>3, OpenInv, LoginInv, LogoutInv DEF Next

-----------------------------------------------------------------------------
(* Users, sessions and tokens stay what the types say, in memory and in    *)
(* the file, and only a logout that was asked for is confirmed (Open,      *)
(* Login, Logout).                                                         *)
THEOREM SessionsTyped == Spec => []TypeOK
<1>1. Inv => TypeOK
  BY DEF Inv, TypeInv, TypeOK, States
<1> QED
  BY <1>1, InvInit, InvNext, PTL DEF Spec

(* A confirmed logout holds for ever, in this process and in every later   *)
(* one, whatever writes failed or crashes came since (Logout, persist).    *)
THEOREM LogoutIsFinal == Spec => []LogoutHolds
<1>1. Inv => LogoutHolds
  BY DEF Inv, Kept, Ended, LogoutHolds, Resolves
<1> QED
  BY <1>1, InvInit, InvNext, PTL DEF Spec

(* A token Login has returned resolves until it expires or somebody logs   *)
(* it out, also after a restart (Login, persist, load).                    *)
THEOREM IssuedIsDurable == Spec => []IssuedResolves
<1>1. Inv => IssuedResolves
  <2> SUFFICES ASSUME Inv, NEW token \in issued \ asked
               PROVE  \E s \in SessionsOf(disk, token) :
                        now < s.expires => /\ Resolves(disk, token, now)
                                           /\ up => Resolves(memory, token, now)
    BY DEF IssuedResolves
  <2>1. PICK s \in SessionsOf(disk, token) : TRUE
    BY DEF Inv, Kept, Live
  <2>2. ~ s.revoked /\ s.user \in disk.users
    BY <2>1 DEF Inv, Kept, Live
  <2>3. up => s \in SessionsOf(memory, token) /\ s.user \in memory.users
    BY <2>1 DEF Inv, Kept, Live
  <2> QED
    BY <2>1, <2>2, <2>3 DEF Resolves
<1> QED
  BY <1>1, InvInit, InvNext, PTL DEF Spec
=============================================================================
