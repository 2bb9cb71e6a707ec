------------------------------ MODULE AuthProofs ------------------------------
(***************************************************************************)
(* Logins, for any people, invites, states, tokens and requests in flight: *)
(* invites are paid for by the players they let in, a login state opens    *)
(* one session, and sessions belong to whom Steam named for their login.   *)
(***************************************************************************)
EXTENDS Auth, FiniteSetTheorems, TLAPS

(* The steps of a request that has taken its login state, and those of one *)
(* that has checked Steam's assertion.                                     *)
Taken == {"verify", "lookup", "invite", "consume", "session"}
Checked == {"lookup", "invite", "consume", "session"}

(* What a request knows at each step.                                      *)
CallsFormed ==
  \A c \in Calls :
    /\ calls[c].step \in {"take"} \cup Taken
         => calls[c].state \in States /\ calls[c].assertion \in asserted
    /\ calls[c].step \in Checked => calls[c].assertion[1] = calls[c].state
    /\ calls[c].step \in {"invite", "consume"} => calls[c].invite \in Invites
    /\ calls[c].step = "session" => players[calls[c].assertion[2]] # "none"
    /\ calls[c].step = "logout"
         => calls[c].token \in Tokens /\ sessions[calls[c].token].status # "none"

(* A state that was taken is gone, and one request has it, or one session. *)
TakenOnce ==
  /\ \A c \in Calls :
       calls[c].step \in Taken => states[calls[c].state].phase = "gone"
  /\ \A c, d \in Calls :
       calls[c].step \in Taken /\ calls[d].step \in Taken /\ calls[c].state = calls[d].state
         => c = d
  /\ \A t \in Tokens :
       sessions[t].status # "none"
         => /\ sessions[t].from \in States /\ states[sessions[t].from].phase = "gone"
            /\ \A c \in Calls : calls[c].step \in Taken => calls[c].state # sessions[t].from

(* Only a player who exists has used an invite.                            *)
Unpaid == \A p \in People : players[p] = "none" => invitedBy[p] = NoInvite

IInv == /\ TypeOK /\ CallsFormed
        /\ TakenOnce /\ StateUsedOnce
        /\ Unpaid /\ UsesPaid
        /\ SessionsEarned

Call == [step : {"idle", "begin", "cleanup", "take", "verify", "lookup",
                 "invite", "consume", "session", "logout"},
         state : States \cup {NoState}, invite : Invites \cup {NoInvite},
         assertion : (States \cup {NoState}) \X (People \cup {Nobody}),
         token : Tokens \cup {NoToken}]
-------------------------------------------------------------------------------
LEMMA IdleIsCall == IdleCall \in Call
BY DEF IdleCall, Call

LEMMA CallsTyped == TypeOK <=> /\ TypeOK /\ calls \in [Calls -> Call]
BY DEF TypeOK, Call

LEMMA StepIsCall ==
  ASSUME NEW call \in Call, NEW step \in {"verify", "session"}
  PROVE  [call EXCEPT !.step = step] \in Call
BY DEF Call

LEMMA InitIInv == Init => IInv
<1> SUFFICES ASSUME Init
             PROVE  IInv
  OBVIOUS
<1>1. TypeOK
  BY IdleIsCall DEF Init, TypeOK, NewInvite, NoSession, Call
<1>2. CallsFormed /\ TakenOnce /\ StateUsedOnce /\ Unpaid /\ SessionsEarned
  BY DEF Init, CallsFormed, TakenOnce, StateUsedOnce, Unpaid, SessionsEarned, IdleCall,
         NoSession, Taken, Checked
<1>3. UsesPaid
  <2> SUFFICES ASSUME NEW i \in Invites
               PROVE  /\ invites[i].uses = Cardinality(InvitedOn(i))
                      /\ invites[i].uses <= MaxUses[i]
                      /\ MaxUses[i] = 1 => \A p \in InvitedOn(i) : invites[i].usedBy = p
    BY DEF UsesPaid
  <2>1. InvitedOn(i) = {}
    BY AuthAssumption DEF Init, InvitedOn, AuthAssumption
  <2> QED
    BY <2>1, FS_EmptySet, AuthAssumption DEF Init, NewInvite, AuthAssumption
<1> QED
  BY <1>1, <1>2, <1>3 DEF IInv
-------------------------------------------------------------------------------
(* One lemma per kind of step: requests that read, ...                     *)

(* A step of one request that writes nothing but its own progress keeps    *)
(* the invariant when it takes no state.                                   *)
LEMMA ProgressKeeps ==
  ASSUME IInv, NEW c \in Calls, NEW call \in Call,
         calls' = [calls EXCEPT ![c] = call],
         UNCHANGED <<invites, states, players, sessions, asserted, invitedBy>>,
         call.step \in {"take"} \cup Taken
           => call.state \in States /\ call.assertion \in asserted,
         call.step \in Checked => call.assertion[1] = call.state,
         call.step \in {"invite", "consume"} => call.invite \in Invites,
         call.step = "session" => players[call.assertion[2]] # "none",
         call.step = "logout"
           => call.token \in Tokens /\ sessions[call.token].status # "none",
         call.step \in Taken => calls[c].step \in Taken /\ call.state = calls[c].state
  PROVE  IInv'
<1>1. calls'[c] = call /\ \A d \in Calls : d # c => calls'[d] = calls[d]
  BY DEF IInv, TypeOK
<1>2. TypeOK'
  BY DEF IInv, TypeOK, Call
<1>3. CallsFormed'
  BY <1>1 DEF IInv, CallsFormed
<1>4. TakenOnce'
  BY <1>1 DEF IInv, TakenOnce
<1>5. (StateUsedOnce /\ Unpaid /\ UsesPaid /\ SessionsEarned)'
  BY DEF IInv, StateUsedOnce, Unpaid, UsesPaid, SessionsEarned, InvitedOn
<1> QED
  BY <1>2, <1>3, <1>4, <1>5 DEF IInv

(* ... steps that age states and sessions, or let requests stop, ...       *)
LEMMA AgingKeeps ==
  ASSUME IInv,
         states' \in [States -> [phase : {"new", "open", "expired", "gone"},
                                 invite : Invites \cup {NoInvite}]],
         \A s \in States : states[s].phase = "gone" => states'[s].phase = "gone",
         sessions' \in [Tokens -> [status : {"none", "live", "expired", "gone"},
                                   owner : People \cup {Nobody}, from : States \cup {NoState}]],
         \A t \in Tokens : /\ sessions'[t].status = "none" <=> sessions[t].status = "none"
                           /\ sessions'[t].owner = sessions[t].owner
                           /\ sessions'[t].from = sessions[t].from,
         calls' \in [Calls -> Call],
         \A d \in Calls : calls'[d] = calls[d] \/ calls'[d].step \in {"idle", "cleanup"},
         UNCHANGED <<invites, players, asserted, invitedBy>>
  PROVE  IInv'
<1>1. TypeOK'
  BY DEF IInv, TypeOK, Call
<1>2. CallsFormed'
  BY DEF IInv, CallsFormed, Taken, Checked
<1>3. TakenOnce'
  <2>1. \A c \in Calls : calls'[c].step \in Taken => calls'[c] = calls[c]
    BY DEF Taken
  <2>2. \A c \in Calls : calls[c].step \in Taken => calls[c].state \in States
    BY DEF IInv, CallsFormed
  <2> QED
    BY <2>1, <2>2 DEF IInv, TakenOnce
<1>4. StateUsedOnce'
  BY DEF IInv, StateUsedOnce
<1>5. (Unpaid /\ UsesPaid)'
  <2>1. Unpaid'
    BY DEF IInv, Unpaid
  <2>2. \A i \in Invites : InvitedOn(i)' = InvitedOn(i)
    BY DEF InvitedOn
  <2>3. UsesPaid'
    BY <2>2 DEF IInv, UsesPaid
  <2> QED
    BY <2>1, <2>3
<1>6. SessionsEarned'
  BY DEF IInv, SessionsEarned
<1> QED
  BY <1>1, <1>2, <1>3, <1>4, <1>5, <1>6 DEF IInv

LEMMA CreateStateKeeps ==
  ASSUME IInv, NEW c \in Calls, CreateState(c)
  PROVE  IInv'
<1> DEFINE call == [IdleCall EXCEPT !.step = "cleanup"]
<1>1. call \in Call /\ call.step = "cleanup"
  BY DEF IdleCall, Call
<1>2. PICK s \in States :
        /\ states[s].phase = "new"
        /\ states' = [states EXCEPT ![s] = [phase |-> "open", invite |-> calls[c].invite]]
        /\ calls' = [calls EXCEPT ![c] = call]
        /\ UNCHANGED <<invites, players, sessions, asserted, invitedBy>>
  BY DEF CreateState
<1> HIDE DEF call
<1>3. calls[c].invite \in Invites \cup {NoInvite}
  BY DEF IInv, TypeOK
<1> QED
  BY <1>1, <1>2, <1>3, AgingKeeps DEF IInv, TypeOK, Call

LEMMA CleanupKeeps ==
  ASSUME IInv, NEW c \in Calls, Cleanup(c)
  PROVE  IInv'
<1>1. IdleCall \in Call /\ IdleCall.step = "idle"
  BY IdleIsCall DEF IdleCall
<1>2. states' \in [States -> [phase : {"new", "open", "expired", "gone"},
                              invite : Invites \cup {NoInvite}]]
  BY DEF Cleanup, IInv, TypeOK
<1>3. \A s \in States : states[s].phase = "gone" => states'[s].phase = "gone"
  BY DEF Cleanup, IInv, TypeOK
<1> QED
  BY <1>1, <1>2, <1>3, AgingKeeps DEF Cleanup, EndCall, IInv, TypeOK, Call

LEMMA CompleteReadKeeps ==
  ASSUME IInv, NEW c \in Calls, NEW s \in States, CompleteRead(c, s)
  PROVE  IInv'
<1>1. CASE states[s].phase = "expired" /\ states' = [states EXCEPT ![s].phase = "gone"]
           /\ UNCHANGED calls
  <2>1. states' \in [States -> [phase : {"new", "open", "expired", "gone"},
                                invite : Invites \cup {NoInvite}]]
    BY <1>1 DEF IInv, TypeOK
  <2>2. \A r \in States : states[r].phase = "gone" => states'[r].phase = "gone"
    BY <1>1 DEF IInv, TypeOK
  <2>3. calls' \in [Calls -> Call] /\ sessions' = sessions
    BY <1>1 DEF CompleteRead, IInv, TypeOK, Call
  <2>4. sessions \in [Tokens -> [status : {"none", "live", "expired", "gone"},
                                 owner : People \cup {Nobody}, from : States \cup {NoState}]]
    BY DEF IInv, TypeOK
  <2> QED
    BY <1>1, <2>1, <2>2, <2>3, <2>4, AgingKeeps DEF CompleteRead
<1>2. ASSUME NEW a \in asserted,
             calls' = [calls EXCEPT ![c] = [IdleCall EXCEPT !.step = "take", !.state = s,
                                              !.invite = states[s].invite, !.assertion = a]],
             UNCHANGED <<invites, states, players, sessions, asserted, invitedBy>>
      PROVE  IInv'
  <2> DEFINE call == [IdleCall EXCEPT !.step = "take", !.state = s,
                                      !.invite = states[s].invite, !.assertion = a]
  <2>1. states[s].invite \in Invites \cup {NoInvite} /\ a \in States \X People
    BY DEF IInv, TypeOK
  <2>2. call \in Call /\ call.step = "take" /\ call.state = s /\ call.assertion = a
    BY <2>1 DEF IdleCall, Call
  <2> HIDE DEF call
  <2> QED
    BY <1>2, <2>2, ProgressKeeps DEF call, Taken, Checked
<1> QED
  BY <1>1, <1>2 DEF CompleteRead

LEMMA SteamAssertsKeeps ==
  ASSUME IInv, NEW s \in States, NEW p \in People, SteamAsserts(s, p)
  PROVE  IInv'
<1>1. TypeOK'
  BY DEF SteamAsserts, IInv, TypeOK
<1>2. CallsFormed'
  BY DEF SteamAsserts, IInv, CallsFormed
<1>3. TakenOnce' /\ StateUsedOnce'
  BY DEF SteamAsserts, IInv, TakenOnce, StateUsedOnce
<1>4. Unpaid' /\ UsesPaid'
  BY DEF SteamAsserts, IInv, Unpaid, UsesPaid, InvitedOn
<1>5. SessionsEarned'
  BY DEF SteamAsserts, IInv, SessionsEarned
<1> QED
  BY <1>1, <1>2, <1>3, <1>4, <1>5 DEF IInv

(* ... the operator's, ...                                                 *)
LEMMA CreateInviteKeeps ==
  ASSUME IInv, NEW i \in Invites, CreateInvite(i)
  PROVE  IInv'
<1>1. TypeOK'
  <2> DEFINE Row == [issued : BOOLEAN, uses : Nat, expired : BOOLEAN,
                     usedBy : People \cup {Nobody}]
             new == [invites[i] EXCEPT !.issued = TRUE]
  <2>1. invites \in [Invites -> Row]
    BY DEF IInv, TypeOK
  <2>2. new \in Row
    <3> HIDE DEF Row
    <3>1. invites[i] \in Row
      BY <2>1
    <3> QED
      BY <3>1 DEF Row
  <2>3. invites' = [invites EXCEPT ![i] = new]
    BY DEF CreateInvite
  <2>4. invites' \in [Invites -> Row]
    <3> HIDE DEF Row, new
    <3> QED
      BY <2>1, <2>2, <2>3
  <2> QED
    BY <2>4 DEF CreateInvite, IInv, TypeOK
<1>2. CallsFormed' /\ TakenOnce' /\ StateUsedOnce' /\ Unpaid' /\ SessionsEarned'
  BY DEF CreateInvite, IInv, CallsFormed, TakenOnce, StateUsedOnce, Unpaid, SessionsEarned
<1>3. \A j \in Invites : /\ invites'[j].uses = invites[j].uses
                         /\ invites'[j].usedBy = invites[j].usedBy
                         /\ InvitedOn(j)' = InvitedOn(j)
  BY DEF CreateInvite, IInv, TypeOK, InvitedOn
<1>4. UsesPaid'
  BY <1>3 DEF IInv, UsesPaid
<1> QED
  BY <1>1, <1>2, <1>4 DEF IInv

LEMMA DisableKeeps ==
  ASSUME IInv, NEW p \in People, Disable(p)
  PROVE  IInv'
<1>1. \A q \in People : players'[q] = "none" <=> players[q] = "none"
  BY DEF Disable, IInv, TypeOK
<1>2. TypeOK'
  BY DEF Disable, IInv, TypeOK
<1>3. CallsFormed'
  <2> SUFFICES ASSUME NEW c \in Calls, calls[c].step = "session"
               PROVE  players'[calls[c].assertion[2]] # "none"
    BY DEF Disable, IInv, CallsFormed
  <2>1. calls[c].assertion \in asserted /\ players[calls[c].assertion[2]] # "none"
    BY DEF IInv, CallsFormed, Taken
  <2>2. calls[c].assertion[2] \in People
    BY <2>1 DEF IInv, TypeOK
  <2> QED
    BY <1>1, <2>1, <2>2
<1>4. TakenOnce' /\ StateUsedOnce'
  BY DEF Disable, IInv, TakenOnce, StateUsedOnce
<1>5. Unpaid'
  BY <1>1 DEF Disable, IInv, Unpaid
<1>6. UsesPaid'
  BY DEF Disable, IInv, UsesPaid, InvitedOn
<1>7. SessionsEarned'
  <2> SUFFICES ASSUME NEW t \in Tokens, sessions[t].status # "none"
               PROVE  players'[sessions[t].owner] # "none"
    BY DEF Disable, IInv, SessionsEarned
  <2>1. players[sessions[t].owner] # "none" /\ <<sessions[t].from, sessions[t].owner>> \in asserted
    BY DEF IInv, SessionsEarned
  <2>2. sessions[t].owner \in People
    BY <2>1 DEF IInv, TypeOK
  <2> QED
    BY <1>1, <2>1, <2>2
<1> QED
  BY <1>2, <1>3, <1>4, <1>5, <1>6, <1>7 DEF IInv

(* ... and those that take a state, use an invite or open a session.       *)
LEMMA TakeStateKeeps ==
  ASSUME IInv, NEW c \in Calls, TakeState(c)
  PROVE  IInv'
<1> DEFINE s == calls[c].state
<1>1. /\ calls[c].step = "take" /\ s \in States /\ calls[c].assertion \in asserted
      /\ states[s].phase # "gone"
      /\ states' = [states EXCEPT ![s].phase = "gone"]
      /\ calls' = [calls EXCEPT ![c].step = "verify"]
      /\ UNCHANGED <<invites, players, sessions, asserted, invitedBy>>
  BY DEF TakeState, Takes, Go, IInv, CallsFormed
<1>2. TypeOK'
  <2>1. calls \in [Calls -> Call]
    BY CallsTyped DEF IInv
  <2>2. calls' \in [Calls -> Call]
    BY <1>1, <2>1, StepIsCall
  <2>3. states' \in [States -> [phase : {"new", "open", "expired", "gone"},
                                invite : Invites \cup {NoInvite}]]
    <3>1. states \in [States -> [phase : {"new", "open", "expired", "gone"},
                                 invite : Invites \cup {NoInvite}]]
      BY DEF IInv, TypeOK
    <3> QED
      BY <1>1, <3>1
  <2> QED
    BY <1>1, <2>2, <2>3 DEF IInv, TypeOK, Call
<1>3. /\ calls'[c].step = "verify" /\ calls'[c].state = s
      /\ calls'[c].assertion = calls[c].assertion
      /\ \A d \in Calls : d # c => calls'[d] = calls[d]
  BY <1>1 DEF IInv, TypeOK
<1>4. states'[s].phase = "gone" /\ \A r \in States : r # s => states'[r] = states[r]
  BY <1>1 DEF IInv, TypeOK
<1> HIDE DEF s
<1>5. CallsFormed'
  BY <1>1, <1>3 DEF IInv, CallsFormed, Taken, Checked
<1>6. TakenOnce'
  BY <1>1, <1>3, <1>4 DEF IInv, TakenOnce, CallsFormed, Taken
<1>7. (StateUsedOnce /\ Unpaid)'
  BY <1>1 DEF IInv, StateUsedOnce, Unpaid
<1>8. (UsesPaid /\ SessionsEarned)'
  BY <1>1 DEF IInv, UsesPaid, InvitedOn, SessionsEarned
<1> QED
  BY <1>2, <1>5, <1>6, <1>7, <1>8 DEF IInv

LEMMA ConsumeKeeps ==
  ASSUME IInv, NEW c \in Calls, Consume(c)
  PROVE  IInv'
<1>1. PICK i \in Invites, p \in People :
        /\ calls[c].step = "consume" /\ i = calls[c].invite /\ calls[c].state \in States
        /\ calls[c].assertion \in asserted /\ calls[c].assertion[1] = calls[c].state
        /\ p = calls[c].assertion[2] /\ p = Person(c)
  <2>1. /\ calls[c].step = "consume" /\ calls[c].invite \in Invites
        /\ calls[c].state \in States /\ calls[c].assertion \in asserted
        /\ calls[c].assertion[1] = calls[c].state
    BY DEF Consume, IInv, CallsFormed, Taken, Checked
  <2>2. calls[c].assertion[2] \in People
    BY <2>1 DEF IInv, TypeOK
  <2> QED
    BY <2>1, <2>2 DEF Person
<1> DEFINE by == IF MaxUses[i] = 1 THEN p ELSE invites[i].usedBy
<1>2. /\ invites[i].uses < MaxUses[i] /\ players[p] = "none"
      /\ invites' = [invites EXCEPT ![i].uses = invites[i].uses + 1, ![i].usedBy = by]
      /\ players' = [players EXCEPT ![p] = "ACTIVE"]
      /\ invitedBy' = [invitedBy EXCEPT ![p] = i]
      /\ calls' = [calls EXCEPT ![c].step = "session"]
      /\ UNCHANGED <<states, sessions, asserted>>
  BY <1>1 DEF Consume, HasUsesLeft, Counted, Go
<1>3. invites[i].uses \in Nat /\ MaxUses[i] \in Nat /\ by \in People \cup {Nobody}
  BY <1>1, AuthAssumption DEF IInv, TypeOK, AuthAssumption
<1>4. /\ invites'[i].uses = invites[i].uses + 1 /\ invites'[i].usedBy = by
      /\ \A j \in Invites : j # i => invites'[j] = invites[j]
  BY <1>1, <1>2 DEF IInv, TypeOK
<1>5. /\ players'[p] = "ACTIVE" /\ \A q \in People : q # p => players'[q] = players[q]
      /\ invitedBy'[p] = i /\ \A q \in People : q # p => invitedBy'[q] = invitedBy[q]
  BY <1>1, <1>2 DEF IInv, TypeOK
<1>6. /\ calls'[c].step = "session" /\ calls'[c].state = calls[c].state
      /\ calls'[c].assertion = calls[c].assertion
      /\ \A d \in Calls : d # c => calls'[d] = calls[d]
  BY <1>2 DEF IInv, TypeOK
<1>7. invitedBy[p] = NoInvite /\ NoInvite \notin Invites
  BY <1>1, <1>2, AuthAssumption DEF IInv, Unpaid, AuthAssumption
<1>8. TypeOK'
  <2>1. invites' \in [Invites -> [issued : BOOLEAN, uses : Nat, expired : BOOLEAN,
                                  usedBy : People \cup {Nobody}]]
    <3> DEFINE Row == [issued : BOOLEAN, uses : Nat, expired : BOOLEAN,
                       usedBy : People \cup {Nobody}]
               new == [invites[i] EXCEPT !.uses = invites[i].uses + 1, !.usedBy = by]
    <3>1. invites \in [Invites -> Row]
      BY DEF IInv, TypeOK
    <3>2. new \in Row
      <4> HIDE DEF Row, by
      <4>1. invites[i] \in Row
        BY <3>1
      <4> DEFINE counted == [invites[i] EXCEPT !.uses = invites[i].uses + 1]
      <4>2. counted \in Row
        BY <4>1, <1>3 DEF Row
      <4>3. new = [counted EXCEPT !.usedBy = by]
        BY <4>1 DEF Row
      <4> HIDE DEF counted, new
      <4>4. [counted EXCEPT !.usedBy = by] \in Row
        BY <4>2, <1>3 DEF Row
      <4> QED
        BY <4>3, <4>4
    <3>3. invites' = [invites EXCEPT ![i] = new]
      BY <1>2, <3>1
    <3> QED
      BY <3>1, <3>2, <3>3
  <2>2. players' \in [People -> {"none", "ACTIVE", "DISABLED"}]
    BY <1>2 DEF IInv, TypeOK
  <2>3. invitedBy' \in [People -> Invites \cup {NoInvite}]
    BY <1>1, <1>2 DEF IInv, TypeOK
  <2>4. calls' \in [Calls -> Call]
    BY <1>2, CallsTyped, StepIsCall DEF IInv
  <2> QED
    BY <1>2, <2>1, <2>2, <2>3, <2>4 DEF IInv, TypeOK, Call
<1> HIDE DEF by
<1>9. CallsFormed'
  <2> USE DEF Taken, Checked
  <2>1. \A d \in Calls : calls[d].step = "session" => players'[calls[d].assertion[2]] # "none"
    <3> SUFFICES ASSUME NEW d \in Calls, calls[d].step = "session"
                 PROVE  players'[calls[d].assertion[2]] # "none"
      OBVIOUS
    <3>1. calls[d].assertion \in asserted /\ players[calls[d].assertion[2]] # "none"
      BY DEF IInv, CallsFormed, Taken
    <3>2. calls[d].assertion[2] \in People
      BY <3>1 DEF IInv, TypeOK
    <3> QED
      BY <1>5, <3>1, <3>2
  <2>2. players'[calls[c].assertion[2]] # "none"
    BY <1>1, <1>5
  <2>3. \A d \in Calls : d # c =>
          /\ calls'[d].step \in {"take"} \cup Taken
               => calls'[d].state \in States /\ calls'[d].assertion \in asserted
          /\ calls'[d].step \in Checked => calls'[d].assertion[1] = calls'[d].state
          /\ calls'[d].step \in {"invite", "consume"} => calls'[d].invite \in Invites
          /\ calls'[d].step = "logout"
               => calls'[d].token \in Tokens /\ sessions[calls'[d].token].status # "none"
    BY <1>6 DEF IInv, CallsFormed
  <2>4. \A d \in Calls : calls'[d].step = "session" => players'[calls'[d].assertion[2]] # "none"
    BY <1>6, <2>1, <2>2
  <2>5. UNCHANGED <<asserted, sessions>>
    BY <1>2
  <2> QED
    BY <1>1, <1>6, <2>3, <2>4, <2>5 DEF CallsFormed
<1>10. TakenOnce'
  BY <1>1, <1>2, <1>6 DEF IInv, TakenOnce, Taken
<1>11. StateUsedOnce' /\ Unpaid'
  BY <1>2, <1>5 DEF IInv, StateUsedOnce, Unpaid
<1>12. UsesPaid'
  <2>1. \A j \in Invites : j # i => InvitedOn(j)' = InvitedOn(j)
    BY <1>1, <1>5, <1>7 DEF InvitedOn
  <2>2. InvitedOn(i)' = InvitedOn(i) \cup {p}
    BY <1>1, <1>5 DEF InvitedOn
  <2>3. p \notin InvitedOn(i) /\ IsFiniteSet(InvitedOn(i))
    BY <1>1, <1>7, FS_Subset, AuthAssumption DEF InvitedOn, AuthAssumption
  <2>4. Cardinality(InvitedOn(i)') = Cardinality(InvitedOn(i)) + 1
    BY <2>2, <2>3, FS_AddElement
  <2>5. /\ invites[i].uses = Cardinality(InvitedOn(i))
        /\ MaxUses[i] = 1 => InvitedOn(i) = {}
    <3>1. invites[i].uses = Cardinality(InvitedOn(i))
      BY <1>1 DEF IInv, UsesPaid
    <3>2. MaxUses[i] = 1 => Cardinality(InvitedOn(i)) = 0
      BY <1>2, <1>3, <3>1
    <3> QED
      BY <3>1, <3>2, <2>3, FS_EmptySet
  <2>6. /\ invites'[i].uses = Cardinality(InvitedOn(i)')
        /\ invites'[i].uses <= MaxUses[i]
    BY <1>2, <1>3, <1>4, <2>4, <2>5
  <2>7. MaxUses[i] = 1 => \A q \in InvitedOn(i)' : invites'[i].usedBy = q
    BY <1>4, <2>2, <2>5 DEF by
  <2>8. \A j \in Invites : j # i =>
          /\ invites'[j].uses = Cardinality(InvitedOn(j)')
          /\ invites'[j].uses <= MaxUses[j]
          /\ MaxUses[j] = 1 => \A q \in InvitedOn(j)' : invites'[j].usedBy = q
    BY <1>4, <2>1 DEF IInv, UsesPaid
  <2> QED
    BY <2>6, <2>7, <2>8 DEF UsesPaid
<1>13. SessionsEarned'
  <2> SUFFICES ASSUME NEW t \in Tokens, sessions[t].status # "none"
               PROVE  /\ players'[sessions[t].owner] # "none"
                      /\ <<sessions[t].from, sessions[t].owner>> \in asserted
    BY <1>2 DEF SessionsEarned
  <2>1. players[sessions[t].owner] # "none" /\ <<sessions[t].from, sessions[t].owner>> \in asserted
    BY DEF IInv, SessionsEarned
  <2>2. sessions[t].owner \in People
    BY <2>1 DEF IInv, TypeOK
  <2> QED
    BY <1>5, <2>1, <2>2
<1> QED
  BY <1>8, <1>9, <1>10, <1>11, <1>12, <1>13 DEF IInv

LEMMA OpenSessionKeeps ==
  ASSUME IInv, NEW c \in Calls, OpenSession(c)
  PROVE  IInv'
<1> DEFINE s == calls[c].state
           p == Person(c)
<1>1. PICK t \in Tokens :
        /\ calls[c].step = "session" /\ sessions[t].status = "none"
        /\ sessions' = [sessions EXCEPT ![t] = [status |-> "live", owner |-> p, from |-> s]]
        /\ calls' = [calls EXCEPT ![c] = IdleCall]
        /\ UNCHANGED <<invites, states, players, asserted, invitedBy>>
  BY DEF OpenSession, EndCall
<1>2. /\ s \in States /\ calls[c].assertion \in asserted
      /\ calls[c].assertion[1] = s /\ calls[c].assertion[2] = p
      /\ players[p] # "none" /\ states[s].phase = "gone"
  BY <1>1 DEF IInv, CallsFormed, TakenOnce, Taken, Checked, Person
<1>3. p \in People /\ <<s, p>> \in asserted
  <2>1. calls[c].assertion \in States \X People
    BY <1>2 DEF IInv, TypeOK
  <2> QED
    BY <1>2, <2>1
<1> HIDE DEF s, p
<1>4. /\ sessions'[t] = [status |-> "live", owner |-> p, from |-> s]
      /\ \A u \in Tokens : u # t => sessions'[u] = sessions[u]
  BY <1>1 DEF IInv, TypeOK
<1>5. calls'[c].step = "idle" /\ \A d \in Calls : d # c => calls'[d] = calls[d]
  BY <1>1 DEF IInv, TypeOK, IdleCall
<1>6. TypeOK'
  <2>1. calls' \in [Calls -> Call]
    BY <1>1, IdleIsCall DEF IInv, TypeOK, Call
  <2>2. sessions' \in [Tokens -> [status : {"none", "live", "expired", "gone"},
                                  owner : People \cup {Nobody}, from : States \cup {NoState}]]
    BY <1>1, <1>2, <1>3 DEF IInv, TypeOK
  <2> QED
    BY <1>1, <2>1, <2>2 DEF IInv, TypeOK, Call
<1>7. CallsFormed'
  BY <1>1, <1>4, <1>5 DEF IInv, CallsFormed, Taken, Checked
<1>8. \A d \in Calls : d # c /\ calls[d].step \in Taken => calls[d].state # s
  BY <1>1 DEF IInv, TakenOnce, Taken, s
<1>9. TakenOnce'
  <2>1. (\A d \in Calls : calls[d].step \in Taken => states[calls[d].state].phase = "gone")'
    BY <1>1, <1>5 DEF IInv, TakenOnce, Taken
  <2>2. (\A d, e \in Calls :
           calls[d].step \in Taken /\ calls[e].step \in Taken /\ calls[d].state = calls[e].state
             => d = e)'
    BY <1>5 DEF IInv, TakenOnce, Taken
  <2>3. (\A u \in Tokens :
           sessions[u].status # "none"
             => /\ sessions[u].from \in States /\ states[sessions[u].from].phase = "gone"
                /\ \A d \in Calls : calls[d].step \in Taken => calls[d].state # sessions[u].from)'
    BY <1>1, <1>2, <1>4, <1>5, <1>8 DEF IInv, TakenOnce, Taken
  <2> QED
    BY <2>1, <2>2, <2>3 DEF TakenOnce
<1>10. \A u \in Tokens : sessions[u].status # "none" => sessions[u].from # s
  BY <1>1 DEF IInv, TakenOnce, Taken, s
<1>11. StateUsedOnce'
  BY <1>4, <1>10 DEF IInv, StateUsedOnce
<1>12. Unpaid' /\ UsesPaid'
  BY <1>1 DEF IInv, Unpaid, UsesPaid, InvitedOn
<1>13. SessionsEarned'
  BY <1>1, <1>2, <1>3, <1>4 DEF IInv, SessionsEarned
<1> QED
  BY <1>6, <1>7, <1>9, <1>11, <1>12, <1>13 DEF IInv
-------------------------------------------------------------------------------
LEMMA BeginKeeps ==
  ASSUME IInv, NEW c \in Calls, Begin(c)
  PROVE  IInv'
<1>1. ASSUME NEW i \in Invites, BeginWithInvite(c, i)
      PROVE  IInv'
  <2> DEFINE call == [IdleCall EXCEPT !.step = "begin", !.invite = i]
  <2>1. call \in Call /\ call.step = "begin"
    BY DEF IdleCall, Call
  <2>2. /\ calls' = [calls EXCEPT ![c] = call]
        /\ UNCHANGED <<invites, states, players, sessions, asserted, invitedBy>>
    BY <1>1 DEF BeginWithInvite, Start
  <2> HIDE DEF call
  <2> QED
    BY <2>1, <2>2, ProgressKeeps DEF Taken, Checked
<1>2. CASE BeginWithout(c)
  <2> DEFINE call == [IdleCall EXCEPT !.step = "begin"]
  <2>1. call \in Call /\ call.step = "begin"
    BY DEF IdleCall, Call
  <2>2. /\ calls' = [calls EXCEPT ![c] = call]
        /\ UNCHANGED <<invites, states, players, sessions, asserted, invitedBy>>
    BY <1>2 DEF BeginWithout, Start
  <2> HIDE DEF call
  <2> QED
    BY <2>1, <2>2, ProgressKeeps DEF Taken, Checked
<1> QED
  BY <1>1, <1>2, CreateStateKeeps, CleanupKeeps DEF Begin

(* A request that has passed a check goes on with what it has.             *)
LEMMA CheckKeeps ==
  ASSUME IInv, NEW c \in Calls, NEW step \in Checked,
         calls[c].step \in Taken,
         calls' = [calls EXCEPT ![c].step = step],
         UNCHANGED <<invites, states, players, sessions, asserted, invitedBy>>,
         calls[c].assertion[1] = calls[c].state,
         step \in {"invite", "consume"} => calls[c].invite \in Invites,
         step = "session" => players[calls[c].assertion[2]] # "none"
  PROVE  IInv'
<1> DEFINE call == [calls[c] EXCEPT !.step = step]
<1>1. calls[c] \in Call
  BY CallsTyped DEF IInv
<1>2. /\ call \in Call /\ call.step = step /\ call.state = calls[c].state
      /\ call.assertion = calls[c].assertion /\ call.invite = calls[c].invite
  BY <1>1 DEF Call, Checked
<1>3. calls' = [calls EXCEPT ![c] = call]
  OBVIOUS
<1>4. calls[c].state \in States /\ calls[c].assertion \in asserted
  BY DEF IInv, CallsFormed
<1>5. /\ call.step \in {"take"} \cup Taken
           => call.state \in States /\ call.assertion \in asserted
      /\ call.step \in Checked => call.assertion[1] = call.state
      /\ call.step \in Taken => calls[c].step \in Taken /\ call.state = calls[c].state
  BY <1>2, <1>4
<1>6. /\ call.step \in {"invite", "consume"} => call.invite \in Invites
      /\ call.step = "session" => players[call.assertion[2]] # "none"
      /\ call.step # "logout"
  BY <1>2 DEF Checked
<1> HIDE DEF call
<1> QED
  BY <1>2, <1>3, <1>5, <1>6, ProgressKeeps

LEMMA CompleteKeeps ==
  ASSUME IInv, NEW c \in Calls, Complete(c)
  PROVE  IInv'
<1>1. CASE Verify(c)
  <2>1. /\ calls[c].step \in Taken /\ "lookup" \in Checked
        /\ calls' = [calls EXCEPT ![c].step = "lookup"]
        /\ UNCHANGED <<invites, states, players, sessions, asserted, invitedBy>>
        /\ calls[c].assertion[1] = calls[c].state
    BY <1>1 DEF Verify, Go, SameReturnTo, Taken, Checked
  <2> QED
    BY <2>1, CheckKeeps
<1>2. ASSUME calls[c].step \in Checked,
             UNCHANGED <<invites, states, players, sessions, asserted, invitedBy>>
      PROVE  calls[c].step \in Taken /\ calls[c].assertion[1] = calls[c].state
  BY <1>2 DEF IInv, CallsFormed, Taken, Checked
<1>3. ASSUME Lookup(c), Go(c, "session"), players[Person(c)] = "ACTIVE"
      PROVE  IInv'
  <2>1. /\ calls[c].step \in Checked /\ "session" \in Checked
        /\ calls' = [calls EXCEPT ![c].step = "session"]
        /\ UNCHANGED <<invites, states, players, sessions, asserted, invitedBy>>
        /\ players[calls[c].assertion[2]] # "none"
    BY <1>3 DEF Lookup, Go, Checked, Person
  <2> QED
    BY <1>2, <2>1, CheckKeeps
<1>4. ASSUME Lookup(c), Go(c, "invite"), calls[c].invite # NoInvite
      PROVE  IInv'
  <2>1. /\ calls[c].step \in Checked /\ "invite" \in Checked
        /\ calls' = [calls EXCEPT ![c].step = "invite"]
        /\ UNCHANGED <<invites, states, players, sessions, asserted, invitedBy>>
    BY <1>4 DEF Lookup, Go, Checked
  <2>2. calls[c].invite \in Invites
    BY <1>4 DEF IInv, TypeOK
  <2> QED
    BY <1>2, <2>1, <2>2, CheckKeeps
<1>5. CASE CheckInvite(c)
  <2>1. /\ calls[c].step \in Checked /\ "consume" \in Checked
        /\ calls' = [calls EXCEPT ![c].step = "consume"]
        /\ UNCHANGED <<invites, states, players, sessions, asserted, invitedBy>>
    BY <1>5 DEF CheckInvite, Go, Checked
  <2>2. calls[c].invite \in Invites
    BY <1>5 DEF CheckInvite, IInv, CallsFormed
  <2> QED
    BY <1>2, <2>1, <2>2, CheckKeeps
<1> QED
  BY <1>1, <1>3, <1>4, <1>5, CompleteReadKeeps, TakeStateKeeps, ConsumeKeeps, OpenSessionKeeps
     DEF Complete, Lookup

LEMMA SessionsTyped ==
  TypeOK => sessions \in [Tokens -> [status : {"none", "live", "expired", "gone"},
                                     owner : People \cup {Nobody}, from : States \cup {NoState}]]
BY DEF TypeOK

LEMMA StatesTyped ==
  TypeOK => states \in [States -> [phase : {"new", "open", "expired", "gone"},
                                   invite : Invites \cup {NoInvite}]]
BY DEF TypeOK

(* The life of a session after its login.                                  *)
LEMMA SessionAges ==
  ASSUME IInv, NEW t \in Tokens, NEW status \in {"expired", "gone"},
         sessions[t].status # "none",
         sessions' = [sessions EXCEPT ![t].status = status],
         calls' \in [Calls -> Call],
         \A d \in Calls : calls'[d] = calls[d] \/ calls'[d].step \in {"idle", "cleanup"},
         UNCHANGED <<invites, states, players, asserted, invitedBy>>
  PROVE  IInv'
<1>1. /\ sessions' \in [Tokens -> [status : {"none", "live", "expired", "gone"},
                                    owner : People \cup {Nobody}, from : States \cup {NoState}]]
      /\ \A u \in Tokens : /\ sessions'[u].status = "none" <=> sessions[u].status = "none"
                            /\ sessions'[u].owner = sessions[u].owner
                            /\ sessions'[u].from = sessions[u].from
  BY SessionsTyped DEF IInv
<1>2. /\ states' \in [States -> [phase : {"new", "open", "expired", "gone"},
                                  invite : Invites \cup {NoInvite}]]
      /\ \A s \in States : states[s].phase = "gone" => states'[s].phase = "gone"
  BY StatesTyped DEF IInv
<1> QED
  BY <1>1, <1>2, AgingKeeps

LEMMA RequestEnds ==
  ASSUME IInv, NEW c \in Calls, EndCall(c)
  PROVE  /\ calls' \in [Calls -> Call]
         /\ \A d \in Calls : calls'[d] = calls[d] \/ calls'[d].step \in {"idle", "cleanup"}
<1>1. calls \in [Calls -> Call] /\ IdleCall \in Call /\ IdleCall.step = "idle"
  BY CallsTyped, IdleIsCall DEF IInv, IdleCall
<1> QED
  BY <1>1 DEF EndCall

LEMMA CallFailsKeeps ==
  ASSUME IInv, NEW c \in Calls, CallFails(c)
  PROVE  IInv'
<1>1. /\ calls' \in [Calls -> Call]
      /\ \A d \in Calls : calls'[d] = calls[d] \/ calls'[d].step \in {"idle", "cleanup"}
  BY RequestEnds DEF CallFails
<1> QED
  BY <1>1, SessionsTyped, StatesTyped, AgingKeeps DEF CallFails, IInv

LEMMA LogoutKeeps ==
  ASSUME IInv, NEW c \in Calls, Logout(c)
  PROVE  IInv'
<1>1. /\ calls' \in [Calls -> Call]
      /\ \A d \in Calls : calls'[d] = calls[d] \/ calls'[d].step \in {"idle", "cleanup"}
  BY RequestEnds DEF Logout
<1>2. calls[c].token \in Tokens /\ sessions[calls[c].token].status # "none"
  BY DEF Logout, IInv, CallsFormed
<1> QED
  BY <1>1, <1>2, SessionAges DEF Logout

LEMMA GuardKeeps ==
  ASSUME IInv, NEW c \in Calls, NEW t \in Tokens, Guard(c, t)
  PROVE  IInv'
<1> DEFINE call == [IdleCall EXCEPT !.step = "logout", !.token = t]
<1>1. call \in Call /\ call.step = "logout" /\ call.token = t
  BY DEF IdleCall, Call
<1>2. /\ calls' = [calls EXCEPT ![c] = call] /\ sessions[t].status # "none"
      /\ UNCHANGED <<invites, states, players, sessions, asserted, invitedBy>>
  BY DEF Guard, Start
<1> HIDE DEF call
<1> QED
  BY <1>1, <1>2, ProgressKeeps DEF Taken, Checked

LEMMA ExpireKeeps ==
  ASSUME IInv, Expire
  PROVE  IInv'
<1> USE DEF IInv
<1>1. calls' = calls /\ calls \in [Calls -> Call]
  BY CallsTyped DEF Expire
<1>2. ASSUME NEW i \in Invites, invites' = [invites EXCEPT ![i].expired = TRUE],
             UNCHANGED <<states, sessions, players, asserted, calls, invitedBy>>
      PROVE  IInv'
  <2>1. TypeOK'
    <3> DEFINE Row == [issued : BOOLEAN, uses : Nat, expired : BOOLEAN,
                       usedBy : People \cup {Nobody}]
               new == [invites[i] EXCEPT !.expired = TRUE]
    <3>1. invites \in [Invites -> Row]
      BY DEF TypeOK
    <3>2. new \in Row
      <4> HIDE DEF Row
      <4>1. invites[i] \in Row
        BY <3>1
      <4> QED
        BY <4>1 DEF Row
    <3>3. invites' = [invites EXCEPT ![i] = new]
      BY <1>2
    <3>4. invites' \in [Invites -> Row]
      <4> HIDE DEF Row, new
      <4> QED
        BY <3>1, <3>2, <3>3
    <3> QED
      BY <1>2, <3>4 DEF TypeOK
  <2>2. CallsFormed' /\ TakenOnce' /\ StateUsedOnce' /\ Unpaid' /\ SessionsEarned'
    BY <1>2 DEF CallsFormed, TakenOnce, StateUsedOnce, Unpaid, SessionsEarned
  <2>3. \A j \in Invites : /\ invites'[j].uses = invites[j].uses
                           /\ invites'[j].usedBy = invites[j].usedBy
                           /\ InvitedOn(j)' = InvitedOn(j)
    BY <1>2 DEF TypeOK, InvitedOn
  <2>4. UsesPaid'
    BY <2>3 DEF UsesPaid
  <2> QED
    BY <2>1, <2>2, <2>4
<1>3. ASSUME NEW s \in States, states[s].phase = "open",
             states' = [states EXCEPT ![s].phase = "expired"],
             UNCHANGED <<invites, sessions, players, asserted, calls, invitedBy>>
      PROVE  IInv'
  <2>1. /\ states' \in [States -> [phase : {"new", "open", "expired", "gone"},
                                    invite : Invites \cup {NoInvite}]]
        /\ \A r \in States : states[r].phase = "gone" => states'[r].phase = "gone"
    BY <1>3, StatesTyped
  <2> HIDE DEF IInv
  <2>2. TypeOK
    BY DEF IInv
  <2> QED
    BY <1>1, <1>3, <2>1, <2>2, SessionsTyped, AgingKeeps
<1>4. ASSUME NEW t \in Tokens, sessions[t].status = "live",
             sessions' = [sessions EXCEPT ![t].status = "expired"],
             UNCHANGED <<invites, states, players, asserted, calls, invitedBy>>
      PROVE  IInv'
  <2> HIDE DEF IInv
  <2> QED
    BY <1>1, <1>4, SessionAges
<1> QED
  BY <1>2, <1>3, <1>4 DEF Expire

LEMMA GuardExpiredKeeps ==
  ASSUME IInv, NEW t \in Tokens, GuardExpired(t)
  PROVE  IInv'
<1>1. calls' \in [Calls -> Call]
  BY CallsTyped DEF GuardExpired, IInv
<1> QED
  BY <1>1, SessionAges DEF GuardExpired

LEMMA StepIInv == IInv /\ [Next]_vars => IInv'
<1> SUFFICES ASSUME IInv, [Next]_vars
             PROVE  IInv'
  OBVIOUS
<1>1. CASE UNCHANGED vars
  <2>1. calls' \in [Calls -> Call]
    BY <1>1, CallsTyped DEF vars, IInv
  <2> QED
    BY <1>1, <2>1, SessionsTyped, StatesTyped, AgingKeeps DEF vars, IInv
<1>2. CASE Next
  BY <1>2, BeginKeeps, CompleteKeeps, CallFailsKeeps, LogoutKeeps, GuardKeeps,
     GuardExpiredKeeps, SteamAssertsKeeps, DisableKeeps, CreateInviteKeeps, ExpireKeeps
     DEF Next
<1> QED
  BY <1>1, <1>2

LEMMA SpecIInv == Spec => []IInv
BY InitIInv, StepIInv, PTL DEF Spec

(* TypeCorrect: the variables keep their types (auth.service.ts).          *)
THEOREM TypeCorrect == Spec => []TypeOK
<1>1. IInv => TypeOK
  BY DEF IInv
<1> QED
  BY <1>1, SpecIInv, PTL

(* UsesArePaid: an invite's count is the number of players created on it,  *)
(* at most its uses, however many newcomers consume it at once             *)
(* (auth.service.ts, the transaction of the use and the player).           *)
THEOREM UsesArePaid == Spec => []UsesPaid
<1>1. IInv => UsesPaid
  BY DEF IInv
<1> QED
  BY <1>1, SpecIInv, PTL

(* StatesUsedOnce: two sessions never come from one login state, however   *)
(* many requests complete it at once: the delete by id lets one go on.     *)
THEOREM StatesUsedOnce == Spec => []StateUsedOnce
<1>1. IInv => StateUsedOnce
  BY DEF IInv
<1> QED
  BY <1>1, SpecIInv, PTL

(* SessionsAreEarned: a session is of an existing player whom Steam named  *)
(* for the login that opened it (the comparison of return_to).             *)
THEOREM SessionsAreEarned == Spec => []SessionsEarned
<1>1. IInv => SessionsEarned
  BY DEF IInv
<1> QED
  BY <1>1, SpecIInv, PTL
===============================================================================
