---------------------------------- MODULE Auth ----------------------------------
(***************************************************************************)
(* Steam logins by invite.  A login begins with a state row, which Steam   *)
(* echoes back; its completion takes the row, checks Steam's assertion,    *)
(* finds the player or creates one on an invite, and opens a session.      *)
(* Every read and write of a handler is a step, so two completions of one  *)
(* state, two newcomers on one invite and an expiry in between all happen. *)
(* Tokens are random and never reused; names and avatars are left out.      *)
(***************************************************************************)
EXTENDS Integers, FiniteSets

CONSTANTS People,    \* Steam accounts
          Invites,   \* invites the operator may issue
          MaxUses,   \* [Invites -> uses allowed]
          States,    \* login states, one per login begun; bounds the runs
          Tokens,    \* session tokens; bounds the runs
          Calls,     \* slots for requests in flight
          NoInvite, NoState, NoToken, Nobody

ASSUME AuthAssumption ==
  /\ MaxUses \in [Invites -> Nat \ {0}]
  /\ NoInvite \notin Invites /\ NoState \notin States /\ NoToken \notin Tokens
  /\ Nobody \notin People
  /\ IsFiniteSet(People)

VARIABLES invites,   \* [Invites -> row: issued, uses, expired, usedBy]
          states,    \* [States -> row: phase, invite]
          players,   \* [People -> status of the row, or "none"]
          sessions,  \* [Tokens -> row: status, owner, and the state it came from]
          asserted,  \* <<state, person>>: return_to and claimed id of Steam's assertions
          calls,     \* [Calls -> request in flight]
          invitedBy  \* [People -> invite whose use created the player] (bookkeeping)

vars == <<invites, states, players, sessions, asserted, calls, invitedBy>>

IdleCall == [step |-> "idle", state |-> NoState, invite |-> NoInvite,
             assertion |-> <<NoState, Nobody>>, token |-> NoToken]

NewInvite == [issued |-> FALSE, uses |-> 0, expired |-> FALSE, usedBy |-> Nobody]

NoSession == [status |-> "none", owner |-> Nobody, from |-> NoState]

Init == /\ invites = [i \in Invites |-> NewInvite]
        /\ states = [s \in States |-> [phase |-> "new", invite |-> NoInvite]]
        /\ players = [p \in People |-> "none"]
        /\ sessions = [t \in Tokens |-> NoSession]
        /\ asserted = {}
        /\ calls = [c \in Calls |-> IdleCall]
        /\ invitedBy = [p \in People |-> NoInvite]

Start(c, call) == calls[c].step = "idle" /\ calls' = [calls EXCEPT ![c] = call]
Go(c, step) == calls' = [calls EXCEPT ![c].step = step]
EndCall(c) == calls' = [calls EXCEPT ![c] = IdleCall]
-------------------------------------------------------------------------------
CreateInvite(i) ==
  /\ ~invites[i].issued
  /\ invites' = [invites EXCEPT ![i].issued = TRUE]
  /\ UNCHANGED <<states, players, sessions, asserted, calls, invitedBy>>

(* classifyInvite: unknown, then expired, then used.                       *)
InviteStatus(i) == IF ~invites[i].issued THEN "invalid"
                   ELSE IF invites[i].expired THEN "expired"
                   ELSE IF invites[i].uses >= MaxUses[i] THEN "used"
                   ELSE "ok"

(* Begin: a code that is given must be redeemable.                         *)
BeginWithInvite(c, i) ==
  /\ InviteStatus(i) = "ok"
  /\ Start(c, [IdleCall EXCEPT !.step = "begin", !.invite = i])
  /\ UNCHANGED <<invites, states, players, sessions, asserted, invitedBy>>

BeginWithout(c) ==
  /\ Start(c, [IdleCall EXCEPT !.step = "begin"])
  /\ UNCHANGED <<invites, states, players, sessions, asserted, invitedBy>>

CreateState(c) ==
  \E s \in States :
    /\ calls[c].step = "begin"
    /\ states[s].phase = "new"
    /\ states' = [states EXCEPT ![s] = [phase |-> "open", invite |-> calls[c].invite]]
    /\ calls' = [calls EXCEPT ![c] = [IdleCall EXCEPT !.step = "cleanup"]]
    /\ UNCHANGED <<invites, players, sessions, asserted, invitedBy>>

(* Expired states go, whoever's they are; a failure is ignored.            *)
Cleanup(c) ==
  /\ calls[c].step = "cleanup"
  /\ states' = [s \in States |-> IF states[s].phase = "expired"
                                 THEN [states[s] EXCEPT !.phase = "gone"] ELSE states[s]]
  /\ EndCall(c)
  /\ UNCHANGED <<invites, players, sessions, asserted, invitedBy>>

(* Steam, at the redirect: asserts who signed in, for the return_to of one *)
(* state.                                                                  *)
SteamAsserts(s, p) ==
  /\ states[s].phase # "new"
  /\ asserted' = asserted \cup {<<s, p>>}
  /\ UNCHANGED <<invites, states, players, sessions, calls, invitedBy>>
-------------------------------------------------------------------------------
(* Complete: a request names a state and carries an assertion.             *)

(* The state is read; an unknown one, or an expired one, which goes, ends  *)
(* the request.                                                            *)
CompleteRead(c, s) ==
  /\ calls[c].step = "idle"
  /\ \/ /\ states[s].phase = "open"
        /\ \E a \in asserted :
             calls' = [calls EXCEPT ![c] = [IdleCall EXCEPT !.step = "take", !.state = s,
                                              !.invite = states[s].invite, !.assertion = a]]
        /\ UNCHANGED states
     \/ /\ states[s].phase = "expired"
        /\ states' = [states EXCEPT ![s].phase = "gone"]
        /\ UNCHANGED calls
  /\ UNCHANGED <<invites, players, sessions, asserted, invitedBy>>

(* Variant: a row that is gone is no reason to stop.                       *)
TakenOrGone(s) == TRUE

(* The row is deleted by id, which fails when it is gone.                  *)
Takes(s) == states[s].phase \in {"open", "expired"}

TakeState(c) ==
  /\ calls[c].step = "take"
  /\ Takes(calls[c].state)
  /\ states' = [states EXCEPT ![calls[c].state].phase = "gone"]
  /\ Go(c, "verify")
  /\ UNCHANGED <<invites, players, sessions, asserted, invitedBy>>

(* Variant: any assertion Steam confirms will do.                          *)
AnyAssertion(c) == TRUE

(* The assertion is for the return_to of this login, its state included.   *)
SameReturnTo(c) == calls[c].assertion[1] = calls[c].state

Verify(c) ==
  /\ calls[c].step = "verify"
  /\ SameReturnTo(c)
  /\ Go(c, "lookup")
  /\ UNCHANGED <<invites, states, players, sessions, asserted, invitedBy>>

Person(c) == calls[c].assertion[2]

(* A player with a row needs no invite; a disabled one is refused; a       *)
(* newcomer without an invite is refused.                                  *)
Lookup(c) ==
  /\ calls[c].step = "lookup"
  /\ \/ players[Person(c)] = "ACTIVE" /\ Go(c, "session")
     \/ players[Person(c)] = "none" /\ calls[c].invite # NoInvite /\ Go(c, "invite")
  /\ UNCHANGED <<invites, states, players, sessions, asserted, invitedBy>>

CheckInvite(c) ==
  /\ calls[c].step = "invite"
  /\ InviteStatus(calls[c].invite) = "ok"
  /\ Go(c, "consume")
  /\ UNCHANGED <<invites, states, players, sessions, asserted, invitedBy>>

(* Variant: the use was checked before the transaction, not in it.         *)
LeftWhenRead(i) == TRUE

HasUsesLeft(i) == invites[i].uses < MaxUses[i]

(* Variant: the count is of the uses that are left.                        *)
CountedDown(i) == invites[i].uses - 1

Counted(i) == invites[i].uses + 1

(* One transaction: it counts the use under the invite's row lock and      *)
(* creates the player, which fails if a row for them appeared meanwhile.   *)
Consume(c) ==
  LET i == calls[c].invite
      p == Person(c)
  IN /\ calls[c].step = "consume"
     /\ HasUsesLeft(i)
     /\ players[p] = "none"
     /\ invites' = [invites EXCEPT ![i].uses = Counted(i),
                                   ![i].usedBy = IF MaxUses[i] = 1 THEN p
                                                 ELSE invites[i].usedBy]
     /\ players' = [players EXCEPT ![p] = "ACTIVE"]
     /\ invitedBy' = [invitedBy EXCEPT ![p] = i]
     /\ Go(c, "session")
     /\ UNCHANGED <<states, sessions, asserted>>

OpenSession(c) ==
  \E t \in Tokens :
    /\ calls[c].step = "session"
    /\ sessions[t].status = "none"
    /\ sessions' = [sessions EXCEPT ![t] = [status |-> "live", owner |-> Person(c),
                                            from |-> calls[c].state]]
    /\ EndCall(c)
    /\ UNCHANGED <<invites, states, players, asserted, invitedBy>>

(* A check of the request fails, or it throws: Steam, the database, a      *)
(* restart.                                                                *)
CallFails(c) == /\ calls[c].step # "idle"
                /\ EndCall(c)
                /\ UNCHANGED <<invites, states, players, sessions, asserted, invitedBy>>
-------------------------------------------------------------------------------
(* Requests with a session token: the guard reads the session (an expired  *)
(* one goes) and its player, then the handler runs.  Logout ends whatever  *)
(* is left of the session.                                                 *)

Guard(c, t) ==
  /\ sessions[t].status = "live"
  /\ players[sessions[t].owner] # "DISABLED"
  /\ Start(c, [IdleCall EXCEPT !.step = "logout", !.token = t])
  /\ UNCHANGED <<invites, states, players, sessions, asserted, invitedBy>>

GuardExpired(t) ==
  /\ sessions[t].status = "expired"
  /\ sessions' = [sessions EXCEPT ![t].status = "gone"]
  /\ UNCHANGED <<invites, states, players, asserted, calls, invitedBy>>

Logout(c) ==
  /\ calls[c].step = "logout"
  /\ sessions' = [sessions EXCEPT ![calls[c].token].status = "gone"]
  /\ EndCall(c)
  /\ UNCHANGED <<invites, states, players, asserted, invitedBy>>
-------------------------------------------------------------------------------
(* Time passes; the operator disables an account.                          *)

Expire ==
  /\ \/ \E i \in Invites : /\ invites[i].issued /\ ~invites[i].expired
                           /\ invites' = [invites EXCEPT ![i].expired = TRUE]
                           /\ UNCHANGED <<states, sessions>>
     \/ \E s \in States : /\ states[s].phase = "open"
                          /\ states' = [states EXCEPT ![s].phase = "expired"]
                          /\ UNCHANGED <<invites, sessions>>
     \/ \E t \in Tokens : /\ sessions[t].status = "live"
                          /\ sessions' = [sessions EXCEPT ![t].status = "expired"]
                          /\ UNCHANGED <<invites, states>>
  /\ UNCHANGED <<players, asserted, calls, invitedBy>>

Disable(p) == /\ players[p] = "ACTIVE"
              /\ players' = [players EXCEPT ![p] = "DISABLED"]
              /\ UNCHANGED <<invites, states, sessions, asserted, calls, invitedBy>>

Begin(c) == \/ \E i \in Invites : BeginWithInvite(c, i)
            \/ BeginWithout(c) \/ CreateState(c) \/ Cleanup(c)

Complete(c) == \/ \E s \in States : CompleteRead(c, s)
               \/ TakeState(c) \/ Verify(c) \/ Lookup(c)
               \/ CheckInvite(c) \/ Consume(c) \/ OpenSession(c)

Next == \/ \E c \in Calls : Begin(c) \/ Complete(c) \/ CallFails(c) \/ Logout(c)
                            \/ \E t \in Tokens : Guard(c, t)
        \/ \E t \in Tokens : GuardExpired(t)
        \/ \E s \in States, p \in People : SteamAsserts(s, p)
        \/ \E p \in People : Disable(p)
        \/ \E i \in Invites : CreateInvite(i)
        \/ Expire

Spec == Init /\ [][Next]_vars
-------------------------------------------------------------------------------
(* TypeOK: the variables have their types.                                 *)
TypeOK ==
  /\ invites \in [Invites -> [issued : BOOLEAN, uses : Nat, expired : BOOLEAN, usedBy : People \cup {Nobody}]]
  /\ states \in [States -> [phase : {"new", "open", "expired", "gone"},
                            invite : Invites \cup {NoInvite}]]
  /\ players \in [People -> {"none", "ACTIVE", "DISABLED"}]
  /\ sessions \in [Tokens -> [status : {"none", "live", "expired", "gone"},
                              owner : People \cup {Nobody}, from : States \cup {NoState}]]
  /\ asserted \subseteq States \X People
  /\ calls \in [Calls -> [step : {"idle", "begin", "cleanup", "take", "verify", "lookup",
                                  "invite", "consume", "session", "logout"},
                          state : States \cup {NoState}, invite : Invites \cup {NoInvite},
                          assertion : (States \cup {NoState}) \X (People \cup {Nobody}),
                          token : Tokens \cup {NoToken}]]
  /\ invitedBy \in [People -> Invites \cup {NoInvite}]

InvitedOn(i) == {p \in People : invitedBy[p] = i}

(* UsesPaid: an invite's count is the number of players it let in, never   *)
(* more than its uses, and a single-use invite remembers the one: however  *)
(* newcomers race, no use is given twice or lost to a login that failed.   *)
UsesPaid ==
  \A i \in Invites :
    /\ invites[i].uses = Cardinality(InvitedOn(i))
    /\ invites[i].uses <= MaxUses[i]
    /\ MaxUses[i] = 1 => \A p \in InvitedOn(i) : invites[i].usedBy = p

(* StateUsedOnce: "One-time use": a login state opens at most one session, *)
(* however many requests complete it at once.                              *)
StateUsedOnce ==
  \A t, u \in Tokens :
    sessions[t].status # "none" /\ sessions[u].status # "none"
      /\ sessions[t].from = sessions[u].from => t = u

(* SessionsEarned: a session belongs to a player that exists and whom      *)
(* Steam named for the very login that opened it ("the exact return_to we  *)
(* sent Steam for this login", steam-openid.ts:46).                        *)
SessionsEarned ==
  \A t \in Tokens :
    sessions[t].status # "none"
      => /\ players[sessions[t].owner] # "none"
         /\ <<sessions[t].from, sessions[t].owner>> \in asserted
===============================================================================
