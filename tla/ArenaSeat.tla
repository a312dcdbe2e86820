------------------------------ MODULE ArenaSeat ------------------------------
(***************************************************************************)
(* What ArenaSession promises its user about a seat in an arena room,      *)
(* whatever sockets, tickets and timers it takes to keep the promise.      *)
(*                                                                         *)
(* A seat is taken by the identity that is active and signed in, it is     *)
(* never carried over to another identity, and when its link is lost it    *)
(* can be regained by the same holder only, and only while the grace       *)
(* period lasts; once that is over the seat is given up.                   *)
(***************************************************************************)
EXTENDS Integers

CONSTANTS
    Profiles,   \* the user profiles
    Nobody,     \* the holder of no seat
    Grace       \* ticks for which a lost seat can be regained

VARIABLES
    who,        \* the active profile and whether it is signed in
    holder,     \* the profile under which the seat is held
    standing,   \* "out", "seated" or "lost"
    left        \* what is left of the grace period, -1 when none is running

seatVars == <<who, holder, standing, left>>

NoGrace == -1

Init ==
    /\ who \in [profile : Profiles, loggedIn : BOOLEAN]
    /\ holder = Nobody
    /\ standing = "out"
    /\ left = NoGrace

Admit ==
    /\ standing = "out"
    /\ who.loggedIn
    /\ holder' = who.profile
    /\ standing' = "seated"
    /\ UNCHANGED <<who, left>>

Lose ==
    /\ standing = "seated"
    /\ standing' = "lost"
    /\ left' = Grace
    /\ UNCHANGED <<who, holder>>

Elapse ==
    /\ standing = "lost"
    /\ left > 0
    /\ left' = left - 1
    /\ UNCHANGED <<who, holder, standing>>

Regain ==
    /\ standing = "lost"
    /\ left > 0
    /\ standing' = "seated"
    /\ left' = NoGrace
    /\ UNCHANGED <<who, holder>>

GiveUp ==
    /\ standing # "out"
    /\ standing' = "out"
    /\ holder' = Nobody
    /\ left' = NoGrace
    /\ UNCHANGED who

\* Another profile becomes active, or the active one signs in or out.
ChangeIdentity ==
    /\ who' \in [profile : Profiles, loggedIn : BOOLEAN]
    /\ who' # who
    /\ standing' = "out"
    /\ holder' = Nobody
    /\ left' = NoGrace

Next == Admit \/ Lose \/ Elapse \/ Regain \/ GiveUp \/ ChangeIdentity

Forfeit == left = 0 /\ GiveUp

Spec ==
    /\ Init
    /\ [][Next]_seatVars
    /\ WF_seatVars(Elapse)
    /\ WF_seatVars(Forfeit)

=============================================================================
