-------------------------------- MODULE Lobby --------------------------------
(***************************************************************************)
(* The lobby of one node (phase3/lobby.go) as operators on a record: its   *)
(* state and its seats, in the order of JoinedAt.  Buy-ins are positive    *)
(* (phase7/config.go) and not kept.                                        *)
(***************************************************************************)
EXTENDS Integers, Sequences, SequencesExt

CONSTANT MaxSeats

ASSUME SeatsAssumption == MaxSeats \in 1..9

LobbyStates == {"Waiting", "Ready", "Playing"}

NewLobby == [state |-> "Waiting", seats |-> << >>]

\* PlayerIDs: the seat order a node derives for the game.
PlayerIDs(lobby) == [i \in DOMAIN lobby.seats |-> lobby.seats[i].id]

Seated(lobby, id) == Contains(PlayerIDs(lobby), id)

NewSeat(id) == [id |-> id, ready |-> FALSE]

\* Mutant: a player that joins again gets a new seat in place of its old one.
HandleJoin_Rejoin(lobby, id) ==
  IF Seated(lobby, id)
  THEN [lobby EXCEPT !.seats = Append(SelectSeq(@, LAMBDA s : s.id # id), NewSeat(id))]
  ELSE IF lobby.state = "Waiting" /\ Len(lobby.seats) < MaxSeats
       THEN [lobby EXCEPT !.seats = Append(@, NewSeat(id))]
       ELSE lobby

\* HandleJoin; an error leaves the lobby as it is.
HandleJoin(lobby, id) ==
  IF lobby.state = "Waiting" /\ Len(lobby.seats) < MaxSeats /\ ~Seated(lobby, id)
  THEN [lobby EXCEPT !.seats = Append(@, NewSeat(id))]
  ELSE lobby

\* checkAllReady.
CheckAllReady(lobby) ==
  IF /\ Len(lobby.seats) >= MaxSeats
     /\ \A i \in DOMAIN lobby.seats : lobby.seats[i].ready
     /\ lobby.state = "Waiting"
  THEN [lobby EXCEPT !.state = "Ready"]
  ELSE lobby

\* HandleReady: an error for a player that is not seated.
HandleReady(lobby, id) ==
  IF Seated(lobby, id)
  THEN CheckAllReady([lobby EXCEPT !.seats =
         [i \in DOMAIN @ |-> IF @[i].id = id THEN [@[i] EXCEPT !.ready = TRUE] ELSE @[i]]])
  ELSE lobby

\* WaitReady returns once readyCh is closed, which happens on the way to Ready.
WaitReady(lobby) == lobby.state # "Waiting"

SetPlaying(lobby) == [lobby EXCEPT !.state = "Playing"]
=============================================================================
