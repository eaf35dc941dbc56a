---------------------------- MODULE MCRelayReload ----------------------------
(***************************************************************************)
(* The QUIC relay that Server.Run starts, and the configuration that it      *)
(* reloads, in one run.  They share no state: part says which of them moves  *)
(* in a behaviour, and the other stays where it started.  There are two      *)
(* clients, sockets enough for one to be routed twice, and two editors.      *)
(***************************************************************************)
EXTENDS QuicRelay, ConfigReload, TLC

CONSTANTS c1, c2, u1, u2

VARIABLE part

MCSymmetry == Permutations(Client) \cup Permutations(Sock)

MCInit ==
  /\ part \in {"relay", "reload"}
  /\ Init
  /\ ReloadInit /\ (part = "relay" => file = Empty)

MCNext ==
  \/ part = "relay" /\ Next /\ UNCHANGED <<part, reloadVars>>
  \/ part = "reload" /\ ReloadNext /\ UNCHANGED <<part, vars>>

MCSpec == MCInit /\ [][MCNext]_<<part, vars, reloadVars>>

\* Every variable of the two has the values that its module declares for it.
RelayReloadTypeOK == TypeOK /\ ReloadTypeOK
=============================================================================
