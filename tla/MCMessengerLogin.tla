-------------------------- MODULE MCMessengerLogin --------------------------
(* Instances of MessengerLogin for TLC: the .cfg files choose the goroutines *)
(* alive at one time and what the world around the daemon may do.            *)
EXTENDS MessengerLogin, TLC

(* QR channels are interchangeable. Used for safety only. *)
QRSymmetry == Permutations(QRs)

(* A bound: where codes are scanned and accounts logged out, a behaviour is  *)
(* followed until the last client is made.                                   *)
SessionsBound == {"scan", "logout"} \subseteq world => cur < MaxClients

=============================================================================
