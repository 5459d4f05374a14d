-------------------------------- MODULE MCKbd --------------------------------
(* The sets of keys for the model checking of Kbd. *)
EXTENDS Kbd

AllKeys   == {"A", "LShift", "Unknown", "Home", "PrintScreen", "Pause"}
KnownKeys == {"A", "Home"}

=============================================================================
