------------------------------ MODULE MCAtLink ------------------------------
(* Instances of AtLink; the constants are given in the .cfg files. *)
EXTENDS AtLink

OneKey == <<"DADDR">>

AllKeys == <<"DADDR", "NWKSKEY", "APPSKEY">>

(* A search that ends where two initialisations overlap: overlapped is     *)
(* never reset and ModemMatchesNvs says nothing from there on.             *)
StopAtOverlap == ~overlapped
=============================================================================
