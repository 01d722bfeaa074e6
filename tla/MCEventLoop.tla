---------------------------- MODULE MCEventLoop ----------------------------
(* Two peers for one or two descriptors besides the listening one, with a  *)
(* limit of one client or none, as the command line says.                  *)
EXTENDS EventLoop

ArgumentSet == {"--max", "1", "0", Localhost}
AtoiValues == [a \in ArgumentSet |->
  CASE a = "1" -> 1 [] a = Localhost -> 127 [] OTHER -> 0]
HostAddresses == {Localhost}
FreePorts == {37187}
=============================================================================
