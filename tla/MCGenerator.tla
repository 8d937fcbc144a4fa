---------------------------- MODULE MCGenerator ----------------------------
(* Three proto files, two of which have the same base name, in calls with one  *)
(* and two of them; two versions of pbtools, and builds that fail and resume.  *)
EXTENDS Generator

MCInfiles == {"foo.proto", "other/foo.proto", "bar.proto"}

MCNameOf(f) == IF f = "bar.proto" THEN "bar" ELSE "foo"

Request(infiles, type) == [infiles |-> infiles, module_type |-> type]

MCRequests ==
  {Request(<<"foo.proto">>, "udp_socket"),
   Request(<<"foo.proto">>, "netfilter"),
   Request(<<"bar.proto", "foo.proto">>, "netfilter"),
   Request(<<"foo.proto", "other/foo.proto">>, "udp_socket")}

=============================================================================
