----------------------------- MODULE MCScaleUp -----------------------------
(* A small instance of ScaleUp for TLC. *)
EXTENDS ScaleUp

\* No job; or two, one of which an idle runner takes as long as no reservation
\* of the pool answers for it: then rounds come to start two runners at once.
MCReports == {[assigned |-> 0, idle |-> 0], [assigned |-> 2, idle |-> 1]}
=============================================================================
