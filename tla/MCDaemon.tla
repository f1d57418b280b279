------------------------------- MODULE MCDaemon -------------------------------
(* Instances of Daemon for TLC. *)
EXTENDS Daemon, TLC

Line(d, w, v, i) == [dry |-> d, wayland |-> w, v2 |-> v, ibus |-> i]

\* Command lines of docs/SAFE-TESTING.md.  The one of the packaged service,
\* Wayland alone, is the third when there is no session bus.
Documented == {Line(TRUE, TRUE, FALSE, "alongside"), Line(FALSE, FALSE, FALSE, "off"),
               Line(FALSE, TRUE, TRUE, "alongside"), Line(FALSE, FALSE, TRUE, "replace")}

\* The packaged service's.
WaylandOnly == {Line(FALSE, TRUE, FALSE, "off")}
=============================================================================
