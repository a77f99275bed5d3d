------------------------------- MODULE Clients ------------------------------
(***************************************************************************)
(* The client side of a user: the core that every client is built on, the  *)
(* terminal dashboard, and the notices it keeps.                           *)
(***************************************************************************)
EXTENDS ClientCore, Tui, Notices

\* What the user is shown is so: by the client core (UiHearsCurrent) and by
\* the terminal interface (ScreenIsTrue); and the notices it saved are found
\* again when it is restarted (NoticesAreKept).
UsersSeeTheTruth == UiHearsCurrent /\ ScreenIsTrue /\ NoticesAreKept
=============================================================================
