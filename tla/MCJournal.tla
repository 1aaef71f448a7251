------------------------------ MODULE MCJournal -----------------------------
(* Instances of Journal: a pause and its resume, mutual inverses; a standing *)
(* mission and its ungated cancel; a mail that cannot be unsent.             *)
EXTENDS Journal

CONSTANTS hud, Pause, Resume, Create, Cancel, Mail

TheChannel == {hud}

TheActions == {Pause, Resume, Create, Cancel, Mail}
TheUngated == {Cancel}
TheInverse ==
  [x \in TheActions |-> CASE x = Pause  -> Resume
                          [] x = Resume -> Pause
                          [] x = Create -> Cancel
                          [] OTHER      -> None]
=============================================================================
