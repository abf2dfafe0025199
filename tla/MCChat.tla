-------------------------------- MODULE MCChat --------------------------------
(* Chat on one item, in the scenes that matter.                            *)
EXTENDS Chat, TLC

CONSTANTS item, none

MCItems == {item}

Scene(said, enveloped, dropped, crashed, failed, flipped, ended) ==
    ("frames" :> said) @@ ("envelopes" :> enveloped) @@ ("drops" :> dropped) @@
    ("crashes" :> crashed) @@ ("faults" :> failed) @@ ("flips" :> flipped) @@
    ("ends" :> ended)

MCScenes ==
    { Scene(2, 0, 2, 0, 1, 0, 1),     \* the session: messages, drops, a dead url
      Scene(2, 0, 1, 1, 1, 0, 0),     \* and a crash
      Scene(0, 0, 0, 1, 1, 4, 0),     \* the forwarder: an item comes and goes
      Scene(2, 0, 1, 0, 1, 1, 0),     \* two replies to an item, sent again
      Scene(1, 0, 1, 0, 1, 2, 0),     \* a reply to an item that goes
      Scene(1, 0, 0, 1, 0, 3, 0),     \* a reply around a crash
      Scene(0, 2, 2, 1, 1, 0, 1) }    \* envelopes, lost acknowledgements
=============================================================================
