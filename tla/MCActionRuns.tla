----------------------------- MODULE MCActionRuns -----------------------------
EXTENDS ActionRuns

CONSTANTS p1, p2, img, old, box, amy, bob, key, root

MCPackages == {p1, p2}
MCObjects == {img, old, box}
MCClassOf == [o \in MCObjects |-> CASE o = img -> "image_dangling"
                                    [] o = old -> "image_unused"
                                    [] OTHER -> "container_stopped"]
MCOrphans == {p1, p2}
MCUsers == {amy, bob}
MCTexts == {key}
MCMounts == {root}
=============================================================================
