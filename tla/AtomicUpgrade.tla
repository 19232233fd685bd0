---------------------------- MODULE AtomicUpgrade ----------------------------
(***************************************************************************)
(* What px-oci-mon promises about the Portworx installation on its node:   *)
(* the installed tree is replaced as a whole or not at all, and the        *)
(* portworx service is only ever started on a whole tree.  OciSwitch is    *)
(* the detailed specification that moves the tree part by part.            *)
(***************************************************************************)
CONSTANTS Images,   \* the PX images
          None      \* no image

VARIABLES inst,     \* the image installed on the node, or None
          busy,     \* a switch from one image to another is under way
          live      \* the image the portworx service runs, or None

avars == <<inst, busy, live>>

AInit == /\ inst \in Images \union {None}
         /\ busy = FALSE
         /\ live \in {inst, None}

\* A switch begins; nothing is visible of it yet.
Begin == /\ ~busy
         /\ busy' = TRUE
         /\ UNCHANGED <<inst, live>>

\* The switch ends with the whole tree of a new image.
Commit == /\ busy
          /\ busy' = FALSE
          /\ inst' \in Images
          /\ UNCHANGED live

\* The switch is given up and the earlier tree is back.
Abort == /\ busy
         /\ busy' = FALSE
         /\ UNCHANGED <<inst, live>>

\* The installation is removed from the node.
Remove == /\ ~busy
          /\ inst' = None
          /\ UNCHANGED <<busy, live>>

\* The service is stopped; this is allowed in the middle of a switch.
Stop == /\ live' = None
        /\ UNCHANGED <<inst, busy>>

\* The service is (re)started, outside of a switch, on an installed image.
Start == /\ ~busy
         /\ inst # None
         /\ live' = inst
         /\ UNCHANGED <<inst, busy>>

ANext == Begin \/ Commit \/ Abort \/ Remove \/ Stop \/ Start

ASpec == AInit /\ [][ANext]_avars
=============================================================================
