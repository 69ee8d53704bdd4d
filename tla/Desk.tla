-------------------------------- MODULE Desk --------------------------------
(***************************************************************************)
(* What runs in an application that embeds the library, beside the wallet: *)
(* the browser transport (Browser), the native portal (Portal) or the QR   *)
(* decoder (QrFrames).  A build has one of the transports, and the decoder *)
(* is a thread-local that neither touches, so a behaviour moves one of     *)
(* them while the other two stay as they were made.                        *)
(***************************************************************************)
EXTENDS Browser, Portal, QrFrames

DeskInit == Init /\ PortalInit /\ QrInit

DeskNext ==
  \/ Next /\ PortalInit /\ QrInit /\ UNCHANGED <<portalVars, qrVars>>
  \/ PortalNext /\ Init /\ QrInit /\ UNCHANGED <<vars, qrVars>>
  \/ QrNext /\ Init /\ PortalInit /\ UNCHANGED <<vars, portalVars>>

\* Nothing that is fair to one of them can happen in the initial states of the
\* others, so that their fairness never asks them to move.
DeskSpec ==
  /\ DeskInit /\ [][DeskNext]_<<vars, portalVars, qrVars>>
  /\ Fairness /\ PortalFairness /\ QrFairness
=============================================================================
