------------------------------ MODULE AppShell ------------------------------
(***************************************************************************)
(* The app around both surfaces (workbench/src/AppShell.tsx): the document *)
(* workbench and the console of the gateway, of which one is on screen.    *)
(* The gateway's own page is not part of the app and goes on beside it.    *)
(***************************************************************************)
EXTENDS Console, Workbench

CONSTANT Uses   \* bound: which of the two is used, and how much

VARIABLE surface

shellVars == <<vars, wbVars, surface>>
Panels == Consoles \ Pages
PanelsAway == \A c \in Panels : view[c] = "away" /\ editor[c].view = "away"

\* The desktop app opens on the firewall, a browser on the workbench.
ShellInit ==
  /\ Init /\ WbInit
  /\ surface \in {"redact", "firewall"}
  /\ [console |-> left, work |-> work, surface |-> surface] \in Uses

InConsole ==
  /\ Next
  /\ surface = "redact" => PanelsAway'
  /\ UNCHANGED <<wbVars, surface>>

InWorkbench == surface = "redact" /\ WbNext /\ UNCHANGED <<vars, surface>>

OpenFirewall ==
  /\ surface = "redact" /\ surface' = "firewall"
  /\ Does("switches") /\ CloseWorkbench /\ UNCHANGED vars

\* The panels close in steps of their own before.
OpenRedact ==
  /\ surface = "firewall" /\ surface' = "redact"
  /\ Does("switches") /\ PanelsAway
  /\ UNCHANGED <<vars, review, status, scans, zips, store, sent>>

\* An export that was begun before the switch ends after it.
LateExport ==
  /\ surface = "firewall" /\ \E z \in zips : ZipEnds(z)
  /\ UNCHANGED <<vars, surface>>

ShellNext == InConsole \/ InWorkbench \/ OpenFirewall \/ OpenRedact \/ LateExport

\* The fairness of Console, for the app as a whole.
ShellSpec == ShellInit /\ [][ShellNext]_shellVars /\ \A c \in Consoles : WF_shellVars(Flow(c) /\ UNCHANGED <<wbVars, surface>>)
=============================================================================
