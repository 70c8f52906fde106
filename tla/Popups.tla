------------------------------- MODULE Popups -------------------------------
(***************************************************************************)
(* The shared popups of the pages register and forgot                      *)
(* (modules/account/assets/js/lib/ui/feedback.ts): an alert, the list of   *)
(* supported e-mail providers, and the question before one of their links  *)
(* is opened.  initializeModals puts a second set of handlers on the same  *)
(* elements, and they hide a popup without ending its controller.          *)
(***************************************************************************)
EXTENDS Naturals, Sequences, SequencesExt

CONSTANTS
    Links,          \* sign-up pages of the providers
    NoLink,
    Alerts,         \* alerts the page shows (bound)
    Clicks          \* links the user clicks (bound)

VARIABLES
    alert,          \* shown; the handlers on its close button; alerts so far
    listed,         \* the list is shown
    link,           \* the question: shown, and the link it shows
    attached,       \* the links of the controllers on its buttons
    opened,         \* the links the last click on continue opened
    showing,        \* history: the link that was shown then
    clicks,
    hidden          \* history: the question was hidden past its controller

vars == <<alert, listed, link, attached, opened, showing, clicks, hidden>>

Rest ==
    /\ alert = [shown |-> FALSE, handlers |-> 0, n |-> 0]
    /\ listed = FALSE
    /\ link = [shown |-> FALSE, url |-> NoLink]
    /\ attached = <<>> /\ opened = <<>> /\ showing = NoLink
    /\ clicks = 0 /\ hidden = FALSE

Init == Rest

(***************************************************************************)
(* The alert and the list                                                  *)
(***************************************************************************)

\* An alert over another takes its place, and its handlers join.
ShowAlert ==
    /\ alert.n < Alerts
    /\ alert' = [shown |-> TRUE, handlers |-> alert.handlers + 1, n |-> alert.n + 1]
    /\ UNCHANGED <<listed, link, attached, opened, showing, clicks, hidden>>

\* A click on its button runs them all.
AlertClicked ==
    /\ alert.shown
    /\ alert' = [alert EXCEPT !.shown = FALSE, !.handlers = 0]
    /\ UNCHANGED <<listed, link, attached, opened, showing, clicks, hidden>>

ShowSupportedEmails ==
    /\ ~alert.shown /\ ~listed /\ ~link.shown
    /\ listed' = TRUE
    /\ UNCHANGED <<alert, link, attached, opened, showing, clicks, hidden>>

CloseModal ==
    /\ listed /\ ~link.shown /\ ~alert.shown
    /\ listed' = FALSE
    /\ UNCHANGED <<alert, link, attached, opened, showing, clicks, hidden>>

(***************************************************************************)
(* The question before a link                                              *)
(***************************************************************************)

\* Every question has a controller of its own on the same buttons.
ShowExternalLink(url) ==
    /\ listed /\ ~link.shown /\ ~alert.shown /\ clicks < Clicks
    /\ clicks' = clicks + 1
    /\ link' = [shown |-> TRUE, url |-> url]
    /\ attached' = Append(attached, url)
    /\ UNCHANGED <<alert, listed, opened, showing, hidden>>

\* Mutant: the controller is not closed.
ContinueStaying ==
    /\ link.shown /\ ~alert.shown
    /\ opened' = attached /\ showing' = link.url
    /\ link' = [link EXCEPT !.shown = FALSE]
    /\ UNCHANGED <<alert, listed, attached, clicks, hidden>>

\* The handlers of all controllers run: each opens its link and ends.
Continue ==
    /\ link.shown /\ ~alert.shown
    /\ opened' = attached /\ showing' = link.url
    /\ attached' = <<>>
    /\ link' = [link EXCEPT !.shown = FALSE]
    /\ UNCHANGED <<alert, listed, clicks, hidden>>

CancelLink ==
    /\ link.shown /\ ~alert.shown
    /\ attached' = <<>>
    /\ link' = [link EXCEPT !.shown = FALSE]
    /\ UNCHANGED <<alert, listed, opened, showing, clicks, hidden>>

\* closeExternalLinkModal: the backdrop, and the key Escape before all others.
CloseExternalLink ==
    /\ link.shown
    /\ link' = [link EXCEPT !.shown = FALSE] /\ hidden' = TRUE
    /\ UNCHANGED <<alert, listed, attached, opened, showing, clicks>>

\* The key Escape once no question is shown; the alert's handlers stay.
Escape ==
    /\ ~link.shown
    /\ IF alert.shown THEN alert' = [alert EXCEPT !.shown = FALSE] /\ UNCHANGED listed
       ELSE listed /\ listed' = FALSE /\ UNCHANGED alert
    /\ UNCHANGED <<link, attached, opened, showing, clicks, hidden>>

Next ==
    \/ ShowAlert \/ AlertClicked
    \/ ShowSupportedEmails \/ CloseModal
    \/ \E url \in Links : ShowExternalLink(url)
    \/ Continue \/ CancelLink \/ CloseExternalLink
    \/ Escape

Spec == Init /\ [][Next]_vars

(***************************************************************************)
(* Properties                                                              *)
(***************************************************************************)

\* Continue opens the link the question shows, once, and nothing else, as long
\* as no question was hidden by Escape or by a click beside it.
OpensLinkShown ==
    ~hidden => opened \in {<<>>, <<showing>>}

=============================================================================
