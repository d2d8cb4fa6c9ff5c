------------------------------ MODULE Dialogs -------------------------------
(***************************************************************************)
(* The dialogs of the dashboard page, settings and the details of a model, *)
(* and where the keyboard is.  What the page awaits in one turn of the     *)
(* event loop, the redraw before it moves the focus, is one step.          *)
(***************************************************************************)
EXTENDS Naturals

CONSTANTS
    Ranked,     \* the models an overview may rank
    Targets     \* what settings may be opened at

ASSUME DialogsAssumption == "none" \notin Ranked

VARIABLES
    view,       \* activeDashboardView
    ranking,    \* the models of the overview that is shown
    detail,     \* selectedModelId, and whether the button that opened it is kept
    settings,   \* settingsOpen, settingsTab, settingsReturnFocus
    focus,      \* where the keyboard is: in the page, in a dialog or nowhere
    addForm,    \* showAddRateForm
    mounted,    \* whether the page is loaded and its link was followed
    astray      \* history: whether the keyboard left the dialog in front since it had it, and
                \* whether details came before settings with a ranking, or settings behind
                \* details with a link

dialogVars == <<view, ranking, detail, settings, focus, addForm, mounted, astray>>

None == "none"
Closed == [open |-> FALSE, tab |-> "connections", returnTo |-> "nowhere"]
NoDetail == [model |-> None, trigger |-> FALSE]

\* selectedModelEntry: a model that the overview does not rank has no dialog.
ShowsDetail == detail.model \in ranking
BothAreOpen == settings.open /\ ShowsDetail
InFront == IF ShowsDetail THEN "detail" ELSE IF settings.open THEN "settings" ELSE "page"

\* resolveSettingsTab.
Tab(target) ==
    CASE target \in {"rates", "rates:add", "rate:codex"}         -> "rates"
      [] target \in {"monitoring", "diagnostics", "privacy"} -> target
      [] target = "diagnostic:codex"                         -> "diagnostics"
      [] OTHER                                               -> "connections"

DialogsInit ==
    /\ view = "agents"
    /\ ranking = {}
    /\ detail = NoDetail
    /\ settings = Closed
    /\ focus = "nowhere"
    /\ addForm = FALSE
    /\ mounted = FALSE
    /\ astray = [dropped |-> FALSE, overlaid |-> FALSE]

Astray(dropped, overlaid) ==
    astray' = [dropped |-> dropped, overlaid |-> overlaid]

\* What is in a dialog is gone with it; a page that becomes inert loses the keyboard.
FocusAfter(front) == IF focus = front THEN front ELSE "nowhere"
-----------------------------------------------------------------------------
SelectView(v) ==
    /\ InFront = "page"
    /\ v # view
    /\ view' = v
    /\ focus' = "page"
    /\ UNCHANGED <<ranking, detail, settings, addForm, mounted, astray>>

\* toggleLocale: every element is made anew.
ToggleLocale ==
    /\ InFront = "page"
    /\ focus' = "nowhere"
    /\ detail' = [detail EXCEPT !.trigger = FALSE]
    /\ UNCHANGED <<view, ranking, settings, addForm, mounted, astray>>

\* Faulty variant: an element with the target takes the keyboard, or none does.
FocusOfTarget(target) == IF target = "root" THEN "nowhere" ELSE "settings"

\* The element that has the target, or else the dialog.
FocusOfSettings(target) == "settings"

\* openSettings; active is where the keyboard was.
Opens(target, active) ==
    /\ settings' = [open |-> TRUE, tab |-> Tab(target),
                    returnTo |-> IF settings.open THEN settings.returnTo ELSE active]
    /\ focus' = FocusOfSettings(target)

\* From the page, or from the dialog itself, which can also be behind the details.
OpenSettings(target) ==
    /\ InFront \in {"page", "settings"} \/ focus = "settings"
    /\ \E active \in {"page", focus} : Opens(target, active)
    /\ addForm' = (addForm \/ target = "rates:add")
    /\ Astray(FALSE, astray.overlaid)
    /\ UNCHANGED <<view, ranking, detail, mounted>>

\* The end of onMount follows the link, whatever was opened while the page loaded.
FollowLink(target) ==
    /\ ~mounted
    /\ mounted' = TRUE
    /\ \E active \in {"page", focus} : Opens(target, active)
    /\ addForm' = (addForm \/ target = "rates:add")
    /\ Astray(FALSE, astray.overlaid \/ ShowsDetail)
    /\ UNCHANGED <<view, ranking, detail>>

\* The keyboard returns to where it was when that is still there, or else to the button
\* that opens settings, unless the details of a model make the page inert.
CloseSettings ==
    /\ settings' = Closed
    /\ focus' \in IF ShowsDetail THEN {FocusAfter("detail")} \cup ({"detail"} \cap {settings.returnTo})
                                 ELSE {"page"}
    /\ Astray(ShowsDetail, FALSE)
    /\ UNCHANGED <<view, ranking, detail, addForm, mounted>>

\* openModelDetail, from a row of the ranking or from a chart, which keeps no button.
OpenModelDetail(m) ==
    /\ InFront = "page"
    /\ view = "models" /\ m \in ranking
    /\ \E trigger \in BOOLEAN : detail' = [model |-> m, trigger |-> trigger]
    /\ focus' = "detail"
    /\ Astray(FALSE, FALSE)
    /\ UNCHANGED <<view, ranking, settings, addForm, mounted>>

CloseModelDetail ==
    /\ detail' = NoDetail
    /\ focus' = CASE settings.open                    -> FocusAfter("settings")
                  [] ~settings.open /\ detail.trigger -> "page"
                  [] OTHER                            -> FocusAfter("page")
    /\ Astray(astray.dropped \/ ShowsDetail, FALSE)
    /\ UNCHANGED <<view, ranking, settings, addForm, mounted>>

\* The button of a dialog in front, or of settings behind that have the keyboard.
Close ==
    \/ settings.open /\ "settings" \in {InFront, focus} /\ CloseSettings
    \/ InFront = "detail" /\ CloseModelDetail

\* handleWindowKeydown asks for the selected model, whether its dialog is shown or not.
PressEscape ==
    \/ detail.model # None /\ CloseModelDetail
    \/ detail.model = None /\ settings.open /\ CloseSettings

\* trapDialogFocus keeps the keyboard in a dialog that has it, but nothing is trapped
\* while a model is selected that has no dialog; a keyboard that is elsewhere comes to the
\* dialog in front, to settings behind it or out of the page.
PressTab ==
    /\ InFront # "page"
    /\ \/ /\ focus = InFront
          /\ detail.model # None /\ ~ShowsDetail
          /\ focus' = "nowhere"
          /\ Astray(TRUE, astray.overlaid)
       \/ /\ focus # InFront
          /\ focus' \in {InFront, "nowhere"} \cup (IF settings.open THEN {"settings"} ELSE {})
          /\ Astray(focus' = "nowhere", astray.overlaid)
    /\ UNCHANGED <<view, ranking, detail, settings, addForm, mounted>>

\* configureCustomRateForModel: the details close, and settings open at the rates with
\* the form for the model.
ConfigureRate ==
    /\ InFront = "detail"
    /\ detail' = NoDetail
    /\ Opens("rates", "gone")
    /\ addForm' = TRUE
    /\ Astray(FALSE, FALSE)
    /\ UNCHANGED <<view, ranking, mounted>>

\* toggleAddRateForm.
ToggleAddRateForm ==
    /\ InFront = "settings" /\ settings.tab = "rates"
    /\ addForm' = ~addForm
    /\ focus' = "settings"
    /\ Astray(FALSE, astray.overlaid)
    /\ UNCHANGED <<view, ranking, detail, settings, mounted>>

\* The control that has the keyboard is removed or disabled: the form to add a rate is
\* cancelled or its rate is saved, the button of the empty list has opened it, a rate
\* begins or ends to be edited or is deleted, a connector waits for its answer.
ControlVanishes ==
    /\ settings.open /\ focus = "settings"
    /\ focus' = "nowhere"
    /\ addForm' \in BOOLEAN
    /\ Astray(TRUE, astray.overlaid)
    /\ UNCHANGED <<view, ranking, detail, settings, mounted>>

\* loadOverview: the dialog of a model comes and goes with its entry, and the button in it
\* with the price of the model.
OverviewArrives(models) ==
    LET shows == detail.model \in models IN
    /\ ranking' = models
    /\ \/ /\ shows = ShowsDetail
          /\ focus' \in {focus} \cup (IF shows /\ focus = "detail" THEN {"nowhere"} ELSE {})
       \/ /\ shows # ShowsDetail
          /\ focus' = IF focus = "settings" THEN focus ELSE "nowhere"
    /\ Astray(astray.dropped \/ shows # ShowsDetail \/ focus' # focus,
              shows /\ (astray.overlaid \/ (~ShowsDetail /\ settings.open)))
    /\ UNCHANGED <<view, detail, settings, addForm, mounted>>

DialogsNext ==
    \/ \E v \in {"agents", "models"} : SelectView(v)
    \/ ToggleLocale
    \/ \E target \in Targets : OpenSettings(target) \/ FollowLink(target)
    \/ Close
    \/ \E m \in Ranked : OpenModelDetail(m)
    \/ PressEscape
    \/ PressTab
    \/ ConfigureRate
    \/ ToggleAddRateForm
    \/ ControlVanishes
    \/ \E models \in SUBSET Ranked : OverviewArrives(models)

DialogsSpec == DialogsInit /\ [][DialogsNext]_dialogVars
-----------------------------------------------------------------------------
(* Properties.                                                              *)

\* However settings and details open, close and lead to each other, and whichever link is
\* followed late: a dialog that is alone has the keyboard, which is never left in the page
\* or in a dialog that was closed, and nobody has it only when a control or a dialog went
\* with it; and one dialog lies over the other only by such a link or a new ranking.
FocusIsInFront ==
    /\ BothAreOpen => astray.overlaid
    /\ InFront # "page" /\ ~BothAreOpen =>
           focus = InFront \/ (astray.dropped /\ focus = "nowhere")
=============================================================================
