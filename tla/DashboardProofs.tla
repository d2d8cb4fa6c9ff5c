--------------------------- MODULE DashboardProofs ---------------------------
(***************************************************************************)
(* Proofs about the page: where the keyboard is (Dialogs), what settings   *)
(* list (SettingsForms), what the chart shows (TrendChart), what the data  *)
(* say (Dashboard) and which cards there are (AgentCards), for any models, *)
(* rates, buckets and answers.                                             *)
(***************************************************************************)
EXTENDS Dashboard, Dialogs, SettingsForms, TrendChart, AgentCards, FiniteSetTheorems,
        WellFoundedInduction, TLAPS
-----------------------------------------------------------------------------
(* The dialogs.                                                             *)

\* The record of detail, that of settings and the history.
DialogsTypeOK ==
    /\ ranking \subseteq Ranked
    /\ detail \in [model : Ranked \cup {None}, trigger : BOOLEAN]
    /\ settings.open \in BOOLEAN
    /\ astray \in [dropped : BOOLEAN, overlaid : BOOLEAN]

\* A dialog that is alone has the keyboard, or it went with a control or a dialog.
HasTheFocus(dialog) == focus = dialog \/ (astray.dropped /\ focus = "nowhere")

\* Which of the dialogs are open, and where the keyboard is then.
DialogsHoldTheFocus ==
    /\ BothAreOpen => astray.overlaid
    /\ settings.open /\ ~ShowsDetail => HasTheFocus("settings")
    /\ ShowsDetail /\ ~settings.open => HasTheFocus("detail")
    /\ ~settings.open => focus # "settings"

DialogsInv == DialogsTypeOK /\ DialogsHoldTheFocus

LEMMA InitDialogs == DialogsInit => DialogsInv
  BY DialogsAssumption DEF DialogsInit, DialogsInv, DialogsTypeOK, DialogsHoldTheFocus,
     HasTheFocus, BothAreOpen, ShowsDetail, Closed, NoDetail, None

LEMMA NextDialogs == DialogsInv /\ [DialogsNext]_dialogVars => DialogsInv'
<1> SUFFICES ASSUME DialogsInv, [DialogsNext]_dialogVars PROVE DialogsInv'
  OBVIOUS
<1> USE DialogsAssumption DEF DialogsInv, DialogsTypeOK, DialogsHoldTheFocus, HasTheFocus,
        BothAreOpen, ShowsDetail, InFront, Closed, NoDetail, None, FocusAfter, Astray
<1>0. None \notin Ranked
  OBVIOUS
<1>1. ASSUME NEW v, SelectView(v) PROVE DialogsInv'
  BY <1>1 DEF SelectView
<1>2. CASE ToggleLocale
  BY <1>2 DEF ToggleLocale
<1>3. ASSUME NEW target, OpenSettings(target) \/ FollowLink(target) PROVE DialogsInv'
  <2>1. settings'.open = TRUE /\ focus' = "settings"
    BY <1>3 DEF OpenSettings, FollowLink, Opens, FocusOfSettings
  <2>2. PICK overlaid \in BOOLEAN :
            /\ astray' = [dropped |-> FALSE, overlaid |-> overlaid]
            /\ astray.overlaid \/ (FollowLink(target) /\ ShowsDetail) => overlaid
    BY <1>3 DEF OpenSettings, FollowLink
  <2>3. UNCHANGED <<ranking, detail>>
    BY <1>3 DEF OpenSettings, FollowLink
  <2>4. BothAreOpen' => astray'.overlaid
    BY <1>3, <2>2, <2>3 DEF OpenSettings
  <2> QED
    BY <2>1, <2>2, <2>3, <2>4
<1>4. CASE CloseSettings
  BY <1>4 DEF CloseSettings
<1>5. CASE CloseModelDetail
  BY <1>5 DEF CloseModelDetail
<1>6. ASSUME NEW m, OpenModelDetail(m) PROVE DialogsInv'
  BY <1>6 DEF OpenModelDetail
<1>7. CASE ConfigureRate
  <2>1. settings'.open = TRUE /\ focus' = "settings"
    BY <1>7 DEF ConfigureRate, Opens, FocusOfSettings
  <2>2. ranking' = ranking /\ detail' = NoDetail /\ astray' = [dropped |-> FALSE, overlaid |-> FALSE]
    BY <1>7 DEF ConfigureRate
  <2> QED
    BY <1>0, <2>1, <2>2
<1>8. CASE ToggleAddRateForm
  BY <1>8 DEF ToggleAddRateForm
<1>9. CASE PressTab
  <2>1. UNCHANGED <<ranking, detail, settings>> /\ InFront # "page"
    BY <1>9 DEF PressTab
  <2>2. PICK dropped \in BOOLEAN :
            astray' = [dropped |-> dropped, overlaid |-> astray.overlaid]
    BY <1>9 DEF PressTab
  <2>3. focus' = "nowhere" => astray'.dropped
    BY <1>9 DEF PressTab
  <2>4. /\ focus' \in {InFront, "nowhere", "settings"}
        /\ focus' = "settings" => settings.open
    BY <1>9, <1>0 DEF PressTab
  <2> QED
    BY <2>1, <2>2, <2>3, <2>4
<1>10. CASE ControlVanishes
  BY <1>10 DEF ControlVanishes
<1>11. ASSUME NEW models \in SUBSET Ranked, OverviewArrives(models) PROVE DialogsInv'
  BY <1>11 DEF OverviewArrives
<1>12. CASE UNCHANGED dialogVars
  BY <1>12 DEF dialogVars
<1> QED
  BY <1>1, <1>2, <1>3, <1>4, <1>5, <1>6, <1>7, <1>8, <1>9, <1>10, <1>11, <1>12
     DEF DialogsNext, Close, PressEscape

\* In whatever order settings and details open, close and lead to each other, however late
\* a link is followed and whatever vanishes: a dialog that is alone has the keyboard, or
\* nobody has it because a control or a dialog went with it, and one dialog lies over the
\* other only by such a link or a new ranking.
THEOREM DialogsHaveTheFocus == DialogsSpec => []FocusIsInFront
<1>1. DialogsInv => FocusIsInFront
  BY DEF DialogsInv, DialogsTypeOK, DialogsHoldTheFocus, HasTheFocus, FocusIsInFront, InFront,
     BothAreOpen, ShowsDetail
<1> QED
  BY <1>1, InitDialogs, NextDialogs, PTL DEF DialogsSpec

-----------------------------------------------------------------------------
(* The lists in settings.                                                   *)

Items == Rates \cup Connectors
Values == {NoItem, "cheap", "dear", "connected", "skipped"}

FormsTypeOK ==
    /\ stored \in [Items -> Values]
    /\ listed \in [Items -> Values]
    /\ current \in [Items -> BOOLEAN]
    /\ \A call \in calls :
          call = [kind |-> call.kind, item |-> call.item, serial |-> call.serial,
                  isAnswered |-> call.isAnswered]
    /\ \A entry \in told :
          entry = [call |-> entry.call, list |-> entry.list, isLast |-> entry.isLast]
    /\ \A entry \in told : entry.list \in [ItemsLike(entry.call.item) -> Values]
    /\ \A entry \in told : entry.isLast \in BOOLEAN
    /\ lost \in Nat

\* A call that is not over tells item i yet.
WillBeTold(i) == \E call \in calls : i \in ItemsLike(call.item)

\* The last list with item i, on its way or shown, has it as it is stored.
IsToldLast(i) ==
    /\ \A entry \in told : i \in DOMAIN entry.list /\ entry.isLast => entry.list[i] = stored[i]
    /\ current[i] => listed[i] = stored[i]

FormsInv ==
    /\ FormsTypeOK
    /\ lost = 0 => \A i \in Items : WillBeTold(i) \/ IsToldLast(i)

\* Rates are told together, and so are connectors.
LEMMA LikesOfItems ==
    /\ \A i \in Items : i \in ItemsLike(i)
    /\ \A item : ItemsLike(item) \subseteq Items
  BY DEF Items, ItemsLike

LEMMA InitForms == FormsInit => FormsInv
<1> SUFFICES ASSUME FormsInit PROVE FormsInv
  OBVIOUS
<1>1. FormsTypeOK
  BY DEF FormsInit, FormsTypeOK, Items, Values, NoItem, Load
<1>2. \A i \in Rates : WillBeTold(i)
  <2> SUFFICES ASSUME NEW i \in Rates PROVE WillBeTold(i)
    OBVIOUS
  <2>1. (CHOOSE r \in Rates : TRUE) \in Rates
    OBVIOUS
  <2> QED
    BY <2>1 DEF FormsInit, WillBeTold, Load, ItemsLike
<1>3. \A i \in Connectors : WillBeTold(i)
  <2> SUFFICES ASSUME NEW i \in Connectors PROVE WillBeTold(i)
    OBVIOUS
  <2>1. (CHOOSE c \in Connectors : TRUE) \in Connectors
    OBVIOUS
  <2> QED
    BY <2>1, FormsAssumption DEF FormsInit, WillBeTold, Load, ItemsLike
<1> QED
  BY <1>1, <1>2, <1>3 DEF FormsInv, Items

\* A step of the person, or one that only adds to the calls.
LEMMA MoreCallsKeep ==
    ASSUME FormsInv, UNCHANGED <<stored, listed, told, lost, current>>, calls \subseteq calls',
           \A call \in calls' \ calls :
              call = [kind |-> call.kind, item |-> call.item, serial |-> call.serial,
                      isAnswered |-> call.isAnswered]
    PROVE  FormsInv'
<1>1. FormsTypeOK'
  BY DEF FormsInv, FormsTypeOK
<1>2. \A i : WillBeTold(i) => WillBeTold(i)'
  BY DEF WillBeTold
<1>3. \A i : IsToldLast(i) => IsToldLast(i)'
  BY DEF IsToldLast
<1> QED
  BY <1>1, <1>2, <1>3 DEF FormsInv

\* A change is of one item, and its call will tell that and the ones like it.
LEMMA AnswersKeeps ==
    ASSUME FormsInv, NEW call \in calls, Answers(call)
    PROVE  FormsInv'
<1> DEFINE answered == [kind |-> call.kind, item |-> call.item, serial |-> call.serial,
                        isAnswered |-> TRUE]
<1>1. PICK v \in Values : stored' = [stored EXCEPT ![call.item] = v]
  BY DEF Answers, Applied, ValuesOf, Values, NoItem
<1>2. UNCHANGED <<listed, told, lost, current>>
  BY DEF Answers
<1>3. FollowedBy(call) = {answered}
  BY DEF FollowedBy, FormsInv, FormsTypeOK
<1>4. calls' = (calls \ {call}) \cup {answered}
  BY <1>3 DEF Answers
<1>5. FormsTypeOK'
  <2>1. \A c \in calls' : c = [kind |-> c.kind, item |-> c.item, serial |-> c.serial,
                               isAnswered |-> c.isAnswered]
    BY <1>4 DEF FormsInv, FormsTypeOK
  <2> QED
    BY <1>1, <1>2, <2>1 DEF FormsInv, FormsTypeOK
<1>6. \A i \in Items : WillBeTold(i) => WillBeTold(i)'
  <2>1. answered \in calls' /\ answered.item = call.item
    BY <1>4
  <2>2. \A other \in calls : \E same \in calls' : same.item = other.item
    BY <1>4, <2>1
  <2> QED
    BY <2>2 DEF WillBeTold
<1>7. call.item \in Items => WillBeTold(call.item)'
  <2>1. answered \in calls' /\ answered.item = call.item
    BY <1>4
  <2> QED
    BY <2>1, LikesOfItems DEF WillBeTold
<1>8. \A i \in Items \ {call.item} : stored'[i] = stored[i]
  BY <1>1 DEF FormsInv, FormsTypeOK
<1>9. \A i \in Items \ {call.item} : IsToldLast(i) => IsToldLast(i)'
  BY <1>2, <1>8 DEF IsToldLast
<1> QED
  BY <1>2, <1>5, <1>6, <1>7, <1>9 DEF FormsInv

LEMMA FailsKeeps ==
    ASSUME FormsInv, NEW call \in calls, Fails(call)
    PROVE  FormsInv'
<1>1. stored' = stored \/ \E v \in Values : stored' = [stored EXCEPT ![call.item] = v]
  BY DEF Fails, Applied, ValuesOf, Values, NoItem
<1>2. lost' = lost + 1 /\ UNCHANGED <<listed, told, current>>
  BY DEF Fails
<1>3. calls' \subseteq calls
  BY DEF Fails
<1>4. stored' \in [Items -> Values]
  BY <1>1 DEF FormsInv, FormsTypeOK
<1> QED
  BY <1>2, <1>3, <1>4 DEF FormsInv, FormsTypeOK

\* A list that is told is that of what is stored, and the last of its items.
LEMMA TellListKeeps ==
    ASSUME FormsInv, NEW call \in calls, TellList(call)
    PROVE  FormsInv'
<1> DEFINE items == ItemsLike(call.item)
           entry == [call |-> call, list |-> [i \in items |-> stored[i]], isLast |-> TRUE]
<1>1. /\ told' = {Passed(e, items) : e \in told} \cup {entry}
      /\ UNCHANGED <<stored, listed, lost>> /\ calls' = calls \ {call}
      /\ current' = [i \in DOMAIN current |-> current[i] /\ i \notin items]
  BY DEF TellList
<1>2. entry.list \in [ItemsLike(entry.call.item) -> Values]
  BY LikesOfItems DEF FormsInv, FormsTypeOK
<1> HIDE DEF items
<1>3. ASSUME NEW e \in told
      PROVE  Passed(e, items) = [call |-> e.call, list |-> e.list,
                                 isLast |-> IF DOMAIN e.list = items THEN FALSE ELSE e.isLast]
  <2>1. e = [call |-> e.call, list |-> e.list, isLast |-> e.isLast]
    BY DEF FormsInv, FormsTypeOK
  <2>2. CASE DOMAIN e.list = items
    <3>1. Passed(e, items) = [e EXCEPT !.isLast = FALSE]
      BY <2>2 DEF Passed
    <3> QED
      BY <2>1, <2>2, <3>1
  <2>3. CASE DOMAIN e.list # items
    BY <2>1, <2>3 DEF Passed
  <2> QED
    BY <2>2, <2>3
<1>8. ASSUME NEW e \in told
      PROVE  /\ Passed(e, items) = [call |-> e.call, list |-> e.list, isLast |-> Passed(e, items).isLast]
             /\ Passed(e, items).call = e.call /\ Passed(e, items).list = e.list
             /\ Passed(e, items).isLast \in BOOLEAN
             /\ DOMAIN e.list = items => ~Passed(e, items).isLast
             /\ Passed(e, items).isLast => e.isLast
  <2>1. e.isLast \in BOOLEAN
    BY DEF FormsInv, FormsTypeOK
  <2>2. CASE DOMAIN e.list = items
    <3>1. Passed(e, items) = [call |-> e.call, list |-> e.list, isLast |-> FALSE]
      BY <1>3, <2>2
    <3> QED
      BY <2>2, <3>1
  <2>3. CASE DOMAIN e.list # items
    <3>1. Passed(e, items) = [call |-> e.call, list |-> e.list, isLast |-> e.isLast]
      BY <1>3, <2>3
    <3> QED
      BY <2>1, <2>3, <3>1
  <2> QED
    BY <2>2, <2>3
<1>4. FormsTypeOK'
  <2>1. current' \in [Items -> BOOLEAN]
    <3>1. current' = [i \in Items |-> current[i] /\ i \notin items]
      <4>1. DOMAIN current = Items
        BY DEF FormsInv, FormsTypeOK
      <4> QED
        BY <1>1, <4>1, Zenon
    <3>2. ASSUME NEW i \in Items PROVE (current[i] /\ i \notin items) \in BOOLEAN
      BY Zenon
    <3> QED
      BY <3>1, <3>2, Zenon
  <2>2. ASSUME NEW e \in told'
        PROVE  /\ e = [call |-> e.call, list |-> e.list, isLast |-> e.isLast]
               /\ e.list \in [ItemsLike(e.call.item) -> Values] /\ e.isLast \in BOOLEAN
    <3>1. CASE e = entry
      BY <1>2, <3>1
    <3>2. ASSUME NEW f \in told, e = Passed(f, items)
          PROVE  /\ e = [call |-> e.call, list |-> e.list, isLast |-> e.isLast]
                 /\ e.list \in [ItemsLike(e.call.item) -> Values] /\ e.isLast \in BOOLEAN
      <4>1. f.list \in [ItemsLike(f.call.item) -> Values]
        BY DEF FormsInv, FormsTypeOK
      <4> QED
        BY <1>8, <3>2, <4>1
    <3> QED
      BY <1>1, <2>2, <3>1, <3>2
  <2> QED
    BY <1>1, <2>1, <2>2 DEF FormsInv, FormsTypeOK
<1>5. \A i \in items : IsToldLast(i)'
  <2> SUFFICES ASSUME NEW i \in items PROVE IsToldLast(i)'
    OBVIOUS
  <2>1. ~current'[i]
    BY <1>1, LikesOfItems DEF FormsInv, FormsTypeOK, items
  <2>2. ASSUME NEW e \in told, i \in DOMAIN Passed(e, items).list
        PROVE  ~Passed(e, items).isLast
    <3>1. DOMAIN e.list = ItemsLike(e.call.item)
      BY DEF FormsInv, FormsTypeOK
    <3>2. i \in ItemsLike(e.call.item) /\ i \in ItemsLike(call.item)
      BY <1>8, <2>2, <3>1 DEF items
    <3>3. ItemsLike(e.call.item) = ItemsLike(call.item)
      BY <3>2, FormsAssumption DEF ItemsLike
    <3> QED
      BY <1>8, <3>1, <3>3 DEF items
  <2>3. entry.list[i] = stored'[i]
    BY <1>1
  <2> QED
    BY <1>1, <2>1, <2>2, <2>3 DEF IsToldLast
<1>6. ASSUME NEW i \in Items \ items, WillBeTold(i)
      PROVE  WillBeTold(i)'
  BY <1>1, <1>6 DEF WillBeTold, items
<1>7. ASSUME NEW i \in Items \ items, IsToldLast(i)
      PROVE  IsToldLast(i)'
  <2>1. i \notin DOMAIN entry.list
    OBVIOUS
  <2>2. current'[i] = current[i]
    BY <1>1 DEF FormsInv, FormsTypeOK
  <2>3. \A e \in told : i \in DOMAIN Passed(e, items).list /\ Passed(e, items).isLast =>
            Passed(e, items).list[i] = stored[i]
    BY <1>7, <1>8 DEF IsToldLast
  <2> QED
    BY <1>1, <1>7, <2>1, <2>2, <2>3 DEF IsToldLast
<1> QED
  BY <1>1, <1>4, <1>5, <1>6, <1>7 DEF FormsInv

\* A list arrives, in whatever order.
LEMMA ListArrivesKeeps ==
    ASSUME FormsInv, NEW entry \in told, ListArrives(entry)
    PROVE  FormsInv'
<1> DEFINE items == DOMAIN entry.list
<1>1. /\ told' = told \ {entry} /\ UNCHANGED <<stored, calls, lost>>
      /\ listed' = [i \in Items |-> IF i \in items THEN entry.list[i] ELSE listed[i]]
      /\ current' = [i \in Items |-> IF i \in items THEN entry.isLast ELSE current[i]]
  BY DEF ListArrives, FormsInv, FormsTypeOK
<1>2. FormsTypeOK'
  BY <1>1 DEF FormsInv, FormsTypeOK
<1>3. ASSUME NEW i \in Items, IsToldLast(i)
      PROVE  IsToldLast(i)'
  BY <1>1, <1>3 DEF IsToldLast
<1>4. \A i : WillBeTold(i) => WillBeTold(i)'
  BY <1>1 DEF WillBeTold
<1> QED
  BY <1>1, <1>2, <1>3, <1>4 DEF FormsInv

LEMMA NextForms == FormsInv /\ [FormsNext]_formVars => FormsInv'
<1> SUFFICES ASSUME FormsInv, [FormsNext]_formVars PROVE FormsInv'
  OBVIOUS
<1>1. CASE OpenRates \/ DiscoveryIsOver \/ ToggleAddForm \/ CancelEdit
  BY <1>1, MoreCallsKeep DEF OpenRates, DiscoveryIsOver, LoadsAgain, ToggleAddForm, CancelEdit, Load
<1>2. ASSUME NEW r \in Rates, StartEdit(r) \/ Save(r) \/ Update(r) \/ Delete(r)
      PROVE  FormsInv'
  BY <1>2, MoreCallsKeep DEF StartEdit, Save, Update, Delete, Sends, Change
<1>3. ASSUME NEW c \in Connectors, Configure(c)
      PROVE  FormsInv'
  BY <1>3, MoreCallsKeep DEF Configure, Sends, Change
<1>4. CASE UNCHANGED formVars
  BY <1>4, MoreCallsKeep DEF formVars
<1> QED
  BY <1>1, <1>2, <1>3, <1>4, AnswersKeeps, FailsKeeps, TellListKeeps, ListArrivesKeeps DEF FormsNext

\* When every call is over and none failed, settings list what the daemon has, for any
\* rates, connectors and number of changes and loads that overlap, unless the list that is
\* shown was overtaken by one that was told later.
THEOREM ListsShown == FormsSpec => []ListsAreShown
<1>1. FormsInv => ListsAreShown
  BY DEF FormsInv, FormsTypeOK, WillBeTold, IsToldLast, ListsAreShown
<1> QED
  BY <1>1, InitForms, NextForms, PTL DEF FormsSpec

-----------------------------------------------------------------------------
(* The chart.                                                               *)

\* A drag began where buckets were shown.
IsDrag(origin) ==
    \E at \in 0 .. Width, start \in Nat, size \in Nat \ {0} :
        origin = [at |-> at, viewStart |-> start, shown |-> start .. (start + size - 1)]

ChartInv ==
    /\ total \in Nat
    /\ viewStart \in Nat
    /\ viewSize \in Nat
    /\ panOrigin = NoPan \/ IsDrag(panOrigin)

\* The lesser and the greater of two numbers.
LEMMA OfTwo ==
    ASSUME NEW m \in Int, NEW n \in Int
    PROVE  /\ Min({m, n}) = (IF m <= n THEN m ELSE n)
           /\ Max({m, n}) = (IF m >= n THEN m ELSE n)
  BY DEF Min, Max

LEMMA BetweenIs ==
    ASSUME NEW low \in Int, NEW n \in Int, NEW high \in Int, low <= high
    PROVE  /\ Between(low, n, high) \in low .. high
           /\ n \in low .. high => Between(low, n, high) = n
           /\ n < low => Between(low, n, high) = low
           /\ n > high => Between(low, n, high) = high
<1>1. Min({n, high}) = (IF n <= high THEN n ELSE high)
  BY OfTwo
<1>2. Min({n, high}) \in Int
  BY <1>1
<1>3. Between(low, n, high) = IF low >= Min({n, high}) THEN low ELSE Min({n, high})
  BY <1>2, OfTwo DEF Between
<1> QED
  BY <1>1, <1>3

\* A quotient is rounded to a number, of a greater dividend to no smaller one.
LEMMA RoundedIs ==
    ASSUME NEW w \in Nat \ {0}, NEW m \in Int, NEW n \in Int
    PROVE  /\ Rounded(m, w) \in Int
           /\ m <= n => Rounded(m, w) <= Rounded(n, w)
           /\ Rounded(0, w) = 0
  BY DEF Rounded

LEMMA RoundedShift ==
    ASSUME NEW w \in Nat \ {0}, NEW n \in Int, NEW k \in Int
    PROVE  Rounded(n + w * k, w) = Rounded(n, w) + k
  BY DEF Rounded

LEMMA Product ==
    ASSUME NEW m \in Nat, NEW n \in Nat, NEW w \in Nat, m <= w
    PROVE  /\ m * n \in Nat
           /\ m * n <= w * n
           /\ m * (0 - n) = 0 - m * n
  OBVIOUS

\* What is shown are some of the buckets, and not too few.
LEMMA ShownBuckets ==
    ASSUME ChartInv
    PROVE  /\ Smallest \in 0 .. total
           /\ total > 0 => Smallest > 0
           /\ Size \in Smallest .. total
           /\ Start \in 0 .. (total - Size)
           /\ viewSize # WholeRange /\ viewSize \in Smallest .. total => Size = viewSize
           /\ viewSize = WholeRange => Size = total
           /\ viewStart \in 0 .. (total - Size) => Start = viewStart
<1>1. Smallest \in 0 .. total /\ (total > 0 => Smallest > 0)
  BY OfTwo DEF ChartInv, Smallest, MINIMUM_TREND_BUCKETS
<1>2. /\ Size \in Smallest .. total
      /\ viewSize # WholeRange /\ viewSize \in Smallest .. total => Size = viewSize
      /\ viewSize = WholeRange => Size = total
  <2> DEFINE n == IF viewSize = WholeRange THEN total ELSE viewSize
  <2>1. n \in Int /\ total \in Int
    BY DEF ChartInv
  <2>2. Size = Between(Smallest, n, total)
    BY DEF Size
  <2> HIDE DEF n
  <2>3. Size \in Smallest .. total /\ (n \in Smallest .. total => Size = n)
    BY <1>1, <2>1, <2>2, BetweenIs
  <2>4. total \in Smallest .. total
    BY <1>1, <2>1
  <2> QED
    BY <2>3, <2>4 DEF n
<1>3. /\ Start \in 0 .. (total - Size)
      /\ viewStart \in 0 .. (total - Size) => Start = viewStart
  BY <1>1, <1>2, BetweenIs DEF ChartInv, Start
<1> QED
  BY <1>1, <1>2, <1>3

\* What the pointer is at moves by no more than what the part shrinks by.
LEMMA Moved ==
    ASSUME NEW at \in 0 .. Width, NEW n \in Nat
    PROVE  /\ Rounded(at * n, Width) \in 0 .. n
           /\ Rounded(at * (0 - n), Width) \in (0 - n) .. 0
<1>1. at * n \in Nat /\ at * n <= Width * n /\ at * (0 - n) = 0 - at * n
  BY Product, ChartAssumption
<1>2. Width * n \in Nat /\ Width * (0 - n) = 0 - Width * n
  BY Product, ChartAssumption
<1>3. Rounded(0, Width) = 0
  BY RoundedIs, ChartAssumption
<1>4. /\ Rounded(0 + Width * n, Width) = Rounded(0, Width) + n
      /\ Rounded(0 + Width * (0 - n), Width) = Rounded(0, Width) + (0 - n)
  <2>1. n \in Int /\ 0 - n \in Int /\ 0 \in Int
    OBVIOUS
  <2> QED
    BY <2>1, RoundedShift, ChartAssumption
<1>5. Rounded(Width * n, Width) = n /\ Rounded(0 - Width * n, Width) = 0 - n
  <2>1. 0 + Width * n = Width * n /\ 0 + (0 - Width * n) = 0 - Width * n
    BY <1>2
  <2> QED
    BY <1>2, <1>3, <1>4, <2>1
<1>6. 0 <= at * n /\ 0 - Width * n <= 0 - at * n /\ 0 - at * n <= 0
  BY <1>1, <1>2
<1>7. /\ Rounded(0, Width) <= Rounded(at * n, Width)
      /\ Rounded(at * n, Width) <= Rounded(Width * n, Width)
      /\ Rounded(0 - Width * n, Width) <= Rounded(0 - at * n, Width)
      /\ Rounded(0 - at * n, Width) <= Rounded(0, Width)
      /\ Rounded(at * n, Width) \in Int /\ Rounded(0 - at * n, Width) \in Int
  <2> DEFINE p == at * n
             q == Width * n
  <2>1. p \in Nat /\ q \in Nat /\ 0 <= p /\ p <= q /\ 0 - q <= 0 - p /\ 0 - p <= 0
    BY <1>1, <1>2, <1>6
  <2> HIDE DEF p, q
  <2>2. p \in Int /\ q \in Int /\ 0 - p \in Int /\ 0 - q \in Int /\ 0 \in Int
    BY <2>1
  <2>3. \A w \in Nat \ {0}, m, k \in Int :
            Rounded(m, w) \in Int /\ (m <= k => Rounded(m, w) <= Rounded(k, w))
    BY RoundedIs
  <2>4. /\ Rounded(0, Width) <= Rounded(p, Width)
        /\ Rounded(p, Width) <= Rounded(q, Width)
        /\ Rounded(0 - q, Width) <= Rounded(0 - p, Width)
        /\ Rounded(0 - p, Width) <= Rounded(0, Width)
        /\ Rounded(p, Width) \in Int /\ Rounded(0 - p, Width) \in Int
    BY <2>1, <2>2, <2>3, ChartAssumption
  <2> QED
    BY <2>4 DEF p, q
<1> QED
  BY <1>1, <1>3, <1>5, <1>7

LEMMA SizesOfZoom ==
    ASSUME ChartInv
    PROVE  /\ SizeInward \in Smallest .. Size
           /\ SizeOutward \in Size .. total
<1>1. Size \in Nat /\ Smallest \in Nat /\ total \in Nat /\ Smallest <= Size /\ Size <= total
  BY ShownBuckets DEF ChartInv
<1>2. Rounded(7 * Size, 10) \in Int /\ Rounded(7 * Size, 10) <= Size
  BY <1>1 DEF Rounded
<1>3. SizeInward \in Smallest .. Size
  <2> DEFINE n == Rounded(7 * Size, 10)
  <2>1. n \in Int /\ n <= Size /\ SizeInward = Max({Smallest, n})
    BY <1>2 DEF SizeInward
  <2> HIDE DEF n
  <2>2. Max({Smallest, n}) = IF Smallest >= n THEN Smallest ELSE n
    <3>1. Smallest \in Int /\ n \in Int
      BY <1>1, <2>1
    <3> QED
      BY ONLY <3>1, OfTwo
  <2> QED
    BY <1>1, <2>1, <2>2
<1>4. (10 * Size + 6) \div 7 \in Int /\ (10 * Size + 6) \div 7 >= Size
  BY <1>1
<1> QED
  BY <1>1, <1>3, <1>4, OfTwo DEF SizeOutward

LEMMA ZoomKeepsInv ==
    ASSUME ChartInv, NEW size \in Smallest .. total, NEW at \in 0 .. Width, ZoomTo(size, at),
           UNCHANGED <<total, panOrigin>>
    PROVE  ChartInv'
<1>1. size \in Nat /\ Size \in Nat /\ Start \in Nat /\ total \in Nat /\ size <= total
  BY ShownBuckets DEF ChartInv
<1>2. viewSize' \in Nat
  BY <1>1 DEF ZoomTo, WholeRange
<1>3. Rounded(at * (Size - size), Width) \in Int
  <2>1. at * (Size - size) \in Int
    BY <1>1, ChartAssumption
  <2> QED
    BY <2>1, RoundedIs, ChartAssumption
<1>4. viewStart' \in Nat
  <2> DEFINE by == Rounded(at * (Size - size), Width)
  <2>1. Start + by \in Int /\ total - size \in Int /\ 0 <= total - size
    BY <1>1, <1>3
  <2>2. viewStart' = IF size = Size THEN Start ELSE Between(0, Start + by, total - size)
    BY DEF ZoomTo
  <2> HIDE DEF by
  <2>3. Between(0, Start + by, total - size) \in 0 .. (total - size)
    BY <2>1, BetweenIs
  <2> QED
    BY <1>1, <2>2, <2>3
<1> QED
  BY <1>2, <1>4 DEF ChartInv, IsDrag

\* What is shown after a zoom to a size.
LEMMA ZoomShows ==
    ASSUME ChartInv, total > 0, NEW size \in Smallest .. total, NEW at \in 0 .. Width,
           ZoomTo(size, at), UNCHANGED <<total, panOrigin>>
    PROVE  /\ Size' = size
           /\ size = Size => Start' = Start
           /\ size # Size =>
                 Start' = Between(0, Start + Rounded(at * (Size - size), Width), total - size)
<1>1. ChartInv'
  BY ZoomKeepsInv
<1>2. /\ Smallest' = Smallest /\ Smallest \in Nat /\ Smallest > 0 /\ total \in Nat
      /\ Size \in Smallest .. total
      /\ Start \in 0 .. (total - Size)
  BY ShownBuckets DEF ChartInv, Smallest
<1>3. (ChartInv => /\ viewSize # WholeRange /\ viewSize \in Smallest .. total => Size = viewSize
                   /\ viewSize = WholeRange => Size = total
                   /\ viewStart \in 0 .. (total - Size) => Start = viewStart)'
  BY ShownBuckets, PTL
<1>4. Size' = size
  BY <1>1, <1>2, <1>3 DEF ZoomTo, WholeRange
<1>5. size = Size => Start' = Start
  BY <1>1, <1>2, <1>3, <1>4 DEF ZoomTo
<1>6. ASSUME size # Size
      PROVE  Start' = Between(0, Start + Rounded(at * (Size - size), Width), total - size)
  <2> DEFINE start == Between(0, Start + Rounded(at * (Size - size), Width), total - size)
  <2>1. start \in 0 .. (total - size)
    <3>1. at * (Size - size) \in Int
      BY <1>2, ChartAssumption
    <3>2. Start + Rounded(at * (Size - size), Width) \in Int
      BY <1>2, <3>1, RoundedIs, ChartAssumption
    <3>3. total - size \in Int /\ 0 <= total - size
      BY <1>2
    <3> QED
      BY <3>2, <3>3, BetweenIs
  <2>2. viewStart' = start
    BY <1>6 DEF ZoomTo
  <2> HIDE DEF start
  <2>3. viewStart' \in 0 .. (total' - Size')
    BY <1>4, <2>1, <2>2
  <2>4. Start' = start
    BY <1>1, <1>3, <2>2, <2>3
  <2> QED
    BY <2>4 DEF start
<1> QED
  BY <1>4, <1>5, <1>6

LEMMA ZoomInShows ==
    ASSUME ChartInv, total > 0, NEW at \in 0 .. Width, Zoom("in", at)
    PROVE  Shown' \subseteq Shown /\ BucketBelow(at) \in Shown'
<1>1. /\ Size \in Nat \ {0} /\ total \in Nat /\ Size <= total
      /\ Start \in 0 .. (total - Size)
      /\ SizeInward \in 1 .. Size /\ SizeInward \in Smallest .. total
  BY ShownBuckets, SizesOfZoom DEF ChartInv
<1>2. Rounded(at * (Size - 1), Width) \in 0 .. (Size - 1)
  BY <1>1, Moved
<1>3. CASE total <= 1
  <2>1. Shown' = Shown
    BY <1>3 DEF Zoom, Shown, Start, Size, Smallest
  <2>2. BucketBelow(at) \in Shown
    BY <1>1, <1>2 DEF BucketBelow, Shown
  <2> QED
    BY <2>1, <2>2
<1>4. CASE total > 1
  <2> DEFINE less == Size - SizeInward
             by == Rounded(at * less, Width)
             below == Rounded(at * (Size - 1), Width)
  <2>1. ZoomTo(SizeInward, at) /\ UNCHANGED <<total, panOrigin>>
    BY <1>1, <1>4 DEF Zoom
  <2>2. less \in Nat /\ by \in 0 .. less
    BY <1>1, Moved
  <2>3. by <= below /\ below <= by + (SizeInward - 1)
    <3> DEFINE kept == SizeInward - 1
    <3>1. kept \in Nat /\ at \in Nat /\ at <= Width /\ Width \in Nat \ {0}
      BY <1>1, ChartAssumption
    <3>2. at * less \in Nat /\ at * kept \in Nat /\ at * kept <= Width * kept /\ Width * kept \in Nat
      BY <2>2, <3>1, Product
    <3>3. at * (Size - 1) = at * less + at * kept
      BY <1>1, <3>1
    <3>4. Rounded(at * less + Width * kept, Width) = by + kept
      <4> DEFINE a == at * less
      <4>1. a \in Int /\ kept \in Int
        BY <3>1, <3>2
      <4> HIDE DEF a, kept
      <4>2. Rounded(a + Width * kept, Width) = Rounded(a, Width) + kept
        BY <3>1, <4>1, RoundedShift
      <4> QED
        BY <4>2 DEF a
    <3>5. /\ by <= Rounded(at * less + at * kept, Width)
          /\ Rounded(at * less + at * kept, Width) <= Rounded(at * less + Width * kept, Width)
      <4> DEFINE a == at * less
                 b == at * kept
                 c == Width * kept
      <4>1. a \in Nat /\ b \in Nat /\ c \in Nat /\ b <= c
        BY <3>2
      <4> HIDE DEF a, b, c
      <4>2. a \in Int /\ a + b \in Int /\ a + c \in Int /\ a <= a + b /\ a + b <= a + c
        BY <4>1
      <4>3. Rounded(a, Width) <= Rounded(a + b, Width)
        BY <3>1, <4>2, RoundedIs
      <4>4. Rounded(a + b, Width) <= Rounded(a + c, Width)
        BY <3>1, <4>2, RoundedIs
      <4> QED
        BY <4>3, <4>4 DEF a, b, c
    <3> QED
      BY <3>3, <3>4, <3>5
  <2>4. Size' = SizeInward /\ Start' = Start + by
    <3>1. CASE SizeInward = Size
      <4>1. Size' = SizeInward /\ Start' = Start
        BY <1>1, <2>1, <3>1, ZoomShows
      <4>2. by = 0
        BY <1>1, <2>2, <3>1
      <4> QED
        BY <1>1, <4>1, <4>2
    <3>2. CASE SizeInward # Size
      <4>1. Size' = SizeInward /\ Start' = Between(0, Start + by, total - SizeInward)
        BY <1>1, <2>1, <3>2, ZoomShows
      <4> HIDE DEF by
      <4>2. Start + by \in 0 .. (total - SizeInward) /\ total - SizeInward \in Nat
        BY <1>1, <2>2
      <4>3. Between(0, Start + by, total - SizeInward) = Start + by
        BY <4>2, BetweenIs
      <4> QED
        BY <4>1, <4>3
    <3> QED
      BY <3>1, <3>2
  <2> HIDE DEF by, below
  <2>5. Shown' = (Start + by) .. (Start + by + SizeInward - 1)
    BY <2>4 DEF Shown
  <2>6. BucketBelow(at) = Start + below
    BY DEF BucketBelow, below
  <2>7. below \in Int
    BY <1>2 DEF below
  <2>8. BucketBelow(at) \in Shown'
    BY <1>1, <2>2, <2>3, <2>5, <2>6, <2>7
  <2>9. /\ Start \in Nat /\ by \in Nat /\ SizeInward \in Nat
        /\ by <= Size - SizeInward
    BY <1>1, <2>2
  <2>10. Shown' \subseteq Shown
    <3> SUFFICES ASSUME NEW e \in Shown' PROVE e \in Shown
      OBVIOUS
    <3>1. e \in Int /\ Start + by <= e /\ e <= Start + by + SizeInward - 1
      BY <1>1, <2>5, <2>9
    <3>2. e \in Start .. (Start + Size - 1)
      BY <1>1, <2>9, <3>1
    <3> QED
      BY <3>2 DEF Shown
  <2> QED
    BY <2>8, <2>10
<1> QED
  BY <1>1, <1>3, <1>4

LEMMA ZoomOutShows ==
    ASSUME ChartInv, total > 0, NEW at \in 0 .. Width, Zoom("out", at)
    PROVE  Shown \subseteq Shown'
<1>1. /\ Size \in Nat \ {0} /\ total \in Nat /\ Size <= total
      /\ Start \in 0 .. (total - Size)
      /\ SizeOutward \in Size .. total /\ SizeOutward \in Smallest .. total
  BY ShownBuckets, SizesOfZoom DEF ChartInv
<1>2. CASE total <= 1
  BY <1>2 DEF Zoom, Shown, Start, Size, Smallest
<1>3. CASE total > 1
  <2> DEFINE more == SizeOutward - Size
             by == Rounded(at * (Size - SizeOutward), Width)
  <2>1. ZoomTo(SizeOutward, at) /\ UNCHANGED <<total, panOrigin>>
    BY <1>1, <1>3 DEF Zoom
  <2>2. more \in Nat /\ by \in (0 - more) .. 0
    <3>1. more \in Nat /\ Size - SizeOutward = 0 - more
      BY <1>1
    <3> QED
      BY <3>1, Moved
  <2>3. CASE SizeOutward = Size
    BY <1>1, <2>1, <2>3, ZoomShows DEF Shown
  <2>4. CASE SizeOutward # Size
    <3>1. Size' = SizeOutward /\ Start' = Between(0, Start + by, total - SizeOutward)
      BY <1>1, <2>1, <2>4, ZoomShows
    <3> HIDE DEF by
    <3>2. Start + by \in Int /\ total - SizeOutward \in Nat
      BY <1>1, <2>2
    <3>3. Start' \in 0 .. (total - SizeOutward) /\ Start' <= Start /\ Start' >= Start - more
      <4> DEFINE to   == Start + by
                 high == total - SizeOutward
      <4>1. to \in Int /\ high \in Nat /\ Start' = Between(0, to, high)
        BY <3>1, <3>2
      <4>2. to <= Start /\ to >= Start - more /\ high >= Start - more
        BY <1>1, <2>2
      <4> HIDE DEF to, high
      <4>3. /\ Start' \in 0 .. high
            /\ to \in 0 .. high => Start' = to
            /\ to < 0 => Start' = 0
            /\ to > high => Start' = high
        <5>1. 0 \in Int /\ to \in Int /\ high \in Int /\ 0 <= high
          BY <4>1
        <5>2. /\ Between(0, to, high) \in 0 .. high
              /\ to \in 0 .. high => Between(0, to, high) = to
              /\ to < 0 => Between(0, to, high) = 0
              /\ to > high => Between(0, to, high) = high
          BY ONLY <5>1, BetweenIs
        <5> QED
          BY <4>1, <5>2
      <4>4. Start' <= Start /\ Start' >= Start - more
        BY <1>1, <2>2, <4>1, <4>2, <4>3
      <4> QED
        BY <4>3, <4>4 DEF high
    <3> QED
      BY <1>1, <3>1, <3>3 DEF Shown
  <2> QED
    BY <2>3, <2>4
<1> QED
  BY <1>1, <1>2, <1>3

\* A drag that is back where it began shows what was shown there.
LEMMA DragShows ==
    ASSUME ChartInv, total > 0, PointerMove(panOrigin.at), Cardinality(panOrigin.shown) = Size,
           panOrigin.shown \subseteq 0 .. (total - 1), ChartInv'
    PROVE  Shown' = panOrigin.shown
<1>1. PICK at \in 0 .. Width, start \in Nat, size \in Nat \ {0} :
          panOrigin = [at |-> at, viewStart |-> start, shown |-> start .. (start + size - 1)]
  BY DEF ChartInv, IsDrag, PointerMove
<1>2. /\ Size \in Nat \ {0} /\ total \in Nat /\ Size <= total
      /\ UNCHANGED <<total, viewSize, panOrigin>>
      /\ viewStart' = Between(0, start + Rounded((at - at) * Size, Width), total - Size)
  BY <1>1, ShownBuckets DEF ChartInv, PointerMove
<1>3. Size' = Size /\ Rounded((at - at) * Size, Width) = 0
  <2>1. (at - at) * Size = 0
    BY <1>2
  <2> QED
    BY <1>2, <2>1, RoundedIs, ChartAssumption DEF Size, Smallest
<1>4. size = Size
  BY <1>1, <1>2, FS_Interval
<1>5. start \in 0 .. (total - Size)
  <2>1. start + size - 1 \in panOrigin.shown
    BY <1>1
  <2> QED
    BY <1>2, <1>4, <2>1
<1>6. viewStart' = start
  <2>1. viewStart' = Between(0, start, total - Size)
    BY <1>1, <1>2, <1>3
  <2>2. 0 \in Int /\ start \in Int /\ total - Size \in Int /\ 0 <= total - Size
    BY <1>2
  <2> QED
    BY <1>5, <2>1, <2>2, BetweenIs
<1>7. (ChartInv => (viewStart \in 0 .. (total - Size) => Start = viewStart))'
  BY ShownBuckets, PTL
<1>8. Start' = start
  BY <1>2, <1>3, <1>5, <1>6, <1>7
<1> QED
  BY <1>1, <1>3, <1>4, <1>8 DEF Shown

LEMMA InitChart == ChartInit => ChartInv
  BY ChartAssumption DEF ChartInit, ChartInv, WholeRange

LEMMA NextChart == ChartInv /\ [ChartNext]_chartVars => ChartInv'
<1> SUFFICES ASSUME ChartInv, [ChartNext]_chartVars PROVE ChartInv'
  OBVIOUS
<1>1. /\ Size \in Nat /\ Start \in Nat /\ total \in Nat /\ Size <= total
      /\ total > 0 => Size > 0
  BY ShownBuckets DEF ChartInv
<1>2. ASSUME NEW direction \in Directions, NEW at \in 0 .. Width, Zoom(direction, at)
      PROVE  ChartInv'
  <2>1. CASE total <= 1
    BY <1>2, <2>1 DEF Zoom, ChartInv, IsDrag
  <2>2. CASE total > 1
    <3>1. SizeInward \in Smallest .. total /\ SizeOutward \in Smallest .. total
      BY <1>1, SizesOfZoom, ShownBuckets
    <3>2. UNCHANGED <<total, panOrigin>>
      BY <1>2 DEF Zoom
    <3>3. CASE direction = "in"
      <4>1. ZoomTo(SizeInward, at)
        BY <1>1, <1>2, <2>2, <3>3 DEF Zoom
      <4> QED
        BY <3>1, <3>2, <4>1, ZoomKeepsInv
    <3>4. CASE direction # "in"
      <4>1. ZoomTo(SizeOutward, at)
        BY <1>1, <1>2, <2>2, <3>4 DEF Zoom
      <4> QED
        BY <3>1, <3>2, <4>1, ZoomKeepsInv
    <3> QED
      BY <3>3, <3>4
  <2> QED
    BY <1>1, <2>1, <2>2
<1>3. CASE Reset
  BY <1>3 DEF Reset, ChartInv, WholeRange
<1>4. ASSUME NEW n \in Int, viewStart' = Between(0, n, total - Size),
             UNCHANGED <<total, viewSize, panOrigin>>
      PROVE  ChartInv'
  <2>1. total - Size \in Int /\ 0 <= total - Size
    BY <1>1
  <2>2. viewStart' \in Nat
    BY <1>4, <2>1, BetweenIs
  <2> QED
    BY <1>4, <2>2 DEF ChartInv, IsDrag
<1>5. ASSUME NEW buckets \in {-1, 1}, PanBy(buckets)
      PROVE  ChartInv'
  BY <1>1, <1>4, <1>5 DEF PanBy
<1>6. ASSUME NEW at \in 0 .. Width, PointerDown(at)
      PROVE  ChartInv'
  <2>1. Size \in Nat \ {0}
    BY <1>1, <1>6 DEF PointerDown
  <2>2. IsDrag(panOrigin')
    BY <1>1, <1>6, <2>1 DEF PointerDown, IsDrag, Shown
  <2> QED
    BY <1>6, <2>2 DEF PointerDown, ChartInv, IsDrag
<1>7. ASSUME NEW at \in 0 .. Width, PointerMove(at)
      PROVE  ChartInv'
  <2>1. panOrigin.at \in Int /\ panOrigin.viewStart \in Int
    BY <1>7 DEF PointerMove, ChartInv, IsDrag
  <2>2. (panOrigin.at - at) * Size \in Int
    BY <1>1, <2>1, ChartAssumption
  <2>3. panOrigin.viewStart + Rounded((panOrigin.at - at) * Size, Width) \in Int
    <3> DEFINE m == (panOrigin.at - at) * Size
    <3> HIDE DEF m
    <3>1. m \in Int
      BY <2>2 DEF m
    <3>2. Rounded(m, Width) \in Int
      BY <3>1, RoundedIs, ChartAssumption
    <3> QED
      BY <2>1, <3>2 DEF m
  <2> QED
    BY <1>4, <1>7, <2>3 DEF PointerMove
<1>8. CASE FinishPan
  BY <1>8 DEF FinishPan, ChartInv
<1>9. ASSUME NEW n \in Totals, BucketsArrive(n)
      PROVE  ChartInv'
  BY <1>9, ChartAssumption DEF BucketsArrive, ChartInv, IsDrag
<1>10. CASE UNCHANGED chartVars
  BY <1>10 DEF chartVars, ChartInv, IsDrag
<1> QED
  BY <1>2, <1>3, <1>5, <1>6, <1>7, <1>8, <1>9, <1>10 DEF ChartNext

\* Whatever the width of the plot and the numbers of buckets of the answers: zooming in
\* keeps the bucket below the pointer, zooming out keeps all that was shown, a drag that
\* comes back shows what it began with, and never less than is allowed is shown
\* (nextTrendZoom, panTrendViewport, handleTrendPointerMove).
THEOREM PlaceIsKept == ChartSpec => ZoomAndDragKeepThePlace
<1> DEFINE Kept ==
        total > 0 =>
          /\ \A at \in 0 .. Width :
                /\ Zoom("in", at) => Shown' \subseteq Shown /\ BucketBelow(at) \in Shown'
                /\ Zoom("out", at) => Shown \subseteq Shown'
          /\ PointerMove(panOrigin.at) /\ Cardinality(panOrigin.shown) = Size
                /\ panOrigin.shown \subseteq 0 .. (total - 1) => Shown' = panOrigin.shown
          /\ Shown' \subseteq 0 .. (total' - 1) /\ Cardinality(Shown') >= Smallest'
<1>1. ASSUME ChartInv
      PROVE  Shown \subseteq 0 .. (total - 1) /\ Cardinality(Shown) >= Smallest
  <2>1. /\ Size \in Nat /\ Start \in 0 .. (total - Size) /\ total \in Nat /\ Smallest \in Nat
        /\ Size >= Smallest
    BY <1>1, ShownBuckets DEF ChartInv
  <2>2. Cardinality(Shown) = Size
    <3>1. Start \in Int /\ Start + Size - 1 \in Int
      BY <2>1
    <3>2. Cardinality(Start .. (Start + Size - 1))
          = IF Start > Start + Size - 1 THEN 0 ELSE (Start + Size - 1) - Start + 1
      BY ONLY <3>1, FS_Interval
    <3> QED
      BY <2>1, <3>2 DEF Shown
  <2> QED
    BY <2>1, <2>2 DEF Shown
<1>2. ChartInv /\ [ChartNext]_chartVars => [Kept]_chartVars
  <2> SUFFICES ASSUME ChartInv, [ChartNext]_chartVars, total > 0 PROVE Kept
    OBVIOUS
  <2>1. ChartInv'
    BY NextChart
  <2>2. (ChartInv => Shown \subseteq 0 .. (total - 1) /\ Cardinality(Shown) >= Smallest)'
    BY <1>1, PTL
  <2> QED
    BY <2>1, <2>2, ZoomInShows, ZoomOutShows, DragShows
<1> QED
  BY <1>2, InitChart, NextChart, PTL DEF ChartSpec, ZoomAndDragKeepThePlace

-----------------------------------------------------------------------------
(* The data of the page.                                                    *)

IsRequest(r) ==
    /\ r = [what |-> r.what, by |-> r.by, newest |-> r.newest, sel |-> r.sel,
            late |-> r.late, since |-> r.since,
            answer |-> r.answer, rank |-> r.rank]
    /\ r.newest \in BOOLEAN

\* Who asks for what.
IsAskedFor(what, by) ==
    /\ what = "post refresh" => by \in Refreshes
    /\ what = "post rebuild" => by = "rebuild"
    /\ what = "post clear" => by = "clear"
    /\ by \in Refreshes => what \in {"post refresh", "processing"}
    /\ by = "rebuild" => what \in {"post rebuild", "processing"}
    /\ by = "select" => what = "overview"
    /\ by = "clear" => what # "processing"

\* The newest request for an overview is of what is selected.
AreRequests(pending, selection) ==
    \A r \in pending : /\ IsRequest(r)
                       /\ IsAskedFor(r.what, r.by)
                       /\ r.what = "overview" /\ r.newest => r.sel = selection

HasNewest(pending, what) == \E r \in pending : r.what = what /\ r.newest
HasOf(pending, tasks) == \E r \in pending : r.by \in tasks
HasSelected(pending, selection) ==
    \E r \in pending : r.what = "overview" /\ r.newest /\ r.sel = selection

\* Whatever the page shows as busy has an answer to come that ends it.
IsAwaited(pending, flags, tasks) ==
    /\ \A v \in Views : flags[v] => HasNewest(pending, v)
    /\ flags["workbench"] => HasOf(pending, {"select"})
    /\ "refresh" \in tasks => HasOf(pending, Refreshes)
    /\ "clear" \in tasks => HasOf(pending, {"clear"})

IsLoad(x) == x = [loaded |-> x.loaded, late |-> x.late, sel |-> x.sel, version |-> x.version]

DataInv ==
    /\ AreRequests(requests, selected)
    /\ DOMAIN loading = Views \cup {"workbench"}
    /\ \A w \in Kinds : IsLoad(shown[w])
    /\ shown = [w \in Kinds |-> shown[w]]
    /\ overviewError \in BOOLEAN
    /\ IsAwaited(requests, loading, busy)
    /\ shown["overview"].loaded => \/ shown["overview"].sel = selected
                                   \/ overviewError
                                   \/ HasSelected(requests, selected)
-----------------------------------------------------------------------------
(* Requests that are sent.                                                  *)

LEMMA RequestIs ==
    ASSUME NEW what, NEW task
    PROVE  /\ IsRequest(Request(what, task))
           /\ Request(what, task).what = what
           /\ Request(what, task).by = task
           /\ Request(what, task).newest = TRUE
  BY DEF Request, IsRequest

LEMMA OverviewIs ==
    ASSUME NEW task
    PROVE  Request("overview", task).sel = selected
  BY DEF Request

\* A request that another one takes the place of.
LEMMA Older ==
    ASSUME NEW r, IsRequest(r), NEW b \in BOOLEAN
    PROVE  LET s == [r EXCEPT !.newest = b]
           IN  /\ IsRequest(s) /\ s.newest = b
               /\ s.what = r.what /\ s.by = r.by /\ s.sel = r.sel
<1>1. r = [what |-> r.what, by |-> r.by, newest |-> r.newest, sel |-> r.sel,
           late |-> r.late, since |-> r.since,
           answer |-> r.answer, rank |-> r.rank]
  BY DEF IsRequest
<1>2. [r EXCEPT !.newest = b]
      = [what |-> r.what, by |-> r.by, newest |-> b, sel |-> r.sel,
         late |-> r.late, since |-> r.since,
         answer |-> r.answer, rank |-> r.rank]
  BY <1>1
<1> QED
  BY <1>2 DEF IsRequest

LEMMA SupersededHas ==
    ASSUME NEW pending, \A r \in pending : IsRequest(r), NEW whats
    PROVE  /\ \A s \in Superseded(pending, whats) :
                 \E r \in pending : /\ IsRequest(s)
                                    /\ s.what = r.what /\ s.by = r.by /\ s.sel = r.sel
                                    /\ s.newest <=> r.newest /\ r.what \notin whats
           /\ \A r \in pending : r.what \notin whats \/ r.by # "nobody" =>
                 \E s \in Superseded(pending, whats) :
                     /\ s.what = r.what /\ s.by = r.by /\ s.sel = r.sel
                     /\ s.newest <=> r.newest /\ r.what \notin whats
<1> DEFINE older(r) == [r EXCEPT !.newest = @ /\ r.what \notin whats]
<1>1. ASSUME NEW r \in pending
      PROVE  /\ IsRequest(older(r))
             /\ older(r).what = r.what /\ older(r).by = r.by /\ older(r).sel = r.sel
             /\ older(r).newest <=> r.newest /\ r.what \notin whats
  <2>1. (r.newest /\ r.what \notin whats) \in BOOLEAN
    OBVIOUS
  <2>2. older(r) = [r EXCEPT !.newest = r.newest /\ r.what \notin whats]
    OBVIOUS
  <2> QED
    BY <1>1, <2>1, <2>2, Older
<1>2. Superseded(pending, whats)
      = {older(r) : r \in {x \in pending : x.what \notin whats \/ x.by # "nobody"}}
  BY DEF Superseded
<1> HIDE DEF older
<1> QED
  BY <1>1, <1>2

LEMMA SentHas ==
    ASSUME NEW pending, AreRequests(pending, selected), NEW whats, NEW task,
           \A what \in whats : IsAskedFor(what, task)
    PROVE  /\ AreRequests(Sent(pending, whats, task), selected)
           /\ \A w : HasNewest(pending, w) \/ w \in whats => HasNewest(Sent(pending, whats, task), w)
           /\ \A T : (HasOf(pending, T) /\ "nobody" \notin T) \/ (whats # {} /\ task \in T)
                        => HasOf(Sent(pending, whats, task), T)
           /\ HasSelected(pending, selected) \/ "overview" \in whats
                 => HasSelected(Sent(pending, whats, task), selected)
<1> DEFINE older == Superseded(pending, whats \cap Sequenced)
           newer == {Request(what, task) : what \in whats}
<1>1. Sent(pending, whats, task) = older \cup newer
  BY DEF Sent
<1>2. /\ \A s \in older : \E r \in pending :
            /\ IsRequest(s)
            /\ s.what = r.what /\ s.by = r.by /\ s.sel = r.sel
            /\ s.newest <=> r.newest /\ r.what \notin whats \cap Sequenced
      /\ \A r \in pending : r.what \notin whats \cap Sequenced \/ r.by # "nobody" =>
            \E s \in older : /\ s.what = r.what /\ s.by = r.by /\ s.sel = r.sel
                             /\ s.newest <=> r.newest /\ r.what \notin whats \cap Sequenced
  BY SupersededHas DEF AreRequests
<1>4. \A s \in newer : /\ IsRequest(s) /\ s.by = task /\ s.what \in whats /\ s.newest
                       /\ s.what = "overview" => s.sel = selected
  <2> SUFFICES ASSUME NEW what \in whats, NEW s, s = Request(what, task)
               PROVE  /\ IsRequest(s) /\ s.by = task /\ s.what \in whats /\ s.newest
                      /\ s.what = "overview" => s.sel = selected
    OBVIOUS
  <2>1. IsRequest(s) /\ s.by = task /\ s.what = what /\ s.newest
    BY RequestIs
  <2>2. what = "overview" => s.sel = selected
    BY OverviewIs
  <2> QED
    BY <2>1, <2>2
<1>3. \A what \in whats : \E s \in newer : s.what = what /\ s.by = task /\ s.newest
  <2> SUFFICES ASSUME NEW what \in whats
               PROVE  \E s \in newer : s.what = what /\ s.by = task /\ s.newest
    OBVIOUS
  <2>1. Request(what, task) \in newer
    OBVIOUS
  <2> QED
    BY <2>1, RequestIs
<1> HIDE DEF older, newer
<1>5. AreRequests(older \cup newer, selected)
  BY <1>2, <1>4 DEF AreRequests
<1>6. ASSUME NEW w, HasNewest(pending, w) \/ w \in whats
      PROVE  HasNewest(older \cup newer, w)
  <2>1. CASE w \in whats
    BY <1>3, <2>1 DEF HasNewest
  <2>2. CASE HasNewest(pending, w) /\ w \notin whats
    BY <1>2, <2>2 DEF HasNewest
  <2> QED
    BY <1>6, <2>1, <2>2
<1>7. ASSUME NEW T, (HasOf(pending, T) /\ "nobody" \notin T) \/ (whats # {} /\ task \in T)
      PROVE  HasOf(older \cup newer, T)
  <2>1. CASE whats # {} /\ task \in T
    BY <1>3, <2>1 DEF HasOf
  <2>2. CASE HasOf(pending, T) /\ "nobody" \notin T
    <3>1. PICK r \in pending : r.by \in T
      BY <2>2 DEF HasOf
    <3>2. r.by # "nobody"
      BY <2>2, <3>1
    <3> QED
      BY <1>2, <3>1, <3>2 DEF HasOf
  <2> QED
    BY <1>7, <2>1, <2>2
<1>8. ASSUME HasSelected(pending, selected) \/ "overview" \in whats
      PROVE  HasSelected(older \cup newer, selected)
  <2>1. CASE "overview" \in whats
    BY <1>3, <1>4, <2>1 DEF HasSelected
  <2>2. CASE HasSelected(pending, selected) /\ "overview" \notin whats
    BY <1>2, <2>2 DEF HasSelected
  <2> QED
    BY <1>8, <2>1, <2>2
<1> QED
  BY <1>1, <1>5, <1>6, <1>7, <1>8

\* The names of views and panels are no names of anything else.
LEMMA Names ==
    /\ \A v \in Views \cup Panels :
          /\ v \notin {"overview", "workbench", "index", "diagnostics", "processing",
                       "post refresh", "post rebuild", "post clear"}
    /\ Kinds \cap {"processing", "post refresh", "post rebuild", "post clear", "workbench"} = {}
    /\ "overview" \in Kinds
    /\ KnownViews \subseteq Views
    /\ DataLoads \subseteq Kinds /\ "overview" \in DataLoads
    /\ CardLoads \subseteq Kinds /\ "overview" \in CardLoads
<1>1. \A v \in Views \cup Panels :
          /\ v \notin {"overview", "workbench", "index", "diagnostics", "processing",
                       "post refresh", "post rebuild", "post clear"}
  BY DashboardAssumption
<1>2. KnownViews \subseteq Views
  BY DashboardAssumption DEF KnownViews, FirstViews
<1> QED
  BY <1>1, <1>2 DEF Kinds, Sequenced, DataLoads, CardLoads, Index

LEMMA InitData == DataInit => DataInv
<1> SUFFICES ASSUME DataInit PROVE DataInv
  OBVIOUS
<1> DEFINE first == {"overview", "processing"} \cup Index \cup Panels \cup FirstViews
<1>1. requests = {Request(what, "mount") : what \in first}
  BY DEF DataInit
<1>2. first \cap {"post refresh", "post rebuild", "post clear"} = {} /\ FirstViews \subseteq first
  BY Names, DashboardAssumption DEF FirstViews, Index
<1> HIDE DEF first
<1>3. AreRequests(requests, selected)
  <2> SUFFICES ASSUME NEW what \in first, NEW r, r = Request(what, "mount")
               PROVE  /\ IsRequest(r)
                      /\ IsAskedFor(r.what, r.by)
                      /\ r.what = "overview" /\ r.newest => r.sel = selected
    BY <1>1 DEF AreRequests
  <2>1. IsRequest(r) /\ r.what = what /\ r.by = "mount" /\ (what = "overview" => r.sel = selected)
    BY RequestIs, OverviewIs
  <2> QED
    BY <1>2, <2>1 DEF IsAskedFor, Refreshes
<1>4. /\ DOMAIN loading = Views \cup {"workbench"}
      /\ \A w \in DOMAIN loading : loading[w] <=> w \in FirstViews
      /\ busy = {}
  BY DEF DataInit
<1>5. \A w \in FirstViews : HasNewest(requests, w)
  <2> SUFFICES ASSUME NEW w \in FirstViews PROVE HasNewest(requests, w)
    OBVIOUS
  <2>1. Request(w, "mount") \in requests
    BY <1>1, <1>2
  <2> QED
    BY <2>1, RequestIs DEF HasNewest
<1>6. IsAwaited(requests, loading, busy)
  BY <1>4, <1>5, Names, DashboardAssumption DEF IsAwaited, FirstViews
<1>7. shown = [w \in Kinds |-> NotLoaded] /\ overviewError = FALSE
  BY DEF DataInit
<1>8. \A w \in Kinds : shown[w] = NotLoaded
  BY <1>7
<1>9. \A w \in Kinds : IsLoad(shown[w])
  BY <1>8 DEF NotLoaded, IsLoad
<1>10. ~shown["overview"].loaded
  <2>1. shown["overview"] = NotLoaded
    BY <1>8, Names
  <2> QED
    BY <2>1 DEF NotLoaded
<1>11. shown = [w \in Kinds |-> shown[w]]
  BY <1>7
<1> QED
  BY <1>3, <1>4, <1>6, <1>7, <1>9, <1>10, <1>11 DEF DataInv

-----------------------------------------------------------------------------
(* Steps.                                                                   *)

\* One request less.
LEMMA WithoutOne ==
    ASSUME AreRequests(requests, selected), NEW r \in requests
    PROVE  /\ AreRequests(requests \ {r}, selected)
           /\ \A w : HasNewest(requests, w) /\ ~(r.what = w /\ r.newest)
                        => HasNewest(requests \ {r}, w)
           /\ \A T : HasOf(requests, T) /\ r.by \notin T => HasOf(requests \ {r}, T)
           /\ HasSelected(requests, selected) /\ ~(r.what = "overview" /\ r.newest)
                 => HasSelected(requests \ {r}, selected)
  BY DEF AreRequests, HasNewest, HasOf, HasSelected

LEMMA RaisedIs ==
    ASSUME NEW whats, DOMAIN loading = Views \cup {"workbench"}
    PROVE  /\ DOMAIN Raised(loading, whats) = Views \cup {"workbench"}
           /\ \A w \in DOMAIN loading : Raised(loading, whats)[w] <=> loading[w] \/ w \in whats
  BY DEF Raised

\* The daemon's steps change nothing of a request but what its answer tells.
LEMMA SameRequests ==
    ASSUME DataInv, NEW after, UNCHANGED <<selected, loading, busy, overviewError>>,
           requests' = after,
           \A s \in after : /\ IsRequest(s)
                            /\ \E r \in requests : /\ s.what = r.what /\ s.by = r.by
                                                   /\ s.newest = r.newest /\ s.sel = r.sel,
           \A r \in requests : \E s \in after : /\ s.what = r.what /\ s.by = r.by
                                                /\ s.newest = r.newest /\ s.sel = r.sel
    PROVE  /\ AreRequests(requests', selected')
           /\ IsAwaited(requests', loading', busy')
           /\ HasSelected(requests, selected) => HasSelected(requests', selected')
<1>1. AreRequests(after, selected)
  BY DEF DataInv, AreRequests
<1>2. \A w : HasNewest(requests, w) => HasNewest(after, w)
  BY DEF HasNewest
<1>3. \A T : HasOf(requests, T) => HasOf(after, T)
  BY DEF HasOf
<1>4. HasSelected(requests, selected) => HasSelected(after, selected)
  BY DEF HasSelected
<1>5. IsAwaited(after, loading, busy)
  BY <1>2, <1>3 DEF DataInv, IsAwaited
<1> QED
  BY <1>1, <1>4, <1>5

LEMMA LateIs ==
    ASSUME NEW r, IsRequest(r), NEW b
    PROVE  LET s == [r EXCEPT !.late = b]
           IN  IsRequest(s) /\ s.newest = r.newest /\ s.what = r.what /\ s.by = r.by /\ s.sel = r.sel
<1>1. r = [what |-> r.what, by |-> r.by, newest |-> r.newest, sel |-> r.sel,
           late |-> r.late, since |-> r.since,
           answer |-> r.answer, rank |-> r.rank]
  BY DEF IsRequest
<1>2. [r EXCEPT !.late = b]
      = [what |-> r.what, by |-> r.by, newest |-> r.newest, sel |-> r.sel,
         late |-> b, since |-> r.since,
         answer |-> r.answer, rank |-> r.rank]
  BY <1>1
<1> QED
  BY <1>2 DEF IsRequest

LEMMA OfIs ==
    ASSUME NEW r, IsRequest(r), NEW sel, NEW s, s = [r EXCEPT !.sel = sel]
    PROVE  IsRequest(s) /\ s.newest = r.newest /\ s.what = r.what /\ s.by = r.by /\ s.sel = sel
<1>1. r = [what |-> r.what, by |-> r.by, newest |-> r.newest, sel |-> r.sel,
           late |-> r.late, since |-> r.since,
           answer |-> r.answer, rank |-> r.rank]
  BY DEF IsRequest
<1>2. s = [what |-> r.what, by |-> r.by, newest |-> r.newest, sel |-> sel,
           late |-> r.late, since |-> r.since,
           answer |-> r.answer, rank |-> r.rank]
  BY <1>1
<1> QED
  BY <1>2 DEF IsRequest

LEMMA LaterIs ==
    ASSUME NEW old, IsLoad(old), NEW now, now = [old EXCEPT !.late = TRUE]
    PROVE  IsLoad(now) /\ now.loaded = old.loaded /\ now.sel = old.sel
           /\ now.version = old.version /\ now.late = TRUE
<1>1. now = [loaded |-> old.loaded, late |-> TRUE, sel |-> old.sel, version |-> old.version]
  BY DEF IsLoad
<1> QED
  BY <1>1 DEF IsLoad

LEMMA OutdateKeeps ==
    ASSUME DataInv, Outdate,
           UNCHANGED <<selected, overviewError, loading, busy>>
    PROVE  DataInv'
<1> DEFINE outdated(r) == [r EXCEPT !.late = r.what = "overview"]
<1>1. ASSUME NEW r \in requests
      PROVE  /\ IsRequest(outdated(r))
             /\ outdated(r).newest = r.newest /\ outdated(r).what = r.what
             /\ outdated(r).by = r.by /\ outdated(r).sel = r.sel
  BY <1>1, LateIs DEF DataInv, AreRequests
<1>2. requests' = {outdated(r) : r \in requests}
  BY DEF Outdate
<1> HIDE DEF outdated
<1>3. /\ AreRequests(requests', selected')
      /\ IsAwaited(requests', loading', busy')
      /\ HasSelected(requests, selected) => HasSelected(requests', selected')
  <2>1. \A s \in requests' : /\ IsRequest(s)
                             /\ \E r \in requests : /\ s.what = r.what /\ s.by = r.by
                                                    /\ s.newest = r.newest /\ s.sel = r.sel
    BY <1>1, <1>2
  <2>2. \A r \in requests : \E s \in requests' : /\ s.what = r.what /\ s.by = r.by
                                                 /\ s.newest = r.newest /\ s.sel = r.sel
    BY <1>1, <1>2
  <2> QED
    BY <2>1, <2>2, SameRequests
<1>4. shown' = [shown EXCEPT !["overview"] = [shown["overview"] EXCEPT !.late = TRUE]]
  BY DEF Outdate
<1>5. PICK now : /\ now = [shown["overview"] EXCEPT !.late = TRUE]
                 /\ IsLoad(now)
                 /\ now.loaded = shown["overview"].loaded /\ now.sel = shown["overview"].sel
  <2>1. IsLoad(shown["overview"])
    BY Names DEF DataInv
  <2> QED
    BY <2>1, LaterIs
<1>6. /\ \A w \in Kinds : IsLoad(shown'[w])
      /\ shown' = [w \in Kinds |-> shown'[w]]
      /\ shown'["overview"].loaded = shown["overview"].loaded
      /\ shown'["overview"].sel = shown["overview"].sel
  BY <1>4, <1>5, Names DEF DataInv
<1> QED
  BY <1>3, <1>6 DEF DataInv

LEMMA RunAdvancesKeeps ==
    ASSUME DataInv, RunAdvances
    PROVE  DataInv'
<1>1. UNCHANGED <<selected, overviewError, loading, busy>>
  BY DEF RunAdvances
<1>2. UNCHANGED <<requests, shown>> \/ Outdate
  BY DEF RunAdvances, ModuleEnds
<1>3. CASE UNCHANGED <<requests, shown>>
  BY <1>1, <1>3 DEF DataInv
<1> QED
  BY <1>1, <1>2, <1>3, OutdateKeeps

LEMMA TellStatusKeeps ==
    ASSUME DataInv, NEW r \in requests, TellStatus(r)
    PROVE  DataInv'
<1>1. PICK run, n, reply : /\ reply = [r EXCEPT !.answer = run, !.rank = n]
                           /\ requests' = (requests \ {r}) \cup {reply}
  BY DEF TellStatus
<1>2. /\ IsRequest(reply) /\ reply.newest = r.newest /\ reply.what = r.what
      /\ reply.by = r.by /\ reply.sel = r.sel
  <2>1. /\ r = [what |-> r.what, by |-> r.by, newest |-> r.newest, sel |-> r.sel,
                late |-> r.late, since |-> r.since, answer |-> r.answer, rank |-> r.rank]
        /\ r.newest \in BOOLEAN
    BY DEF DataInv, AreRequests, IsRequest
  <2> DEFINE answered == [what |-> r.what, by |-> r.by, newest |-> r.newest, sel |-> r.sel,
                          late |-> r.late, since |-> r.since, answer |-> run, rank |-> r.rank]
  <2>2. [r EXCEPT !.answer = run] = answered
    BY <2>1
  <2>3. reply = [[r EXCEPT !.answer = run] EXCEPT !.rank = n]
    BY <1>1, <2>1
  <2>4. [answered EXCEPT !.rank = n]
        = [what |-> r.what, by |-> r.by, newest |-> r.newest, sel |-> r.sel,
           late |-> r.late, since |-> r.since,
           answer |-> run, rank |-> n]
    OBVIOUS
  <2> QED
    BY <2>1, <2>2, <2>3, <2>4 DEF IsRequest
<1>3. requests' = (requests \ {r}) \cup {reply}
  BY <1>1
<1>4. UNCHANGED <<selected, loading, busy, overviewError, shown>>
  BY DEF TellStatus
<1>5. \A s \in requests' : /\ IsRequest(s)
                           /\ \E x \in requests : /\ s.what = x.what /\ s.by = x.by
                                                  /\ s.newest = x.newest /\ s.sel = x.sel
  BY <1>2, <1>3 DEF DataInv, AreRequests
<1>6. \A x \in requests : \E s \in requests' : /\ s.what = x.what /\ s.by = x.by
                                               /\ s.newest = x.newest /\ s.sel = x.sel
  BY <1>2, <1>3
<1>7. /\ AreRequests(requests', selected')
      /\ IsAwaited(requests', loading', busy')
      /\ HasSelected(requests, selected) => HasSelected(requests', selected')
  BY <1>4, <1>5, <1>6, SameRequests
<1> QED
  BY <1>4, <1>7 DEF DataInv

\* What was asked for besides is on its way when a load ends.
LEMMA LoadEndsKeeps ==
    ASSUME DataInv, NEW r \in requests, r.what \in Kinds, NEW now,
           NEW more \in SUBSET Views, more # {} => r.what = "index", LoadEnds(r, now, more)
    PROVE  /\ selected' = selected
           /\ AreRequests(requests', selected)
           /\ DOMAIN loading' = Views \cup {"workbench"}
           /\ IsAwaited(requests', loading', busy')
           /\ HasSelected(requests, selected) /\ ~(r.what = "overview" /\ r.newest)
                 => HasSelected(requests', selected)
<1> DEFINE less == requests \ {r}
           rest == Sent(less, more, r.by)
<1>1. /\ selected' = selected
      /\ DOMAIN loading' = Views \cup {"workbench"}
      /\ \A w \in Views \cup {"workbench"} :
            loading'[w] <=> \/ w \in more
                            \/ loading[w] /\ ~(w = r.what /\ IsTaken(r))
                                          /\ ~(w = "workbench" /\ r.by = "select")
      /\ requests' \in {rest, Sent(rest, {"diagnostics"}, "mount")}
      /\ r.by = "clear" => requests' = rest
      /\ busy' = IF r.by = "clear" /\ (\A x \in rest : x.by # r.by) THEN busy \ {"clear"} ELSE busy
  BY DEF LoadEnds, DataInv
<1>2. /\ AreRequests(less, selected)
      /\ \A w : HasNewest(requests, w) /\ ~(r.what = w /\ r.newest) => HasNewest(less, w)
      /\ \A T : HasOf(requests, T) /\ r.by \notin T => HasOf(less, T)
      /\ HasSelected(requests, selected) /\ ~(r.what = "overview" /\ r.newest)
            => HasSelected(less, selected)
  BY WithoutOne DEF DataInv
<1>3. IsAskedFor(r.what, r.by) /\ r.by \notin Refreshes /\ (more # {} => r.by # "select")
  BY Names DEF DataInv, AreRequests, IsAskedFor
<1>4. \A w \in more : IsAskedFor(w, r.by)
  BY <1>3, Names DEF IsAskedFor
<1>5. /\ AreRequests(rest, selected)
      /\ \A w : HasNewest(less, w) \/ w \in more => HasNewest(rest, w)
      /\ \A T : HasOf(less, T) /\ "nobody" \notin T => HasOf(rest, T)
      /\ HasSelected(less, selected) => HasSelected(rest, selected)
  BY <1>2, <1>4, SentHas
<1> HIDE DEF less, rest
<1>6. /\ AreRequests(requests', selected)
      /\ \A w : HasNewest(rest, w) => HasNewest(requests', w)
      /\ \A T : HasOf(rest, T) /\ "nobody" \notin T => HasOf(requests', T)
      /\ HasSelected(rest, selected) => HasSelected(requests', selected)
  <2>1. CASE requests' = rest
    BY <1>5, <2>1
  <2>2. CASE requests' = Sent(rest, {"diagnostics"}, "mount")
    <3>1. \A w \in {"diagnostics"} : IsAskedFor(w, "mount")
      BY DEF IsAskedFor, Refreshes
    <3> QED
      BY <1>5, <2>2, <3>1, SentHas
  <2> QED
    BY <1>1, <2>1, <2>2
<1>7. \A v \in Views : loading'[v] => HasNewest(requests', v)
  <2>1. \A v \in Views : loading[v] => HasNewest(requests, v)
    BY DEF DataInv, IsAwaited
  <2>2. \A v \in Views : r.what = v /\ r.newest => IsTaken(r)
    BY DEF IsTaken
  <2> QED
    BY <1>1, <1>2, <1>5, <1>6, <2>1, <2>2
<1>8. loading'["workbench"] => HasOf(requests', {"select"})
  <2>1. "workbench" \notin more
    BY Names
  <2> QED
    BY <1>1, <1>2, <1>5, <1>6, <2>1 DEF DataInv, IsAwaited
<1>9. "refresh" \in busy' => HasOf(requests', Refreshes)
  <2>1. "refresh" \in busy' => "refresh" \in busy
    BY <1>1
  <2> QED
    BY <1>2, <1>3, <1>5, <1>6, <2>1 DEF DataInv, IsAwaited, Refreshes
<1>10. "clear" \in busy' => HasOf(requests', {"clear"})
  <2>1. CASE r.by = "clear"
    BY <1>1, <2>1 DEF HasOf
  <2>2. CASE r.by # "clear"
    BY <1>1, <1>2, <1>5, <1>6, <2>2 DEF DataInv, IsAwaited
  <2> QED
    BY <2>1, <2>2
<1> QED
  BY <1>1, <1>2, <1>5, <1>6, <1>7, <1>8, <1>9, <1>10 DEF IsAwaited

LEMMA LoadArrivesKeeps ==
    ASSUME DataInv, NEW r \in requests, NEW version, LoadArrives(r, version)
    PROVE  DataInv'
<1> DEFINE load == [loaded |-> TRUE, late |-> r.late, sel |-> r.sel, version |-> version]
           more == IF r.what = "index" THEN Views \ KnownViews ELSE {}
<1>1. /\ r.what \in Kinds
      /\ shown' = IF IsTaken(r) THEN [shown EXCEPT ![r.what] = load] ELSE shown
      /\ overviewError' = (overviewError /\ ~(r.what = "overview" /\ IsTaken(r)))
      /\ \E now : LoadEnds(r, now, more)
  BY DEF LoadArrives
<1>2. more \in SUBSET Views /\ (more # {} => r.what = "index")
  OBVIOUS
<1> HIDE DEF more
<1>3. /\ selected' = selected
      /\ AreRequests(requests', selected)
      /\ DOMAIN loading' = Views \cup {"workbench"}
      /\ IsAwaited(requests', loading', busy')
      /\ HasSelected(requests, selected) /\ ~(r.what = "overview" /\ r.newest)
            => HasSelected(requests', selected)
  BY <1>1, <1>2, LoadEndsKeeps
<1>4. /\ \A w \in Kinds : shown'[w] = IF IsTaken(r) /\ w = r.what THEN load ELSE shown[w]
      /\ shown' = [w \in Kinds |-> shown'[w]]
  BY <1>1 DEF DataInv
<1>5. IsLoad(load) /\ load.sel = r.sel /\ load.loaded
  BY DEF IsLoad
<1> HIDE DEF load
<1>6. \A w \in Kinds : IsLoad(shown'[w])
  BY <1>4, <1>5 DEF DataInv
<1>7. overviewError' \in BOOLEAN
  BY <1>1
<1>8. CASE r.what = "overview" /\ r.newest
  <2>1. r.sel = selected /\ IsTaken(r)
    BY <1>8 DEF DataInv, AreRequests, IsTaken
  <2>2. shown'["overview"].sel = selected'
    BY <1>3, <1>4, <1>5, <1>8, <2>1, Names
  <2> QED
    BY <1>3, <1>4, <1>6, <1>7, <2>2 DEF DataInv
<1>9. CASE ~(r.what = "overview" /\ r.newest)
  <2>1. shown'["overview"] = shown["overview"] /\ overviewError' = overviewError
    BY <1>1, <1>4, <1>9, Names DEF IsTaken, Sequenced, DataInv
  <2> QED
    BY <1>3, <1>4, <1>6, <1>9, <2>1 DEF DataInv
<1> QED
  BY <1>8, <1>9

LEMMA LoadIsLostKeeps ==
    ASSUME DataInv, NEW r \in requests, LoadIsLost(r)
    PROVE  DataInv'
<1>1. /\ r.what \in Kinds /\ LoadEnds(r, shown, {}) /\ UNCHANGED shown
      /\ overviewError' = (overviewError \/ (r.what = "overview" /\ IsTaken(r)))
  BY DEF LoadIsLost
<1>2. /\ selected' = selected
      /\ AreRequests(requests', selected)
      /\ DOMAIN loading' = Views \cup {"workbench"}
      /\ IsAwaited(requests', loading', busy')
      /\ HasSelected(requests, selected) /\ ~(r.what = "overview" /\ r.newest)
            => HasSelected(requests', selected)
  BY <1>1, LoadEndsKeeps
<1>3. overviewError' \in BOOLEAN /\ (overviewError => overviewError')
  BY <1>1
<1>4. r.what = "overview" /\ r.newest => overviewError'
  BY <1>1 DEF IsTaken
<1> QED
  BY <1>1, <1>2, <1>3, <1>4 DEF DataInv

\* What is shown stays, and so does what is on its way.
LEMMA ShownStays ==
    ASSUME DataInv, UNCHANGED <<selected, shown, overviewError>>,
           AreRequests(requests', selected),
           HasSelected(requests, selected) => HasSelected(requests', selected),
           DOMAIN loading' = Views \cup {"workbench"},
           IsAwaited(requests', loading', busy')
    PROVE  DataInv'
  BY DEF DataInv

\* A status has been asked for by nobody who waits for anything else, and its end releases
\* a refresh.
LEMMA StatusEndsKeeps ==
    ASSUME DataInv, NEW r \in Asked("processing"), NEW run, NEW isLost \in BOOLEAN,
           NEW loads \in SUBSET DataLoads, StatusEnds(r, run, isLost, loads)
    PROVE  DataInv'
<1> DEFINE less == requests \ {r}
           rest == Sent(less, loads, "nobody")
           more == IF r.by \in Refreshes
                   THEN {"diagnostics"} \cup (IF UsageIsBusy(run) THEN {} ELSE DataLoads)
                   ELSE {}
<1>1. /\ UNCHANGED <<selected, shown, overviewError>>
      /\ loading' = Raised(loading, loads \cup more)
      /\ \/ r.by = "mount" /\ requests' = Sent(rest, {"diagnostics"}, "mount")
         \/ requests' = Sent(rest, more, "nobody")
      /\ "refresh" \in busy' => "refresh" \in busy /\ r.by \notin Refreshes
      /\ "clear" \in busy' => "clear" \in busy
  BY DEF StatusEnds
<1>2. more \subseteq Kinds /\ loads \subseteq Kinds /\ (r.by = "mount" => more = {})
  BY Names DEF Kinds, Refreshes
<1>3. \A w \in Kinds : IsAskedFor(w, "nobody") /\ IsAskedFor(w, "mount")
  BY Names DEF IsAskedFor, Refreshes
<1>4. r \in requests /\ r.what = "processing" /\ r.by \notin {"select", "clear"}
  BY DEF Asked, DataInv, AreRequests, IsAskedFor
<1>5. /\ AreRequests(less, selected)
      /\ \A w \in Views : HasNewest(requests, w) => HasNewest(less, w)
      /\ \A T : HasOf(requests, T) /\ r.by \notin T => HasOf(less, T)
      /\ HasSelected(requests, selected) => HasSelected(less, selected)
  BY <1>4, Names, WithoutOne DEF DataInv
<1>6. /\ AreRequests(rest, selected)
      /\ \A w : HasNewest(less, w) \/ w \in loads => HasNewest(rest, w)
      /\ \A T : HasOf(less, T) /\ "nobody" \notin T => HasOf(rest, T)
      /\ HasSelected(less, selected) => HasSelected(rest, selected)
  <2>1. \A w \in loads : IsAskedFor(w, "nobody")
    BY <1>2, <1>3
  <2> QED
    BY <1>5, <2>1, SentHas
<1> HIDE DEF less, rest, more
<1>7. /\ AreRequests(requests', selected)
      /\ \A w \in Views : HasNewest(rest, w) \/ w \in more => HasNewest(requests', w)
      /\ \A T : HasOf(rest, T) /\ "nobody" \notin T => HasOf(requests', T)
      /\ HasSelected(rest, selected) => HasSelected(requests', selected)
  <2>1. CASE r.by = "mount" /\ requests' = Sent(rest, {"diagnostics"}, "mount")
    <3>1. \A w \in {"diagnostics"} : IsAskedFor(w, "mount")
      BY DEF IsAskedFor, Refreshes
    <3> QED
      BY <1>2, <1>6, <2>1, <3>1, SentHas
  <2>2. CASE requests' = Sent(rest, more, "nobody")
    <3>1. \A w \in more : IsAskedFor(w, "nobody")
      BY <1>2, <1>3
    <3> QED
      BY <1>6, <2>2, <3>1, SentHas
  <2> QED
    BY <1>1, <2>1, <2>2
<1>8. /\ DOMAIN loading' = Views \cup {"workbench"}
      /\ \A w \in Views \cup {"workbench"} :
            loading'[w] <=> loading[w] \/ w \in loads \cup more
  <2>1. DOMAIN loading = Views \cup {"workbench"}
    BY DEF DataInv
  <2> QED
    BY <1>1, <2>1, RaisedIs
<1>9. IsAwaited(requests', loading', busy')
  <2>1. \A v \in Views : loading'[v] => HasNewest(requests', v)
    BY <1>5, <1>6, <1>7, <1>8 DEF DataInv, IsAwaited
  <2>2. loading'["workbench"] => HasOf(requests', {"select"})
    <3>1. "workbench" \notin loads \cup more
      BY <1>2, Names
    <3> QED
      BY <1>4, <1>5, <1>6, <1>7, <1>8, <3>1 DEF DataInv, IsAwaited
  <2>3. "refresh" \in busy' => HasOf(requests', Refreshes)
    BY <1>1, <1>5, <1>6, <1>7 DEF DataInv, IsAwaited, Refreshes
  <2>4. "clear" \in busy' => HasOf(requests', {"clear"})
    BY <1>1, <1>4, <1>5, <1>6, <1>7 DEF DataInv, IsAwaited
  <2> QED
    BY <2>1, <2>2, <2>3, <2>4 DEF IsAwaited
<1> QED
  BY <1>1, <1>5, <1>6, <1>7, <1>8, <1>9, ShownStays

LEMMA StatusArrivesKeeps ==
    ASSUME DataInv, NEW r \in requests, StatusArrives(r)
    PROVE  DataInv'
<1>1. LoadsAfter(r.answer) \subseteq DataLoads
  BY Names DEF LoadsAfter
<1>2. r \in Asked("processing") /\ StatusEnds(r, r.answer, FALSE, LoadsAfter(r.answer))
  BY DEF StatusArrives, Captured
<1> QED
  BY <1>1, <1>2, StatusEndsKeeps

LEMMA StatusIsLostKeeps ==
    ASSUME DataInv, NEW r \in requests, StatusIsLost(r)
    PROVE  DataInv'
<1>1. r \in Asked("processing") /\ StatusEnds(r, seen, TRUE, {}) /\ {} \in SUBSET DataLoads
  BY DEF StatusIsLost
<1> QED
  BY <1>1, StatusEndsKeeps

LEMMA PostArrivesKeeps ==
    ASSUME DataInv, NEW r \in requests, PostArrives(r)
    PROVE  DataInv'
<1> DEFINE less == requests \ {r}
<1>1. /\ r.what \in {"post refresh", "post rebuild"}
      /\ requests' = Sent(less, {"processing"}, r.by)
      /\ UNCHANGED <<selected, shown, overviewError, loading, busy>>
  BY DEF PostArrives
<1>2. IsAskedFor(r.what, r.by)
  BY DEF DataInv, AreRequests
<1>3. r.by \notin {"select", "clear"}
  BY <1>1, <1>2 DEF IsAskedFor, Refreshes
<1>4. {"processing"} # {} /\ \A w \in {"processing"} : IsAskedFor(w, r.by)
  BY <1>3 DEF IsAskedFor, Refreshes
<1>5. /\ AreRequests(less, selected)
      /\ \A w \in Views : HasNewest(requests, w) => HasNewest(less, w)
      /\ \A T : HasOf(requests, T) /\ r.by \notin T => HasOf(less, T)
      /\ HasSelected(requests, selected) => HasSelected(less, selected)
  BY <1>1, Names, WithoutOne DEF DataInv
<1> HIDE DEF less
<1>6. /\ AreRequests(requests', selected)
      /\ \A w : HasNewest(less, w) => HasNewest(requests', w)
      /\ \A T : (HasOf(less, T) /\ "nobody" \notin T) \/ r.by \in T => HasOf(requests', T)
      /\ HasSelected(less, selected) => HasSelected(requests', selected)
  BY <1>1, <1>4, <1>5, SentHas
<1>7. IsAwaited(requests', loading', busy')
  BY <1>1, <1>3, <1>5, <1>6 DEF DataInv, IsAwaited, Refreshes
<1> QED
  BY <1>1, <1>5, <1>6, <1>7, ShownStays DEF DataInv

LEMMA DataIsClearedKeeps ==
    ASSUME DataInv, NEW r \in requests, DataIsCleared(r)
    PROVE  DataInv'
<1> DEFINE less == requests \ {r}
           whats == CardLoads \cup {"diagnostics"} \cup Panels
<1>1. /\ r.what = "post clear"
      /\ requests' = Sent(less, whats, "clear")
      /\ loading' = Raised(loading, CardLoads)
      /\ UNCHANGED <<selected, shown, overviewError, busy>>
  BY DEF DataIsCleared
<1>2. r.by = "clear"
  BY <1>1 DEF DataInv, AreRequests, IsAskedFor
<1>3. \A w \in whats : IsAskedFor(w, "clear")
  BY Names DEF IsAskedFor, Refreshes
<1>4. CardLoads \subseteq whats /\ whats # {}
  OBVIOUS
<1>5. /\ AreRequests(less, selected)
      /\ \A w \in Views : HasNewest(requests, w) => HasNewest(less, w)
      /\ \A T : HasOf(requests, T) /\ r.by \notin T => HasOf(less, T)
      /\ HasSelected(requests, selected) => HasSelected(less, selected)
  BY <1>1, Names, WithoutOne DEF DataInv
<1> HIDE DEF less, whats
<1>6. /\ AreRequests(requests', selected)
      /\ \A w : HasNewest(less, w) \/ w \in CardLoads => HasNewest(requests', w)
      /\ \A T : (HasOf(less, T) /\ "nobody" \notin T) \/ "clear" \in T => HasOf(requests', T)
      /\ HasSelected(less, selected) => HasSelected(requests', selected)
  BY <1>1, <1>3, <1>4, <1>5, SentHas
<1>7. /\ DOMAIN loading' = Views \cup {"workbench"}
      /\ \A w \in Views \cup {"workbench"} : loading'[w] <=> loading[w] \/ w \in CardLoads
  <2>1. DOMAIN loading = Views \cup {"workbench"}
    BY DEF DataInv
  <2> QED
    BY <1>1, <2>1, RaisedIs
<1>8. IsAwaited(requests', loading', busy')
  <2>1. "workbench" \notin CardLoads
    BY Names
  <2>2. IsAwaited(requests, loading, busy) /\ busy' = busy
    BY <1>1 DEF DataInv
  <2>3. \A v \in Views : loading'[v] => HasNewest(requests', v)
    BY <1>5, <1>6, <1>7, <2>2 DEF IsAwaited
  <2>4. loading'["workbench"] => HasOf(requests', {"select"})
    BY <1>2, <1>5, <1>6, <1>7, <2>1, <2>2 DEF IsAwaited
  <2>5. "refresh" \in busy' => HasOf(requests', Refreshes)
    BY <1>2, <1>5, <1>6, <2>2 DEF IsAwaited, Refreshes
  <2>6. "clear" \in busy' => HasOf(requests', {"clear"})
    BY <1>6
  <2> QED
    BY <2>3, <2>4, <2>5, <2>6 DEF IsAwaited
<1> QED
  BY <1>1, <1>5, <1>6, <1>7, <1>8, ShownStays

LEMMA PostIsLostKeeps ==
    ASSUME DataInv, NEW r \in requests, PostIsLost(r)
    PROVE  DataInv'
<1> DEFINE less == requests \ {r}
<1>1. /\ r.what \in {"post refresh", "post rebuild", "post clear"}
      /\ requests' = less
      /\ busy' = busy \ Released(r)
      /\ UNCHANGED <<selected, shown, overviewError, loading>>
  BY DEF PostIsLost
<1>2. IsAskedFor(r.what, r.by)
  BY DEF DataInv, AreRequests
<1>3. /\ r.by # "select"
      /\ r.by = "clear" => "clear" \notin busy'
      /\ r.by \in Refreshes => "refresh" \notin busy'
  BY <1>1, <1>2 DEF IsAskedFor, Released, Refreshes
<1>4. /\ AreRequests(less, selected)
      /\ \A w \in Views : HasNewest(requests, w) => HasNewest(less, w)
      /\ \A T : HasOf(requests, T) /\ r.by \notin T => HasOf(less, T)
      /\ HasSelected(requests, selected) => HasSelected(less, selected)
  BY <1>1, Names, WithoutOne DEF DataInv
<1> HIDE DEF less
<1>5. IsAwaited(requests', loading', busy')
  <2>1. busy' \subseteq busy
    BY <1>1
  <2> QED
    BY <1>1, <1>3, <1>4, <2>1 DEF DataInv, IsAwaited
<1> QED
  BY <1>1, <1>4, <1>5, ShownStays DEF DataInv

\* A request that a person or a timer makes, with what it makes busy.
LEMMA AskingKeeps ==
    ASSUME DataInv, NEW what, NEW task, requests' = Sent(requests, {what}, task),
           IsAskedFor(what, task), UNCHANGED <<selected, shown, overviewError, loading>>,
           "refresh" \in busy' => "refresh" \in busy \/ task \in Refreshes,
           "clear" \in busy' => "clear" \in busy \/ task = "clear"
    PROVE  DataInv'
<1>1. /\ AreRequests(requests', selected)
      /\ \A w : HasNewest(requests, w) => HasNewest(requests', w)
      /\ \A T : (HasOf(requests, T) /\ "nobody" \notin T) \/ task \in T => HasOf(requests', T)
      /\ HasSelected(requests, selected) => HasSelected(requests', selected)
  <2>1. AreRequests(requests, selected) /\ (\A w \in {what} : IsAskedFor(w, task))
    BY DEF DataInv
  <2> QED
    BY <2>1, SentHas
<1>2. IsAwaited(requests', loading', busy')
  BY <1>1 DEF DataInv, IsAwaited, Refreshes
<1> QED
  BY <1>1, <1>2, ShownStays DEF DataInv

LEMMA SelectKeeps ==
    ASSUME DataInv, NEW selection, Select(selection)
    PROVE  DataInv'
<1> DEFINE older == Superseded(requests, {"overview"})
           by(r) == IF r.by = "select" THEN "older select" ELSE r.by
           renamed(r) == [r EXCEPT !.by = by(r)]
           newer == [Request("overview", "select") EXCEPT !.sel = selection]
<1>1. /\ selected' = selection
      /\ loading' = [loading EXCEPT !["workbench"] = TRUE]
      /\ requests' = {renamed(r) : r \in older} \cup {newer}
      /\ UNCHANGED <<shown, overviewError, busy>>
  BY DEF Select
<1>2. /\ \A s \in older : \E r \in requests :
            /\ IsRequest(s)
            /\ s.what = r.what /\ s.by = r.by /\ s.sel = r.sel
            /\ s.newest <=> r.newest /\ r.what # "overview"
      /\ \A r \in requests : r.what # "overview" \/ r.by # "nobody" =>
            \E s \in older : /\ s.what = r.what /\ s.by = r.by
                             /\ s.newest <=> r.newest /\ r.what # "overview"
  BY SupersededHas DEF DataInv, AreRequests
<1>3. IsRequest(newer) /\ newer.what = "overview" /\ newer.by = "select" /\ newer.newest
      /\ newer.sel = selection
  <2>1. PICK r : r = Request("overview", "select")
    OBVIOUS
  <2>2. IsRequest(r) /\ r.what = "overview" /\ r.by = "select" /\ r.newest
    BY <2>1, RequestIs
  <2>3. newer = [r EXCEPT !.sel = selection]
    BY <2>1
  <2> HIDE DEF newer
  <2> QED
    BY <2>2, <2>3, OfIs
<1>4. ASSUME NEW r \in older
      PROVE  /\ IsRequest(renamed(r)) /\ renamed(r).what = r.what /\ renamed(r).by = by(r)
             /\ renamed(r).newest = r.newest
  <2>1. r = [what |-> r.what, by |-> r.by, newest |-> r.newest, sel |-> r.sel,
             late |-> r.late, since |-> r.since,
             answer |-> r.answer, rank |-> r.rank] /\ r.newest \in BOOLEAN
    BY <1>2 DEF IsRequest
  <2> HIDE DEF by
  <2>2. renamed(r) = [what |-> r.what, by |-> by(r), newest |-> r.newest, sel |-> r.sel,
                      late |-> r.late, since |-> r.since, answer |-> r.answer, rank |-> r.rank]
    BY <2>1
  <2> QED
    BY <2>1, <2>2 DEF IsRequest
<1> HIDE DEF older, newer, renamed
<1>5. AreRequests(requests', selected')
  <2>1. \A s \in requests' : s = newer \/ \E r \in older : s = renamed(r)
    BY <1>1
  <2>2. ASSUME NEW s \in older
        PROVE  IsAskedFor(s.what, by(s)) /\ ~(s.what = "overview" /\ s.newest)
    <3>1. PICK r \in requests : s.what = r.what /\ s.by = r.by
                                /\ (s.newest <=> r.newest /\ r.what # "overview")
      BY <1>2
    <3>2. IsAskedFor(s.what, s.by)
      BY <3>1 DEF DataInv, AreRequests
    <3>3. IsAskedFor(s.what, by(s))
      BY <3>2 DEF IsAskedFor, Refreshes
    <3> QED
      BY <3>1, <3>3
  <2>3. IsAskedFor("overview", "select")
    BY DEF IsAskedFor, Refreshes
  <2>4. \A r \in older : /\ IsRequest(renamed(r))
                         /\ IsAskedFor(renamed(r).what, renamed(r).by)
                         /\ ~(renamed(r).what = "overview" /\ renamed(r).newest)
    BY <1>4, <2>2
  <2>5. IsRequest(newer) /\ IsAskedFor(newer.what, newer.by) /\ newer.sel = selected'
    BY <1>1, <1>3, <2>3
  <2> QED
    BY <2>1, <2>4, <2>5 DEF AreRequests
<1>6. HasSelected(requests', selected')
  BY <1>1, <1>3 DEF HasSelected
<1>7. HasOf(requests', {"select"})
  BY <1>1, <1>3 DEF HasOf
<1>8. \A w \in Views : HasNewest(requests, w) => HasNewest(requests', w)
  <2> SUFFICES ASSUME NEW w \in Views, NEW r \in requests, r.what = w, r.newest
               PROVE  HasNewest(requests', w)
    BY DEF HasNewest
  <2>1. w # "overview"
    BY Names
  <2>2. PICK s \in older : s.what = w /\ s.newest
    BY <1>2, <2>1
  <2>3. renamed(s) \in requests' /\ renamed(s).what = w /\ renamed(s).newest
    BY <1>1, <1>4, <2>2
  <2> QED
    BY <2>3 DEF HasNewest
<1>9. \A T \in {Refreshes, {"clear"}} : HasOf(requests, T) => HasOf(requests', T)
  <2> SUFFICES ASSUME NEW r \in requests, NEW T \in {Refreshes, {"clear"}}, r.by \in T
               PROVE  HasOf(requests', T)
    BY DEF HasOf
  <2>1. r.by # "nobody" /\ r.by # "select"
    BY DEF Refreshes
  <2>2. PICK s \in older : s.by = r.by
    BY <1>2, <2>1
  <2>3. renamed(s) \in requests' /\ renamed(s).by = r.by
    BY <1>1, <1>4, <2>1, <2>2
  <2> QED
    BY <2>3 DEF HasOf
<1>10. /\ DOMAIN loading' = Views \cup {"workbench"}
       /\ \A v \in Views : loading'[v] = loading[v]
  BY <1>1, Names DEF DataInv
<1>11. IsAwaited(requests', loading', busy')
  BY <1>1, <1>7, <1>8, <1>9, <1>10 DEF DataInv, IsAwaited
<1> QED
  BY <1>1, <1>5, <1>6, <1>10, <1>11 DEF DataInv

LEMMA NextData == DataInv /\ [DataNext]_dataVars => DataInv'
<1> SUFFICES ASSUME DataInv, [DataNext]_dataVars PROVE DataInv'
  OBVIOUS
<1>1. CASE Tick
  <2>1. IsAskedFor("processing", "nobody")
    BY DEF IsAskedFor, Refreshes
  <2> QED
    BY <1>1, <2>1, AskingKeeps DEF Tick
<1>2. ASSUME NEW task \in Refreshes, PerformRefresh(task)
      PROVE  DataInv'
  <2>1. IsAskedFor("post refresh", task)
    BY DEF IsAskedFor, Refreshes
  <2> QED
    BY <1>2, <2>1, AskingKeeps DEF PerformRefresh
<1>3. CASE HardRebuild
  <2>1. IsAskedFor("post rebuild", "rebuild")
    BY DEF IsAskedFor, Refreshes
  <2> QED
    BY <1>3, <2>1, AskingKeeps DEF HardRebuild, Confirm
<1>4. CASE ClearLocalData
  <2>1. IsAskedFor("post clear", "clear")
    BY DEF IsAskedFor, Refreshes
  <2> QED
    BY <1>4, <2>1, AskingKeeps DEF ClearLocalData, Confirm
<1>5. CASE UNCHANGED dataVars
  BY <1>5 DEF dataVars, DataInv
<1> QED
  BY <1>1, <1>2, <1>3, <1>4, <1>5, RunAdvancesKeeps, TellStatusKeeps, LoadArrivesKeeps,
     LoadIsLostKeeps, StatusArrivesKeeps, StatusIsLostKeeps, PostArrivesKeeps,
     DataIsClearedKeeps, PostIsLostKeeps, SelectKeeps
     DEF DataNext, Arrives, Loses, AutomaticRefresh, Refresh, Refreshes

\* Whatever views, panels, windows and currencies there are, and however many requests
\* overlap, are superseded or lost: what is shown is of the selected window and currency
\* unless its request is on its way or its loss is remembered (selectWindow, loadOverview).
THEOREM SelectionShown == DataSpec => []SelectionIsShown
<1>1. DataInv => SelectionIsShown
  BY DEF DataInv, SelectionIsShown, IsLoaded, HasSelected, Asked
<1> QED
  BY <1>1, InitData, NextData, PTL DEF DataSpec

-----------------------------------------------------------------------------
(* Automatic refreshes.                                                     *)

HistoryFields == {"selects", "commands", "losses", "fired", "overtakings", "setbacks", "asked",
                  "missed", "deaf", "budget"}
LoadFields == {"loaded", "late", "sel", "version"}
ServerFields == {"evidence", "queue", "stuck", "run"}

\* The versions of what is shown are versions that there are.
AreVersions(answers, latest) ==
    /\ answers["overview"].version \in 1..latest
    /\ answers["diagnostics"].version \in 1..latest

OnceTypeOK ==
    /\ history = [f \in HistoryFields |-> history[f]]
    /\ history.fired \in Nat /\ history.setbacks \in Nat /\ history.losses \in Nat
    /\ recovery = [f \in {"armed", "last"} |-> recovery[f]]
    /\ recovery.armed \in BOOLEAN
    /\ server = [f \in ServerFields |-> server[f]]
    /\ server.evidence \in Seq(Evidence) /\ Latest \in Nat \ {0}
    /\ shown = [w \in Kinds |-> shown[w]]
    /\ \A w \in Kinds : /\ shown[w] = [f \in LoadFields |-> shown[w][f]]
                        /\ shown[w].loaded \in BOOLEAN
    /\ AreVersions(shown, Latest)
    /\ diagnosed \in BOOLEAN
    /\ shown["diagnostics"].loaded => diagnosed

\* There is one request at most whose overview is taken, and what it will tell is no older
\* than what is shown.
IsOrdered(pending, version, latest) ==
    \A r \in pending :
        /\ TellsEvidence(r.what) => r.since \in 1..latest
        /\ r.what = "overview" /\ r.newest =>
              /\ r.since >= version
              /\ \A s \in pending : s.what = "overview" /\ s.newest => s = r

One(b) == IF b THEN 1 ELSE 0

SignatureOf(answers, evidence) ==
    Signature(evidence[answers["overview"].version].providers,
              IF answers["diagnostics"].loaded
              THEN evidence[answers["diagnostics"].version].report ELSE {})

\* What is shown was not evaluated yet.
Unevaluated(controller, answers, isDiagnosed, evidence) ==
    answers["overview"].loaded /\ isDiagnosed => controller.last # SignatureOf(answers, evidence)

\* How many changes of the evidence what is shown has yet to see.
Ahead(answers, latest) ==
    (latest - answers["overview"].version) + (latest - answers["diagnostics"].version)

\* How many automatic refreshes there may be yet if nothing more changes or is lost.
Due(controller, answers, isDiagnosed, evidence) ==
    One(controller.armed) + One(Unevaluated(controller, answers, isDiagnosed, evidence))
    + Ahead(answers, Len(evidence)) + One(isDiagnosed /\ ~answers["diagnostics"].loaded)

OnceInv ==
    /\ OnceTypeOK
    /\ IsOrdered(requests, shown["overview"].version, Latest)
    /\ history.fired + Due(recovery, shown, diagnosed, server.evidence)
          <= 1 + 2 * (Latest - 1) + history.losses + history.setbacks

LEMMA AppendIs ==
    ASSUME NEW S, NEW seq \in Seq(S), NEW e \in S
    PROVE  /\ Append(seq, e) \in Seq(S) /\ Len(Append(seq, e)) = Len(seq) + 1
           /\ \A i \in 1..Len(seq) : Append(seq, e)[i] = seq[i]
  OBVIOUS

LEMMA OneIs ==
    ASSUME NEW b
    PROVE  One(b) \in {0, 1} /\ (b => One(b) = 1) /\ (~b => One(b) = 0)
  BY DEF One

LEMMA DueIs ==
    ASSUME NEW controller, NEW answers, NEW isDiagnosed, NEW evidence,
           AreVersions(answers, Len(evidence)), Len(evidence) \in Nat
    PROVE  /\ Ahead(answers, Len(evidence)) \in Nat
           /\ Due(controller, answers, isDiagnosed, evidence) \in Nat
<1>1. Ahead(answers, Len(evidence)) \in Nat
  BY DEF Ahead, AreVersions
<1> QED
  BY <1>1, OneIs DEF Due

LEMMA InitOnce == DataInit => OnceInv
<1> SUFFICES ASSUME DataInit PROVE OnceInv
  OBVIOUS
<1>1. PICK budget \in Budgets :
          history = [selects |-> 0, commands |-> 0, losses |-> 0, fired |-> 0,
                     overtakings |-> 0, setbacks |-> 0, asked |-> FALSE, missed |-> FALSE,
                     deaf |-> FALSE, budget |-> budget]
  BY DEF DataInit
<1>2. PICK e \in Evidence, stage \in {"idle", "collecting"} :
          server = [evidence |-> <<e>>, queue |-> {}, stuck |-> FALSE,
                    run |-> Run(stage, {}, FALSE, FALSE)]
  BY DEF DataInit
<1>3. /\ shown = [w \in Kinds |-> NotLoaded] /\ recovery = Resting /\ diagnosed = FALSE
      /\ "overview" \in Kinds /\ "diagnostics" \in Kinds
  BY Names DEF DataInit, Kinds
<1>4. /\ server = [f \in ServerFields |-> server[f]]
      /\ server.evidence = <<e>> /\ Latest = 1 /\ server.evidence \in Seq(Evidence)
  <2>1. server = [f \in ServerFields |-> server[f]] /\ server.evidence = <<e>>
    BY <1>2 DEF ServerFields
  <2>2. <<e>> \in Seq(Evidence) /\ Len(<<e>>) = 1
    OBVIOUS
  <2> QED
    BY <2>1, <2>2 DEF Latest
<1>5. /\ history = [f \in HistoryFields |-> history[f]]
      /\ history.fired = 0 /\ history.losses = 0 /\ history.setbacks = 0
  BY <1>1 DEF HistoryFields
<1>6. /\ recovery = [f \in {"armed", "last"} |-> recovery[f]] /\ recovery.armed = FALSE
  BY <1>3 DEF Resting
<1>7. \A w \in Kinds : /\ shown[w] = NotLoaded
                       /\ NotLoaded = [f \in LoadFields |-> NotLoaded[f]]
                       /\ NotLoaded.loaded = FALSE /\ NotLoaded.version = 1
  BY <1>3 DEF NotLoaded, LoadFields
<1>11. /\ shown["overview"].version = 1 /\ shown["diagnostics"].version = 1
       /\ shown["diagnostics"].loaded = FALSE /\ 1 \in 1..1
  BY <1>3, <1>7
<1>8. OnceTypeOK
  <2>1. AreVersions(shown, Latest)
    BY <1>4, <1>11 DEF AreVersions
  <2>2. shown = [w \in Kinds |-> shown[w]]
    BY <1>3
  <2>3. \A w \in Kinds : /\ shown[w] = [f \in LoadFields |-> shown[w][f]]
                          /\ shown[w].loaded \in BOOLEAN
    BY <1>7
  <2>4. diagnosed \in BOOLEAN /\ (shown["diagnostics"].loaded => diagnosed)
    BY <1>3, <1>11
  <2>5. recovery.armed \in BOOLEAN
    BY <1>6
  <2>6. /\ history.fired \in Nat /\ history.setbacks \in Nat /\ history.losses \in Nat
        /\ Latest \in Nat \ {0}
    BY <1>4, <1>5
  <2> QED
    BY <1>4, <1>5, <1>6, <2>1, <2>2, <2>3, <2>4, <2>5, <2>6, Zenon DEF OnceTypeOK
<1>9. IsOrdered(requests, shown["overview"].version, Latest)
  <2> DEFINE first == {"overview", "processing"} \cup Index \cup Panels \cup FirstViews
  <2>1. requests = {Request(what, "mount") : what \in first}
    BY DEF DataInit
  <2> HIDE DEF first
  <2>2. \A what \in first :
            /\ Request(what, "mount").what = what
            /\ TellsEvidence(what) => Request(what, "mount").since = 1
    BY <1>4 DEF Request
  <2>3. ASSUME NEW r \in requests
        PROVE  /\ TellsEvidence(r.what) => r.since \in 1..Latest
               /\ r.what = "overview" => r.since >= 1 /\ r = Request("overview", "mount")
    <3>1. PICK what \in first : r = Request(what, "mount")
      BY <2>1
    <3>2. r.what = what
      BY <3>1, <2>2
    <3>3. TellsEvidence(what) => r.since = 1
      BY <3>1, <2>2
    <3>4. TellsEvidence("overview")
      BY DEF TellsEvidence
    <3> QED
      BY <1>4, <3>1, <3>2, <3>3, <3>4
  <2> QED
    BY <1>11, <2>3 DEF IsOrdered
<1>10. Due(recovery, shown, diagnosed, server.evidence) <= 1
  <2>3. Len(server.evidence) = 1
    BY <1>4 DEF Latest
  <2>1. Ahead(shown, Len(server.evidence)) = 0
    BY <1>11, <2>3 DEF Ahead
  <2>2. /\ One(recovery.armed) = 0
        /\ One(diagnosed /\ ~shown["diagnostics"].loaded) = 0
        /\ One(Unevaluated(recovery, shown, diagnosed, server.evidence)) \in {0, 1}
    BY <1>3, <1>6, OneIs
  <2> QED
    BY <2>1, <2>2 DEF Due
<1>12. Due(recovery, shown, diagnosed, server.evidence) \in Nat
  BY <1>4, <1>8, DueIs DEF OnceTypeOK, Latest
<1>13. history.fired + Due(recovery, shown, diagnosed, server.evidence)
          <= 1 + 2 * (Latest - 1) + history.losses + history.setbacks
  BY <1>4, <1>5, <1>10, <1>12
<1> QED
  BY <1>8, <1>9, <1>13 DEF OnceInv

-----------------------------------------------------------------------------
(* Which overview is taken.                                                 *)

AreFormed(pending) == \A r \in pending : IsRequest(r)

LEMMA FewerOrdered ==
    ASSUME NEW pending, NEW version, NEW latest, IsOrdered(pending, version, latest),
           NEW less \in SUBSET pending
    PROVE  IsOrdered(less, version, latest)
  BY DEF IsOrdered

LEMMA WithoutOrdered ==
    ASSUME NEW pending, NEW version, NEW latest, IsOrdered(pending, version, latest), NEW r
    PROVE  IsOrdered(pending \ {r}, version, latest)
  BY DEF IsOrdered

LEMMA SentOrdered ==
    ASSUME NEW pending, AreFormed(pending), NEW version, IsOrdered(pending, version, Latest),
           Latest \in Nat \ {0}, version <= Latest, NEW whats, NEW task,
           NEW after, after = Sent(pending, whats, task)
    PROVE  AreFormed(after) /\ IsOrdered(after, version, Latest)
<1> DEFINE kinds == whats \cap Sequenced
           older == Superseded(pending, kinds)
           newer == {Request(what, task) : what \in whats}
<1>1. after = older \cup newer
  BY DEF Sent
<1>2. ASSUME NEW s \in older
      PROVE  \E r \in pending : /\ IsRequest(s) /\ s.what = r.what /\ s.since = r.since
                                /\ s.newest => s = r /\ r.newest /\ r.what \notin kinds
  <2> HIDE DEF kinds
  <2>1. PICK r \in pending : s = [r EXCEPT !.newest = r.newest /\ r.what \notin kinds]
    BY <1>2 DEF Superseded
  <2>2. IsRequest(r) /\ r.newest \in BOOLEAN
    BY DEF AreFormed, IsRequest
  <2> DEFINE b == r.newest /\ r.what \notin kinds
  <2>3. b \in BOOLEAN /\ s = [r EXCEPT !.newest = b]
    BY <2>1
  <2>4. (b => r.newest /\ r.what \notin kinds) /\ (b => b = r.newest)
    BY <2>2
  <2> HIDE DEF b
  <2>5. r = [what |-> r.what, by |-> r.by, newest |-> r.newest, sel |-> r.sel,
             late |-> r.late, since |-> r.since, answer |-> r.answer, rank |-> r.rank]
    BY <2>2 DEF IsRequest
  <2>6. s = [what |-> r.what, by |-> r.by, newest |-> b, sel |-> r.sel,
             late |-> r.late, since |-> r.since, answer |-> r.answer, rank |-> r.rank]
    BY <2>3, <2>5
  <2>7. s.what = r.what /\ s.since = r.since /\ s.newest = b /\ IsRequest(s)
    BY <2>3, <2>6 DEF IsRequest
  <2>8. ASSUME b PROVE s = r
    BY <2>4, <2>5, <2>6, <2>8
  <2> QED
    BY <2>4, <2>7, <2>8
<1>3. ASSUME NEW s \in newer
      PROVE  /\ s.what \in whats /\ s = Request(s.what, task) /\ IsRequest(s)
             /\ TellsEvidence(s.what) => s.since = Latest
  <2>1. PICK what \in whats : s = Request(what, task)
    BY <1>3
  <2>2. s.what = what /\ IsRequest(s)
    BY <2>1, RequestIs
  <2>3. TellsEvidence(what) => s.since = Latest
    BY <2>1 DEF Request
  <2> QED
    BY <2>1, <2>2, <2>3
<1>4. "overview" \in whats => "overview" \in kinds
  BY DEF Sequenced
<1> HIDE DEF older, newer, kinds
<1>5. AreFormed(after)
  BY <1>1, <1>2, <1>3 DEF AreFormed
<1>6. ASSUME NEW s \in after
      PROVE  /\ TellsEvidence(s.what) => s.since \in 1..Latest
             /\ s.what = "overview" /\ s.newest => s.since >= version
  <2>1. CASE s \in older
    BY <1>2, <2>1 DEF IsOrdered
  <2>2. CASE s \in newer
    BY <1>3, <2>2 DEF TellsEvidence
  <2> QED
    BY <1>1, <1>6, <2>1, <2>2
<1>7. ASSUME NEW r \in after, NEW s \in after, r.what = "overview", s.what = "overview",
             r.newest, s.newest
      PROVE  s = r
  <2>1. ASSUME NEW x \in after, x.what = "overview", x.newest
        PROVE  \/ x \in pending /\ "overview" \notin kinds
               \/ x = Request("overview", task) /\ "overview" \in kinds
    <3>1. CASE x \in older
      BY <1>2, <2>1, <3>1
    <3>2. CASE x \in newer
      BY <1>3, <1>4, <2>1, <3>2
    <3> QED
      BY <1>1, <2>1, <3>1, <3>2
  <2>2. CASE "overview" \in kinds
    BY <1>7, <2>1, <2>2
  <2>3. CASE "overview" \notin kinds
    <3>1. r \in pending /\ s \in pending
      BY <1>7, <2>1, <2>3
    <3> QED
      BY <1>7, <3>1 DEF IsOrdered
  <2> QED
    BY <2>2, <2>3
<1>8. IsOrdered(after, version, Latest)
  BY <1>6, <1>7 DEF IsOrdered
<1> QED
  BY <1>5, <1>8

\* A load ends, or a status: one request less, and twice others are sent.
LEMMA EndsOrdered ==
    ASSUME DataInv, OnceInv, NEW r, NEW version, version <= Latest,
           IsOrdered(requests \ {r}, version, Latest), NEW first, NEW then, NEW task, NEW task2,
           \/ requests' = Sent(requests \ {r}, first, task)
           \/ requests' = Sent(Sent(requests \ {r}, first, task), then, task2)
    PROVE  IsOrdered(requests', version, Latest)
<1> DEFINE less == requests \ {r}
           rest == Sent(less, first, task)
<1>1. AreFormed(less) /\ Latest \in Nat \ {0} /\ IsOrdered(less, version, Latest)
  BY DEF DataInv, AreRequests, AreFormed, OnceInv, OnceTypeOK
<1>2. \/ requests' = rest
      \/ requests' = Sent(rest, then, task2)
  OBVIOUS
<1>3. rest = Sent(less, first, task)
  OBVIOUS
<1> HIDE DEF less, rest
<1>4. AreFormed(rest) /\ IsOrdered(rest, version, Latest)
  BY <1>1, <1>3, SentOrdered
<1> QED
  BY <1>1, <1>2, <1>4, SentOrdered

\* An evaluation makes no refresh due that was not.
LEMMA EvaluatedIs ==
    ASSUME OnceTypeOK, NEW now, NEW isDiagnosed \in BOOLEAN, NEW isRefreshing \in BOOLEAN,
           NEW after, after = Evaluated(now, isDiagnosed, isRefreshing)
    PROVE  /\ after = [f \in {"armed", "last"} |-> after[f]]
           /\ after.armed \in BOOLEAN
           /\ One(after.armed) + One(Unevaluated(after, now, isDiagnosed, server.evidence))
                 <= One(recovery.armed) + One(Unevaluated(recovery, now, isDiagnosed, server.evidence))
<1> DEFINE sig == SignatureOf(now, server.evidence)
<1>1. CASE ~(now["overview"].loaded /\ isDiagnosed)
  BY <1>1 DEF One, Evaluated, OnceTypeOK
<1>2. CASE now["overview"].loaded /\ isDiagnosed
  <2>1. after = Scheduled(recovery, sig, isRefreshing)
    BY <1>2 DEF Evaluated, SignatureOf, ProvidersOf, ReportOf
  <2>2. /\ Unevaluated(after, now, isDiagnosed, server.evidence) <=> after.last # sig
        /\ Unevaluated(recovery, now, isDiagnosed, server.evidence) <=> recovery.last # sig
    BY <1>2 DEF Unevaluated
  <2> HIDE DEF sig
  <2>3. CASE sig = {}
    <3>1. after = Resting
      BY <2>1, <2>3 DEF Scheduled
    <3> QED
      BY <2>2, <2>3, <3>1 DEF One, Resting
  <2>4. CASE sig # {} /\ recovery.armed
    <3>1. after = recovery
      BY <2>1, <2>4 DEF Scheduled
    <3> QED
      BY <2>2, <2>4, <3>1 DEF One, OnceTypeOK
  <2>5. CASE sig # {} /\ ~recovery.armed /\ isRefreshing
    <3>1. after = [recovery EXCEPT !.last = sig]
      BY <2>1, <2>5 DEF Scheduled
    <3>2. after = [f \in {"armed", "last"} |-> after[f]] /\ after.last = sig
      BY <3>1 DEF OnceTypeOK
    <3>3. after.armed = FALSE
      BY <2>5, <3>1 DEF OnceTypeOK
    <3> QED
      <4>1. ~Unevaluated(after, now, isDiagnosed, server.evidence) /\ ~after.armed
        BY <2>2, <3>2, <3>3
      <4>2. One(after.armed) = 0 /\ One(Unevaluated(after, now, isDiagnosed, server.evidence)) = 0
        BY <4>1 DEF One
      <4>3. /\ One(recovery.armed) \in Nat
            /\ One(Unevaluated(recovery, now, isDiagnosed, server.evidence)) \in Nat
        BY DEF One
      <4>4. after.armed \in BOOLEAN
        BY <3>3
      <4> QED
        BY <3>2, <4>2, <4>3, <4>4
  <2>6. CASE sig # {} /\ ~recovery.armed /\ ~isRefreshing
    <3>1. after = [armed |-> sig # recovery.last, last |-> sig]
      BY <2>1, <2>6 DEF Scheduled
    <3> DEFINE arms == sig # recovery.last
    <3>2. after = [f \in {"armed", "last"} |-> after[f]] /\ after.last = sig
          /\ after.armed \in BOOLEAN /\ (after.armed <=> sig # recovery.last)
      <4>1. arms \in BOOLEAN /\ after = [armed |-> arms, last |-> sig]
        BY <3>1
      <4> HIDE DEF arms
      <4>2. after = [f \in {"armed", "last"} |-> after[f]] /\ after.last = sig
            /\ after.armed = arms
        BY <4>1
      <4> QED
        BY <4>1, <4>2 DEF arms
    <3> QED
      BY <2>2, <2>6, <3>2 DEF One
  <2> QED
    BY <2>3, <2>4, <2>5, <2>6 DEF OnceTypeOK
<1> QED
  BY <1>1, <1>2


\* What is shown is late or not, and the same otherwise.
SameLoads ==
    /\ shown' = [w \in Kinds |-> shown'[w]]
    /\ \A w \in Kinds : /\ shown'[w] = [f \in LoadFields |-> shown'[w][f]]
                        /\ shown'[w].loaded = shown[w].loaded
                        /\ shown'[w].version = shown[w].version

LEMMA OutdateSame ==
    ASSUME DataInv, OnceTypeOK, Outdate, NEW version, NEW latest,
           IsOrdered(requests, version, latest)
    PROVE  SameLoads /\ IsOrdered(requests', version, latest)
<1>1. PICK now : /\ now = [shown["overview"] EXCEPT !.late = TRUE]
                 /\ now.loaded = shown["overview"].loaded
                 /\ now.version = shown["overview"].version
                 /\ IsLoad(now)
  <2>1. IsLoad(shown["overview"])
    BY Names DEF DataInv
  <2> QED
    BY <2>1, LaterIs
<1>2. shown' = [shown EXCEPT !["overview"] = now]
  BY <1>1 DEF Outdate
<1>3. now = [f \in LoadFields |-> now[f]]
  BY <1>1 DEF LoadFields, IsLoad
<1>4. SameLoads
  BY <1>1, <1>2, <1>3, Names DEF OnceTypeOK, SameLoads
<1> DEFINE outdated(r) == [r EXCEPT !.late = r.what = "overview"]
<1>5. ASSUME NEW r \in requests
      PROVE  /\ outdated(r).what = r.what /\ outdated(r).newest = r.newest
             /\ outdated(r).since = r.since
  <2> DEFINE late == r.what = "overview"
  <2>1. r = [what |-> r.what, by |-> r.by, newest |-> r.newest, sel |-> r.sel,
             late |-> r.late, since |-> r.since, answer |-> r.answer, rank |-> r.rank]
    BY DEF DataInv, AreRequests, IsRequest
  <2>2. outdated(r) = [r EXCEPT !.late = late]
    OBVIOUS
  <2> HIDE DEF late, outdated
  <2>3. outdated(r) = [what |-> r.what, by |-> r.by, newest |-> r.newest, sel |-> r.sel,
                       late |-> late, since |-> r.since, answer |-> r.answer, rank |-> r.rank]
    BY <2>1, <2>2
  <2> QED
    BY <2>3
<1>6. requests' = {outdated(r) : r \in requests}
  BY DEF Outdate
<1> HIDE DEF outdated
<1>7. IsOrdered(requests', version, latest)
  BY <1>5, <1>6 DEF IsOrdered
<1> QED
  BY <1>4, <1>7

LEMMA SameLoadsIs ==
    ASSUME OnceTypeOK, UNCHANGED shown \/ SameLoads
    PROVE  /\ SameLoads
           /\ shown'["overview"].loaded = shown["overview"].loaded
           /\ shown'["overview"].version = shown["overview"].version
           /\ shown'["diagnostics"].loaded = shown["diagnostics"].loaded
           /\ shown'["diagnostics"].version = shown["diagnostics"].version
<1>1. SameLoads
  BY DEF OnceTypeOK, SameLoads
<1> QED
  BY <1>1, Names DEF SameLoads, Kinds, Sequenced

\* The counters of a step that is no automatic refresh.
IsCounted(losses, setbacks) ==
    /\ history' = [f \in HistoryFields |-> history'[f]]
    /\ history'.fired = history.fired
    /\ history'.losses = losses /\ history'.setbacks = setbacks

\* A step that neither answers nor evaluates anew.
LEMMA OnceAside ==
    ASSUME OnceInv, UNCHANGED shown \/ SameLoads, UNCHANGED diagnosed,
           server' = [f \in ServerFields |-> server'[f]],
           server'.evidence = server.evidence,
           IsOrdered(requests', shown["overview"].version, Latest),
           NEW more \in Nat, IsCounted(history.losses + more, history.setbacks),
           \/ UNCHANGED recovery
           \/ \E isRefreshing \in BOOLEAN : recovery' = Evaluated(shown, diagnosed, isRefreshing)
    PROVE  OnceInv'
<1> DEFINE evidence == server.evidence
           waits(controller) == One(controller.armed)
                                + One(Unevaluated(controller, shown, diagnosed, evidence))
           old == Due(recovery, shown, diagnosed, evidence)
           new == Due(recovery', shown, diagnosed, evidence)
<1>0. OnceTypeOK /\ diagnosed \in BOOLEAN
  BY DEF OnceInv, OnceTypeOK
<1>1. /\ recovery' = [f \in {"armed", "last"} |-> recovery'[f]]
      /\ recovery'.armed \in BOOLEAN
      /\ waits(recovery') <= waits(recovery)
  <2>1. CASE UNCHANGED recovery
    BY <1>0, <2>1, OneIs DEF OnceTypeOK
  <2>2. ASSUME NEW isRefreshing \in BOOLEAN,
               recovery' = Evaluated(shown, diagnosed, isRefreshing)
        PROVE  /\ recovery' = [f \in {"armed", "last"} |-> recovery'[f]]
               /\ recovery'.armed \in BOOLEAN
               /\ waits(recovery') <= waits(recovery)
    BY <1>0, <2>2, EvaluatedIs
  <2> QED
    BY <2>1, <2>2
<1>2. /\ SameLoads
      /\ shown'["overview"].loaded = shown["overview"].loaded
      /\ shown'["overview"].version = shown["overview"].version
      /\ shown'["diagnostics"].loaded = shown["diagnostics"].loaded
      /\ shown'["diagnostics"].version = shown["diagnostics"].version
  BY <1>0, SameLoadsIs
<1>3. Latest' = Latest
  BY DEF Latest
<1>4. OnceTypeOK'
  <2>1. /\ history'.fired \in Nat /\ history'.setbacks \in Nat /\ history'.losses \in Nat
        /\ history' = [f \in HistoryFields |-> history'[f]]
    BY <1>0 DEF OnceTypeOK, IsCounted
  <2>2. /\ shown' = [w \in Kinds |-> shown'[w]]
        /\ \A w \in Kinds : /\ shown'[w] = [f \in LoadFields |-> shown'[w][f]]
                            /\ shown'[w].loaded \in BOOLEAN
    BY <1>0, <1>2 DEF OnceTypeOK, SameLoads
  <2>3. AreVersions(shown', Latest)
    BY <1>0, <1>2 DEF OnceTypeOK, AreVersions
  <2>4. /\ server'.evidence \in Seq(Evidence) /\ Latest' \in Nat \ {0}
        /\ AreVersions(shown', Latest')
    BY <1>0, <1>3, <2>3 DEF OnceTypeOK
  <2>5. diagnosed' \in BOOLEAN /\ (shown'["diagnostics"].loaded => diagnosed')
    BY <1>0, <1>2 DEF OnceTypeOK
  <2> QED
    BY <1>1, <2>1, <2>2, <2>4, <2>5 DEF OnceTypeOK
<1>5. Due(recovery', shown', diagnosed', server'.evidence) = new
  BY <1>2 DEF Due, Unevaluated, SignatureOf, Ahead
<1>6. /\ old = waits(recovery) + Ahead(shown, Latest)
               + One(diagnosed /\ ~shown["diagnostics"].loaded)
      /\ new = waits(recovery') + Ahead(shown, Latest)
               + One(diagnosed /\ ~shown["diagnostics"].loaded)
  BY DEF Due, Latest
<1>7. /\ old \in Nat /\ Ahead(shown, Latest) \in Nat /\ Latest \in Nat
      /\ waits(recovery) \in Nat /\ waits(recovery') \in Nat
  BY <1>0, DueIs, OneIs DEF OnceTypeOK, Latest
<1>8. /\ history.fired + old <= 1 + 2 * (Latest - 1) + history.losses + history.setbacks
      /\ history'.fired = history.fired /\ history'.setbacks = history.setbacks
      /\ history'.losses = history.losses + more
      /\ history.fired \in Nat /\ history.losses \in Nat /\ history.setbacks \in Nat
  BY DEF OnceInv, OnceTypeOK, IsCounted
<1>9. One(diagnosed /\ ~shown["diagnostics"].loaded) \in {0, 1}
  BY OneIs
<1> HIDE DEF waits, old, new
<1>10. new <= old
  BY <1>1, <1>6, <1>7, <1>9
<1>11. new \in Nat
  BY <1>6, <1>7, <1>9
<1>12. history'.fired + new <= 1 + 2 * (Latest' - 1) + history'.losses + history'.setbacks
  BY <1>3, <1>7, <1>8, <1>10, <1>11
<1>13. IsOrdered(requests', shown'["overview"].version, Latest')
  BY <1>2, <1>3
<1> QED
  BY <1>4, <1>5, <1>12, <1>13 DEF OnceInv

LEMMA NumbersAre ==
    ASSUME OnceTypeOK
    PROVE  /\ Len(server.evidence) \in Nat \ {0} /\ AreVersions(shown, Len(server.evidence))
           /\ Ahead(shown, Len(server.evidence)) \in Nat
           /\ Due(recovery, shown, diagnosed, server.evidence) \in Nat
<1>1. Len(server.evidence) \in Nat \ {0} /\ AreVersions(shown, Len(server.evidence))
  BY DEF OnceTypeOK, Latest
<1> QED
  BY <1>1, DueIs

LEMMA VersionIs ==
    ASSUME OnceTypeOK
    PROVE  shown["overview"].version <= Latest
  BY DEF OnceTypeOK, AreVersions

LEMMA AutomaticRefreshOnce ==
    ASSUME DataInv, OnceInv, AutomaticRefresh
    PROVE  OnceInv'
<1> DEFINE due(controller) == Due(controller, shown, diagnosed, server.evidence)
<1>1. /\ recovery.armed
      /\ history' = [history EXCEPT !.fired = @ + 1]
      /\ recovery' = [recovery EXCEPT !.armed = FALSE]
      /\ UNCHANGED <<server, shown, diagnosed>>
      /\ requests' = Sent(requests, {"post refresh"}, "recovery")
  BY DEF AutomaticRefresh, PerformRefresh
<1>0. OnceTypeOK
  BY DEF OnceInv
<1>2. /\ history' = [f \in HistoryFields |-> history'[f]]
      /\ history'.fired = history.fired + 1
      /\ history'.setbacks = history.setbacks /\ history'.losses = history.losses
  BY <1>0, <1>1 DEF OnceTypeOK, HistoryFields
<1>3. /\ recovery' = [f \in {"armed", "last"} |-> recovery'[f]]
      /\ recovery'.armed = FALSE /\ recovery'.last = recovery.last
  BY <1>0, <1>1 DEF OnceTypeOK
<1>4. OnceTypeOK'
  <2>1. recovery'.armed \in BOOLEAN
    BY <1>3
  <2>2. history'.fired \in Nat /\ history'.setbacks \in Nat /\ history'.losses \in Nat
    BY <1>0, <1>2 DEF OnceTypeOK
  <2>3. Latest' = Latest
    BY <1>1 DEF Latest
  <2> QED
    BY <1>0, <1>1, <1>2, <1>3, <2>1, <2>2, <2>3 DEF OnceTypeOK
<1>5. due(recovery') + 1 = due(recovery)
  <2>1. /\ One(recovery'.armed) = 0 /\ One(recovery.armed) = 1
    BY <1>1, <1>3, OneIs
  <2>2. Unevaluated(recovery', shown, diagnosed, server.evidence)
        <=> Unevaluated(recovery, shown, diagnosed, server.evidence)
    BY <1>3 DEF Unevaluated
  <2>3. One(Unevaluated(recovery', shown, diagnosed, server.evidence))
        = One(Unevaluated(recovery, shown, diagnosed, server.evidence))
    BY <2>2 DEF One
  <2>4. /\ One(Unevaluated(recovery, shown, diagnosed, server.evidence)) \in Nat
        /\ Ahead(shown, Len(server.evidence)) \in Nat
        /\ One(diagnosed /\ ~shown["diagnostics"].loaded) \in Nat
    BY <1>0, NumbersAre, OneIs
  <2> QED
    BY <2>1, <2>3, <2>4 DEF Due
<1>6. IsOrdered(requests', shown'["overview"].version, Latest')
  <2>1. /\ AreFormed(requests) /\ Latest \in Nat \ {0} /\ shown["overview"].version <= Latest
        /\ IsOrdered(requests, shown["overview"].version, Latest)
    BY DEF DataInv, AreRequests, AreFormed, OnceInv, OnceTypeOK, AreVersions
  <2>2. IsOrdered(requests', shown["overview"].version, Latest)
    BY <1>1, <2>1, SentOrdered
  <2>3. Latest' = Latest
    BY <1>1 DEF Latest
  <2> QED
    BY <1>1, <2>2, <2>3
<1>7. history'.fired + due(recovery')
         <= 1 + 2 * (Latest' - 1) + history'.losses + history'.setbacks
  <2>1. Latest' = Latest /\ Latest \in Nat
    BY <1>0, <1>1 DEF Latest, OnceTypeOK
  <2>2. /\ history.fired + due(recovery)
              <= 1 + 2 * (Latest - 1) + history.losses + history.setbacks
        /\ history.fired \in Nat /\ history.losses \in Nat /\ history.setbacks \in Nat
    BY DEF OnceInv, OnceTypeOK
  <2>3. due(recovery) \in Nat /\ due(recovery') \in Nat
    BY <1>0, DueIs DEF OnceTypeOK, Latest
  <2> HIDE DEF due
  <2> QED
    BY <1>2, <1>5, <2>1, <2>2, <2>3
<1> QED
  BY <1>1, <1>4, <1>6, <1>7 DEF OnceInv

\* What was told stays what it was when the evidence changes, and what is shown is a version
\* further behind in two of its parts.
LEMMA ModuleEndsOnce ==
    ASSUME DataInv, OnceInv, NEW next, next = [f \in ServerFields |-> next[f]],
           next.evidence = server.evidence, ModuleEnds(next),
           UNCHANGED <<diagnosed, recovery>>
    PROVE  OnceInv'
<1>0. OnceTypeOK
  BY DEF OnceInv
<1>1. UNCHANGED <<requests, shown>> \/ Outdate
  BY DEF ModuleEnds
<1>2. UNCHANGED shown \/ SameLoads
  BY <1>0, <1>1, OutdateSame DEF OnceInv
<1>3. IsOrdered(requests', shown["overview"].version, Latest)
  <2>1. IsOrdered(requests, shown["overview"].version, Latest)
    BY DEF OnceInv
  <2>2. CASE Outdate
    BY <1>0, <2>1, <2>2, OutdateSame
  <2> QED
    BY <1>1, <2>1, <2>2
<1>4. IsCounted(history.losses, history.setbacks)
  <2>1. \E b : history' = [history EXCEPT !.asked = b]
    BY DEF ModuleEnds
  <2> QED
    BY <1>0, <2>1 DEF OnceTypeOK, IsCounted, HistoryFields
<1>5. CASE server' = next
  <2>1. 0 \in Nat /\ history.losses + 0 = history.losses
    BY <1>0 DEF OnceTypeOK
  <2> QED
    BY <1>2, <1>3, <1>4, <1>5, <2>1, OnceAside
<1>6. ASSUME NEW e \in Evidence, server' = [next EXCEPT !.evidence = Append(@, e)]
      PROVE  OnceInv'
  <2> DEFINE old == Due(recovery, shown, diagnosed, server.evidence)
             new == Due(recovery', shown', diagnosed', server'.evidence)
  <2>1. server' = [f \in ServerFields |-> server'[f]] /\ server'.evidence = Append(server.evidence, e)
    BY <1>6 DEF ServerFields
  <2>2. server.evidence \in Seq(Evidence) /\ Latest \in Nat \ {0}
    BY <1>0 DEF OnceTypeOK
  <2>3. /\ server'.evidence \in Seq(Evidence) /\ Len(server'.evidence) = Len(server.evidence) + 1
        /\ \A i \in 1..Len(server.evidence) : server'.evidence[i] = server.evidence[i]
    BY <2>1, <2>2, AppendIs
  <2>4. Latest' = Latest + 1 /\ Latest' \in Nat \ {0}
    BY <2>2, <2>3 DEF Latest
  <2>5. /\ SameLoads
        /\ shown'["overview"].loaded = shown["overview"].loaded
        /\ shown'["overview"].version = shown["overview"].version
        /\ shown'["diagnostics"].loaded = shown["diagnostics"].loaded
        /\ shown'["diagnostics"].version = shown["diagnostics"].version
    BY <1>0, <1>2, SameLoadsIs
  <2>6. AreVersions(shown, Latest) /\ AreVersions(shown', Latest')
    BY <1>0, <2>2, <2>4, <2>5 DEF OnceTypeOK, AreVersions
  <2>7. OnceTypeOK'
    <3>1. /\ history'.fired \in Nat /\ history'.setbacks \in Nat /\ history'.losses \in Nat
          /\ history' = [f \in HistoryFields |-> history'[f]]
      BY <1>0, <1>4 DEF OnceTypeOK, IsCounted
    <3>2. /\ shown' = [w \in Kinds |-> shown'[w]]
          /\ \A w \in Kinds : /\ shown'[w] = [f \in LoadFields |-> shown'[w][f]]
                              /\ shown'[w].loaded \in BOOLEAN
      BY <1>0, <2>5 DEF OnceTypeOK, SameLoads
    <3>3. diagnosed' \in BOOLEAN /\ (shown'["diagnostics"].loaded => diagnosed')
      BY <1>0, <2>5 DEF OnceTypeOK
    <3>4. recovery' = [f \in {"armed", "last"} |-> recovery'[f]] /\ recovery'.armed \in BOOLEAN
      BY <1>0 DEF OnceTypeOK
    <3> QED
      BY <2>1, <2>3, <2>4, <2>6, <3>1, <3>2, <3>3, <3>4 DEF OnceTypeOK
  <2>8. SignatureOf(shown', server'.evidence) = SignatureOf(shown, server.evidence)
    <3>1. /\ server'.evidence[shown["overview"].version]
             = server.evidence[shown["overview"].version]
          /\ server'.evidence[shown["diagnostics"].version]
             = server.evidence[shown["diagnostics"].version]
      BY <2>3, <2>6 DEF AreVersions, Latest
    <3> QED
      BY <2>5, <3>1 DEF SignatureOf
  <2>9. One(Unevaluated(recovery', shown', diagnosed', server'.evidence))
        = One(Unevaluated(recovery, shown, diagnosed, server.evidence))
    <3>1. Unevaluated(recovery', shown', diagnosed', server'.evidence)
          <=> Unevaluated(recovery, shown, diagnosed, server.evidence)
      BY <2>5, <2>8 DEF Unevaluated
    <3> QED
      BY <3>1 DEF One
  <2>10. new = old + 2
    <3>1. Ahead(shown', Len(server'.evidence)) = Ahead(shown, Len(server.evidence)) + 2
      BY <2>2, <2>3, <2>5, <2>6 DEF Ahead, AreVersions, Latest
    <3>2. One(diagnosed' /\ ~shown'["diagnostics"].loaded)
          = One(diagnosed /\ ~shown["diagnostics"].loaded)
      BY <2>5
    <3>3. /\ One(recovery.armed) \in Nat /\ Ahead(shown, Len(server.evidence)) \in Nat
          /\ One(Unevaluated(recovery, shown, diagnosed, server.evidence)) \in Nat
          /\ One(diagnosed /\ ~shown["diagnostics"].loaded) \in Nat
          /\ One(recovery'.armed) = One(recovery.armed)
      BY <1>0, NumbersAre, OneIs
    <3> QED
      BY <2>9, <3>1, <3>2, <3>3 DEF Due
  <2>11. history'.fired + new
            <= 1 + 2 * (Latest' - 1) + history'.losses + history'.setbacks
    <3>1. /\ history.fired + old <= 1 + 2 * (Latest - 1) + history.losses + history.setbacks
          /\ history.fired \in Nat /\ history.losses \in Nat /\ history.setbacks \in Nat
      BY DEF OnceInv, OnceTypeOK
    <3>2. /\ history'.fired = history.fired /\ history'.losses = history.losses
          /\ history'.setbacks = history.setbacks
      BY <1>4 DEF IsCounted
    <3>3. old \in Nat
      BY <1>0, NumbersAre
    <3> HIDE DEF old, new
    <3>4. Latest \in Nat /\ Latest' = Latest + 1
      BY <2>2, <2>4
    <3>5. history.fired + (old + 2)
            <= 1 + 2 * ((Latest + 1) - 1) + history.losses + history.setbacks
      BY <3>1, <3>3, <3>4
    <3> QED
      BY <2>10, <3>2, <3>4, <3>5
  <2>12. IsOrdered(requests', shown'["overview"].version, Latest')
    BY <1>3, <2>2, <2>4, <2>5 DEF IsOrdered
  <2> QED
    BY <2>7, <2>11, <2>12 DEF OnceInv
<1> QED
  BY <1>5, <1>6 DEF ModuleEnds

\* The daemon but for its evidence.
LEMMA ServersAre ==
    ASSUME OnceTypeOK
    PROVE  /\ \A run : /\ [server EXCEPT !.run = run]
                          = [f \in ServerFields |-> [server EXCEPT !.run = run][f]]
                       /\ [server EXCEPT !.run = run].evidence = server.evidence
                       /\ [server EXCEPT !.run = run].run = run
           /\ \A queue : /\ [server EXCEPT !.queue = queue]
                            = [f \in ServerFields |-> [server EXCEPT !.queue = queue][f]]
                         /\ [server EXCEPT !.queue = queue].evidence = server.evidence
           /\ \A run, isStuck :
                 LET after == [server EXCEPT !.run = run, !.queue = {}, !.stuck = isStuck]
                 IN  after = [f \in ServerFields |-> after[f]]
                     /\ after.evidence = server.evidence /\ after.run = run /\ after.queue = {}
<1>1. server = [f \in ServerFields |-> server[f]]
  BY DEF OnceTypeOK
<1> QED
  BY <1>1 DEF ServerFields

\* The daemon rests after a run, or what was queued begins.
Rests(run, next) ==
    server.queue = {} /\ next = [server EXCEPT !.run = [run EXCEPT !.stage = "idle"]]
Begins(kind, isStuck, next) ==
    /\ kind \in server.queue
    /\ next = [server EXCEPT !.run = Begun(kind), !.queue = {}, !.stuck = isStuck]

LEMMA FollowingIs ==
    ASSUME NEW run, NEW next \in Following(run)
    PROVE  Rests(run, next) \/ \E kind, isStuck : Begins(kind, isStuck, next)
<1>1. CASE server.queue = {}
  BY <1>1 DEF Following, Rests
<1>2. CASE server.queue # {}
  <2>1. PICK kind \in server.queue :
            next = [server EXCEPT !.run = Begun(kind), !.queue = {},
                                  !.stuck = @ \/ server.queue \ {kind} = {"rebuild"}]
    BY <1>2 DEF Following
  <2>2. Begins(kind, server.stuck \/ server.queue \ {kind} = {"rebuild"}, next)
    BY <2>1 DEF Begins
  <2> QED
    BY <2>2
<1> QED
  BY <1>1, <1>2

LEMMA RunAdvancesOnce ==
    ASSUME DataInv, OnceInv, RunAdvances
    PROVE  OnceInv'
<1>0. OnceTypeOK /\ UNCHANGED <<diagnosed, recovery>>
  BY DEF OnceInv, RunAdvances
<1>1. CASE /\ server' = [server EXCEPT !.run.stage = "collecting"]
           /\ UNCHANGED <<history, requests, shown>>
  <2>1. PICK run : server' = [server EXCEPT !.run = run]
    BY <1>1
  <2>2. server' = [f \in ServerFields |-> server'[f]] /\ server'.evidence = server.evidence
    BY <1>0, <2>1, ServersAre
  <2>3. 0 \in Nat /\ IsCounted(history.losses + 0, history.setbacks)
    BY <1>0, <1>1 DEF OnceTypeOK, IsCounted
  <2>4. IsOrdered(requests', shown["overview"].version, Latest)
    BY <1>1 DEF OnceInv
  <2> QED
    BY <1>0, <1>1, <2>2, <2>3, <2>4, OnceAside
<1>2. ASSUME NEW run, ModuleEnds([server EXCEPT !.run = run])
      PROVE  OnceInv'
  BY <1>0, <1>2, ServersAre, ModuleEndsOnce
<1>3. ASSUME NEW run, NEW next \in Following(run), ModuleEnds(next)
      PROVE  OnceInv'
  <2>1. /\ next = [f \in ServerFields |-> next[f]]
        /\ next.evidence = server.evidence
    <3>1. ASSUME NEW after, next = [server EXCEPT !.run = after]
          PROVE  /\ next = [f \in ServerFields |-> next[f]]
                 /\ next.evidence = server.evidence
      BY <1>0, <3>1, ServersAre
    <3>2. ASSUME NEW after, NEW isStuck,
                 next = [server EXCEPT !.run = after, !.queue = {}, !.stuck = isStuck]
          PROVE  /\ next = [f \in ServerFields |-> next[f]]
                 /\ next.evidence = server.evidence
      <4>1. server = [f \in ServerFields |-> server[f]]
        BY <1>0 DEF OnceTypeOK
      <4> QED
        BY <3>2, <4>1 DEF ServerFields
    <3>3. CASE Rests(run, next)
      BY <3>1, <3>3 DEF Rests
    <3>4. ASSUME NEW kind, NEW isStuck, Begins(kind, isStuck, next)
          PROVE  /\ next = [f \in ServerFields |-> next[f]]
                 /\ next.evidence = server.evidence
      <4> DEFINE after == Begun(kind)
      <4>1. next = [server EXCEPT !.run = after, !.queue = {}, !.stuck = isStuck]
        BY <3>4 DEF Begins
      <4> HIDE DEF after
      <4> QED
        BY <3>2, <4>1
    <3> QED
      BY <1>3, <3>3, <3>4, FollowingIs
  <2> QED
    BY <1>0, <1>3, <2>1, ModuleEndsOnce
<1> QED
  BY <1>1, <1>2, <1>3 DEF RunAdvances

LEMMA OneOr ==
    ASSUME NEW a, NEW b, NEW c, a => b \/ c
    PROVE  One(a) <= One(b) + One(c)
  BY DEF One

\* An answer about the evidence is evaluated when it is taken.  What it has seen of the
\* evidence pays for the evaluation, and a report that was overtaken is a setback.
LEMMA LoadArrivesOnce ==
    ASSUME DataInv, OnceInv, NEW r \in requests, NEW version \in Versions(r),
           LoadArrives(r, version)
    PROVE  OnceInv'
<1> DEFINE load == [loaded |-> TRUE, late |-> r.late, sel |-> r.sel, version |-> version]
           isEvaluated == TellsEvidence(r.what) /\ IsTaken(r)
           more == IF r.what = "index" THEN Views \ KnownViews ELSE {}
           rest == Sent(requests \ {r}, more, r.by)
<1>1. /\ r.what \in Kinds
      /\ shown' = IF IsTaken(r) THEN [shown EXCEPT ![r.what] = load] ELSE shown
      /\ recovery' = IF isEvaluated THEN Evaluated(shown', diagnosed', "refresh" \in busy)
                     ELSE recovery
      /\ UNCHANGED server
      /\ diagnosed' = (diagnosed \/ r.what = "diagnostics")
      /\ \/ requests' = rest
         \/ requests' = Sent(rest, {"diagnostics"}, "mount")
      /\ history' = IF FallsBack(r, version)
                    THEN [history EXCEPT !.overtakings = @ + 1,
                              !.setbacks = @ + 1 + (shown["diagnostics"].version - version)]
                    ELSE history
  BY DEF LoadArrives, LoadEnds
<1>2. OnceTypeOK /\ Latest \in Nat \ {0} /\ Latest' = Latest
  BY <1>1 DEF OnceInv, OnceTypeOK, Latest
<1>3. /\ \A w \in Kinds : shown'[w] = IF IsTaken(r) /\ w = r.what THEN load ELSE shown[w]
      /\ shown' = [w \in Kinds |-> shown'[w]]
  BY <1>1, <1>2 DEF OnceTypeOK
<1>4. /\ load = [f \in LoadFields |-> load[f]]
      /\ load.loaded = TRUE /\ load.version = version
  BY DEF LoadFields
<1> HIDE DEF load
<1>5. "overview" \in Kinds /\ "diagnostics" \in Kinds /\ "diagnostics" \notin Sequenced
  BY Names DEF Kinds, Sequenced
<1>6. \A w \in Kinds : /\ shown'[w] = [f \in LoadFields |-> shown'[w][f]]
                       /\ shown'[w].loaded \in BOOLEAN
  <2> SUFFICES ASSUME NEW w \in Kinds
               PROVE  /\ shown'[w] = [f \in LoadFields |-> shown'[w][f]]
                      /\ shown'[w].loaded \in BOOLEAN
    OBVIOUS
  <2>1. CASE shown'[w] = load
    BY <1>4, <2>1
  <2>2. CASE shown'[w] = shown[w]
    BY <1>2, <2>2 DEF OnceTypeOK
  <2> QED
    BY <1>3, <2>1, <2>2
<1>7. diagnosed' \in BOOLEAN /\ (shown'["diagnostics"].loaded => diagnosed')
  BY <1>1, <1>2, <1>3, <1>5 DEF OnceTypeOK
<1>8. /\ recovery' = [f \in {"armed", "last"} |-> recovery'[f]]
      /\ recovery'.armed \in BOOLEAN
      /\ One(recovery'.armed) + One(Unevaluated(recovery', shown', diagnosed', server.evidence))
            <= One(recovery.armed)
               + One(Unevaluated(recovery, shown', diagnosed', server.evidence))
  <2>1. CASE isEvaluated
    <3> DEFINE isRefreshing == "refresh" \in busy
    <3>1. isRefreshing \in BOOLEAN /\ recovery' = Evaluated(shown', diagnosed', isRefreshing)
      BY <1>1, <2>1
    <3> HIDE DEF isRefreshing
    <3> QED
      BY <1>2, <1>7, <3>1, EvaluatedIs
  <2>2. CASE ~isEvaluated
    <3>1. recovery' = recovery
      BY <1>1, <2>2
    <3> QED
      BY <1>2, <3>1, OneIs DEF OnceTypeOK
  <2> QED
    BY <2>1, <2>2
<1>9. version \in 1..Latest
  <2>1. CASE TellsEvidence(r.what)
    <3>1. r.since \in 1..Latest /\ version \in r.since..Latest
      BY <2>1 DEF OnceInv, IsOrdered, Versions
    <3> QED
      BY <1>2, <3>1
  <2>2. CASE ~TellsEvidence(r.what)
    BY <1>2, <2>2 DEF Versions
  <2> QED
    BY <2>1, <2>2
<1>10. AreVersions(shown, Latest) /\ AreVersions(shown', Latest')
  <2>1. AreVersions(shown, Latest)
    BY <1>2 DEF OnceTypeOK
  <2> QED
    BY <1>2, <1>3, <1>4, <1>5, <1>9, <2>1 DEF AreVersions
<1>11. /\ history' = [f \in HistoryFields |-> history'[f]]
       /\ history'.fired = history.fired /\ history'.losses = history.losses
       /\ history'.setbacks = history.setbacks + IF FallsBack(r, version)
                                                 THEN 1 + (shown["diagnostics"].version - version)
                                                 ELSE 0
  <2>1. history = [f \in HistoryFields |-> history[f]] /\ history.setbacks \in Nat
    BY <1>2 DEF OnceTypeOK
  <2>2. CASE ~FallsBack(r, version)
    BY <1>1, <2>1, <2>2
  <2>3. CASE FallsBack(r, version)
    <3> DEFINE back == shown["diagnostics"].version - version
    <3>1. back \in Int
      BY <1>9, <1>10 DEF AreVersions
    <3>2. history' = [history EXCEPT !.overtakings = @ + 1, !.setbacks = @ + 1 + back]
      BY <1>1, <2>3
    <3> HIDE DEF back
    <3>3. history' = [f \in HistoryFields |-> history'[f]] /\ history'.fired = history.fired
          /\ history'.losses = history.losses /\ history'.setbacks = history.setbacks + 1 + back
      BY <2>1, <3>2 DEF HistoryFields
    <3> QED
      BY <2>1, <2>3, <3>1, <3>3 DEF back
  <2> QED
    BY <2>2, <2>3
<1>12. FallsBack(r, version) => /\ r.what = "diagnostics"
                                /\ shown["diagnostics"].version - version \in Nat
  BY <1>9, <1>10 DEF FallsBack, AreVersions
<1>13. OnceTypeOK'
  <2>1. /\ history'.fired \in Nat /\ history'.setbacks \in Nat /\ history'.losses \in Nat
    BY <1>2, <1>11, <1>12 DEF OnceTypeOK
  <2>2. /\ server' = [f \in ServerFields |-> server'[f]]
        /\ server'.evidence \in Seq(Evidence) /\ Latest' \in Nat \ {0}
    BY <1>1, <1>2 DEF OnceTypeOK
  <2> QED
    BY <1>3, <1>6, <1>7, <1>8, <1>10, <1>11, <2>1, <2>2 DEF OnceTypeOK
<1>14. IsOrdered(requests', shown'["overview"].version, Latest')
  <2> DEFINE newVersion == shown'["overview"].version
  <2>1. IsOrdered(requests \ {r}, newVersion, Latest) /\ newVersion <= Latest
    <3>1. CASE IsTaken(r) /\ r.what = "overview"
      <4>1. newVersion = version /\ r.newest
        BY <1>3, <1>4, <1>5, <3>1 DEF IsTaken, Sequenced
      <4>2. \A s \in requests \ {r} : ~(s.what = "overview" /\ s.newest)
        BY <3>1, <4>1 DEF OnceInv, IsOrdered
      <4> QED
        BY <1>9, <4>1, <4>2 DEF OnceInv, IsOrdered
    <3>2. CASE ~(IsTaken(r) /\ r.what = "overview")
      <4>1. newVersion = shown["overview"].version
        BY <1>3, <1>5, <3>2
      <4> QED
        BY <1>10, <4>1 DEF OnceInv, IsOrdered, AreVersions
    <3> QED
      BY <3>1, <3>2
  <2> HIDE DEF newVersion, more
  <2>2. IsOrdered(requests', newVersion, Latest)
    BY <1>1, <2>1, EndsOrdered
  <2> QED
    BY <1>2, <2>2 DEF newVersion
<1> DEFINE O == shown["overview"]
           D == shown["diagnostics"]
           isWaiting == diagnosed /\ ~D.loaded
           u == Unevaluated(recovery, shown, diagnosed, server.evidence)
           v == Unevaluated(recovery, shown', diagnosed', server.evidence)
           back == history'.setbacks - history.setbacks
           isWaitingAfter == diagnosed' /\ ~shown'["diagnostics"].loaded
<1>15. One(v) + Ahead(shown', Latest) + One(isWaitingAfter)
       <= One(u) + Ahead(shown, Latest) + One(isWaiting) + back
  <2>0. /\ O.version \in 1..Latest /\ D.version \in 1..Latest /\ version \in 1..Latest
        /\ Latest \in Nat
        /\ One(v) \in {0, 1} /\ One(u) \in {0, 1} /\ One(isWaiting) \in {0, 1}
        /\ One(isWaitingAfter) \in {0, 1} /\ history.setbacks \in Nat
    BY <1>2, <1>9, <1>10, OneIs DEF AreVersions, OnceTypeOK
  <2>1. CASE ~isEvaluated
    <3>1. shown'["overview"] = O /\ shown'["diagnostics"] = D /\ diagnosed' = diagnosed
          /\ back = 0
      <4>1. r.what # "diagnostics"
        BY <1>5, <2>1 DEF IsTaken, TellsEvidence
      <4>2. ~FallsBack(r, version) /\ ~(IsTaken(r) /\ r.what = "overview")
        BY <2>1, <4>1 DEF FallsBack, TellsEvidence
      <4>3. diagnosed' = diagnosed
        BY <1>1, <1>2, <4>1 DEF OnceTypeOK
      <4> QED
        BY <1>3, <1>5, <1>11, <2>0, <4>1, <4>2, <4>3
    <3>2. v <=> u
      BY <3>1 DEF Unevaluated, SignatureOf
    <3>3. One(v) = One(u)
      BY <3>2 DEF One
    <3>4. One(isWaitingAfter) = One(isWaiting) /\ Ahead(shown', Latest) = Ahead(shown, Latest)
      BY <3>1 DEF Ahead
    <3>5. Ahead(shown, Latest) \in Int
      BY <2>0 DEF Ahead
    <3> HIDE DEF u, v, isWaiting, isWaitingAfter, back
    <3> QED
      BY <2>0, <3>1, <3>3, <3>4, <3>5
  <2>2. CASE isEvaluated /\ r.what = "overview"
    <3>1. /\ shown'["overview"] = load /\ shown'["diagnostics"] = D /\ diagnosed' = diagnosed
          /\ back = 0
      <4>1. ~FallsBack(r, version)
        BY <2>2 DEF FallsBack
      <4>2. diagnosed' = diagnosed
        BY <1>1, <1>2, <2>2 DEF OnceTypeOK
      <4> QED
        BY <1>3, <1>5, <1>11, <2>0, <2>2, <4>1, <4>2
    <3>2. r.since >= O.version /\ version \in r.since..Latest /\ r.since \in 1..Latest
      BY <2>2 DEF OnceInv, IsOrdered, Versions, IsTaken, Sequenced
    <3>3. version >= O.version
      BY <2>0, <3>2
    <3>4. v => u \/ version # O.version
      <4>1. ASSUME version = O.version
            PROVE  SignatureOf(shown', server.evidence) = SignatureOf(shown, server.evidence)
        BY <1>4, <3>1, <4>1 DEF SignatureOf
      <4> QED
        BY <1>4, <3>1, <4>1 DEF Unevaluated
    <3>5. One(v) <= One(u) + (version - O.version)
      <4>1. CASE version = O.version
        <5>1. v => u
          BY <3>4, <4>1
        <5>2. One(v) <= One(u)
          BY <5>1, OneIs, <2>0
        <5> HIDE DEF u, v
        <5> QED
          BY <2>0, <4>1, <5>2
      <4>2. CASE version # O.version
        <5> HIDE DEF u, v
        <5> QED
          BY <2>0, <3>3, <4>2
      <4> QED
        BY <4>1, <4>2
    <3>6. Ahead(shown', Latest) = Ahead(shown, Latest) - (version - O.version)
      BY <1>4, <2>0, <3>1 DEF Ahead
    <3>7. One(isWaitingAfter) = One(isWaiting)
      BY <3>1
    <3>8. Ahead(shown, Latest) \in Int
      BY <2>0 DEF Ahead
    <3> HIDE DEF u, v, isWaiting, isWaitingAfter, back
    <3> QED
      BY <2>0, <3>1, <3>5, <3>6, <3>7, <3>8
  <2>3. CASE isEvaluated /\ r.what = "diagnostics"
    <3>1. /\ shown'["overview"] = O /\ shown'["diagnostics"] = load /\ diagnosed'
      BY <1>1, <1>3, <1>5, <2>3
    <3>2. One(isWaitingAfter) = 0
      BY <1>4, <3>1, OneIs
    <3>3. v => u \/ isWaiting \/ version # D.version
      <4>1. ASSUME version = D.version, D.loaded
            PROVE  SignatureOf(shown', server.evidence) = SignatureOf(shown, server.evidence)
        BY <1>4, <3>1, <4>1 DEF SignatureOf
      <4>2. CASE version = D.version /\ D.loaded
        <5>1. SignatureOf(shown', server.evidence) = SignatureOf(shown, server.evidence)
          BY <4>1, <4>2
        <5>2. diagnosed /\ diagnosed'
          BY <1>2, <3>1, <4>2 DEF OnceTypeOK
        <5> QED
          BY <3>1, <5>1, <5>2 DEF Unevaluated
      <4>3. CASE ~D.loaded
        BY <4>3 DEF Unevaluated
      <4> QED
        BY <4>2, <4>3
    <3>4. Ahead(shown', Latest) = Ahead(shown, Latest) - (version - D.version)
      BY <1>4, <2>0, <3>1 DEF Ahead
    <3>5. back = IF version < D.version THEN 1 + (D.version - version) ELSE 0
      BY <1>11, <2>0, <2>3 DEF FallsBack
    <3>6. One(v) <= One(u) + One(isWaiting) + (version - D.version) + back
      <4>1. CASE version < D.version
        <5> HIDE DEF u, v, isWaiting, back
        <5> QED
          BY <2>0, <3>5, <4>1
      <4>2. CASE version = D.version
        <5>1. v => u \/ isWaiting
          BY <3>3, <4>2
        <5>2. One(v) <= One(u) + One(isWaiting)
          <6> HIDE DEF u, v, isWaiting
          <6> QED
            BY <5>1, OneOr
        <5> HIDE DEF u, v, isWaiting, back
        <5> QED
          BY <2>0, <3>5, <4>2, <5>2
      <4>3. CASE version > D.version
        <5> HIDE DEF u, v, isWaiting, back
        <5> QED
          BY <2>0, <3>5, <4>3
      <4> QED
        BY <2>0, <4>1, <4>2, <4>3
    <3>7. Ahead(shown, Latest) \in Int /\ back \in Int
      BY <2>0, <3>5 DEF Ahead
    <3> HIDE DEF u, v, isWaiting, isWaitingAfter, back
    <3> QED
      BY <2>0, <3>2, <3>4, <3>6, <3>7
  <2> QED
    BY <2>1, <2>2, <2>3 DEF TellsEvidence
<1>16. Due(recovery', shown', diagnosed', server'.evidence)
       <= Due(recovery, shown, diagnosed, server.evidence) + back
  <2> DEFINE a == One(recovery.armed)
             b == One(recovery'.armed)
             w == One(Unevaluated(recovery', shown', diagnosed', server.evidence))
  <2>1. /\ Due(recovery', shown', diagnosed', server'.evidence)
           = b + w + Ahead(shown', Latest) + One(isWaitingAfter)
        /\ Due(recovery, shown, diagnosed, server.evidence)
           = a + One(u) + Ahead(shown, Latest) + One(isWaiting)
    BY <1>1 DEF Due, Latest
  <2>2. b + w <= a + One(v)
    BY <1>8
  <2>3. /\ a \in Nat /\ b \in Nat /\ w \in Nat /\ One(u) \in Nat /\ One(v) \in Nat
        /\ One(isWaiting) \in Nat /\ One(isWaitingAfter) \in Nat
    BY OneIs
  <2>4. Ahead(shown, Latest) \in Int /\ Ahead(shown', Latest) \in Int /\ back \in Int
    <3>1. Ahead(shown, Latest) \in Int /\ Ahead(shown', Latest) \in Int
      BY <1>2, <1>10 DEF Ahead, AreVersions
    <3>2. history.setbacks \in Nat /\ history'.setbacks \in Nat
      BY <1>2, <1>13 DEF OnceTypeOK
    <3> QED
      BY <3>1, <3>2
  <2> HIDE DEF a, b, w, u, v, isWaiting, isWaitingAfter, back
  <2> QED
    BY <1>15, <2>1, <2>2, <2>3, <2>4
<1>17. history'.fired + Due(recovery', shown', diagnosed', server'.evidence)
          <= 1 + 2 * (Latest' - 1) + history'.losses + history'.setbacks
  <2> DEFINE old == Due(recovery, shown, diagnosed, server.evidence)
             new == Due(recovery', shown', diagnosed', server'.evidence)
  <2>1. /\ history.fired + old <= 1 + 2 * (Latest - 1) + history.losses + history.setbacks
        /\ history.fired \in Nat /\ history.losses \in Nat /\ history.setbacks \in Nat
    BY DEF OnceInv, OnceTypeOK
  <2>2. old \in Nat
    BY <1>2, NumbersAre
  <2>3. new \in Nat
    <3>1. Len(server'.evidence) = Latest' /\ Latest' \in Nat
      BY <1>2 DEF Latest
    <3> QED
      BY <1>10, <3>1, DueIs
  <2>4. history'.setbacks \in Nat
    BY <1>13 DEF OnceTypeOK
  <2>5. history'.fired = history.fired /\ history'.losses = history.losses
    BY <1>11
  <2>6. new <= old + (history'.setbacks - history.setbacks)
    BY <1>16
  <2> DEFINE p == history.setbacks
             q == history'.setbacks
             f == history.fired
             k == 1 + 2 * (Latest - 1) + history.losses
  <2>7. /\ p \in Nat /\ q \in Nat /\ f \in Nat /\ k \in Int /\ f + old <= k + p
        /\ new <= old + (q - p)
    BY <1>2, <2>1, <2>4, <2>6
  <2> HIDE DEF old, new, p, q, f, k
  <2>8. f + new <= k + q
    BY <2>2, <2>3, <2>7
  <2>9. history'.fired = f /\ 1 + 2 * (Latest' - 1) + history'.losses = k
    BY <1>2, <2>5 DEF f, k
  <2> QED
    BY <2>8, <2>9 DEF q, new
<1> QED
  BY <1>13, <1>14, <1>17 DEF OnceInv

\* A loss pays for the evaluation that the diagnostics would have been part of.
LEMMA LoadIsLostOnce ==
    ASSUME DataInv, OnceInv, NEW r \in requests, LoadIsLost(r)
    PROVE  OnceInv'
<1> DEFINE isRefreshing == "refresh" \in busy
           more == {}
           rest == Sent(requests \ {r}, more, r.by)
<1>1. /\ recovery' = IF r.what = "diagnostics" THEN Evaluated(shown, TRUE, isRefreshing)
                     ELSE recovery
      /\ history' = [history EXCEPT !.losses = @ + 1]
      /\ UNCHANGED <<server, shown>>
      /\ diagnosed' = (diagnosed \/ r.what = "diagnostics")
      /\ \/ requests' = rest
         \/ requests' = Sent(rest, {"diagnostics"}, "mount")
  BY DEF LoadIsLost, LoadEnds
<1>2. OnceTypeOK /\ isRefreshing \in BOOLEAN
  BY DEF OnceInv
<1> HIDE DEF isRefreshing, more
<1>3. /\ history' = [f \in HistoryFields |-> history'[f]]
      /\ history'.fired = history.fired /\ history'.losses = history.losses + 1
      /\ history'.setbacks = history.setbacks
  BY <1>1, <1>2 DEF OnceTypeOK, HistoryFields
<1>4. IsOrdered(requests', shown["overview"].version, Latest)
  <2>1. /\ IsOrdered(requests, shown["overview"].version, Latest)
        /\ shown["overview"].version <= Latest
    BY <1>2 DEF OnceInv, OnceTypeOK, AreVersions
  <2>2. IsOrdered(requests \ {r}, shown["overview"].version, Latest)
    BY <2>1, FewerOrdered
  <2> QED
    BY <1>1, <2>1, <2>2, EndsOrdered
<1>5. CASE r.what # "diagnostics"
  <2>1. UNCHANGED <<recovery, diagnosed, shown, server>>
    BY <1>1, <1>2, <1>5 DEF OnceTypeOK
  <2>2. 1 \in Nat /\ IsCounted(history.losses + 1, history.setbacks)
    BY <1>3 DEF IsCounted
  <2>3. server' = [f \in ServerFields |-> server'[f]] /\ server'.evidence = server.evidence
    BY <1>2, <2>1 DEF OnceTypeOK
  <2> QED
    BY <1>4, <2>1, <2>2, <2>3, OnceAside
<1>6. CASE r.what = "diagnostics"
  <2> DEFINE evidence == server.evidence
  <2>1. diagnosed' = TRUE /\ recovery' = Evaluated(shown, TRUE, isRefreshing)
    BY <1>1, <1>6
  <2>2. /\ recovery' = [f \in {"armed", "last"} |-> recovery'[f]]
        /\ recovery'.armed \in BOOLEAN
        /\ One(recovery'.armed) + One(Unevaluated(recovery', shown, TRUE, evidence))
              <= One(recovery.armed) + One(Unevaluated(recovery, shown, TRUE, evidence))
    <3> DEFINE is == TRUE
    <3>1. is \in BOOLEAN /\ recovery' = Evaluated(shown, is, isRefreshing)
      BY <2>1
    <3> HIDE DEF is
    <3>2. /\ recovery' = [f \in {"armed", "last"} |-> recovery'[f]]
          /\ recovery'.armed \in BOOLEAN
          /\ One(recovery'.armed) + One(Unevaluated(recovery', shown, is, evidence))
                <= One(recovery.armed) + One(Unevaluated(recovery, shown, is, evidence))
      BY <1>2, <3>1, EvaluatedIs
    <3> QED
      BY <3>2 DEF is
  <2>3. OnceTypeOK'
    <3>1. history'.fired \in Nat /\ history'.setbacks \in Nat /\ history'.losses \in Nat
      BY <1>2, <1>3 DEF OnceTypeOK
    <3>2. UNCHANGED <<server, shown>> /\ Latest' = Latest
      BY <1>1 DEF Latest
    <3>3. diagnosed' \in BOOLEAN /\ diagnosed'
      BY <2>1
    <3> QED
      BY <1>2, <1>3, <2>2, <3>1, <3>2, <3>3 DEF OnceTypeOK
  <2> DEFINE old == Due(recovery, shown, diagnosed, evidence)
             new == Due(recovery', shown', diagnosed', server'.evidence)
  <2>4. new <= old + 1
    <3> DEFINE a == One(recovery.armed)
               b == One(recovery'.armed)
               u == One(Unevaluated(recovery, shown, diagnosed, evidence))
               v == One(Unevaluated(recovery, shown, TRUE, evidence))
               w == One(Unevaluated(recovery', shown, TRUE, evidence))
               x == Ahead(shown, Len(evidence))
               z == One(diagnosed /\ ~shown["diagnostics"].loaded)
               n == One(~shown["diagnostics"].loaded)
    <3>1. new = b + w + x + n /\ old = a + u + x + z
      <4>1. TRUE /\ ~shown["diagnostics"].loaded <=> ~shown["diagnostics"].loaded
        OBVIOUS
      <4>2. One(TRUE /\ ~shown["diagnostics"].loaded) = n
        BY <4>1 DEF One
      <4>3. /\ server'.evidence = evidence /\ shown' = shown /\ diagnosed' = TRUE
        BY <1>1, <2>1
      <4> QED
        BY <4>2, <4>3 DEF Due
    <3>2. v <= u
      BY DEF One, Unevaluated
    <3>3. n <= z + 1
      BY DEF One
    <3>4. /\ a \in Nat /\ b \in Nat /\ u \in Nat /\ v \in Nat /\ w \in Nat /\ x \in Nat
          /\ z \in Nat /\ n \in Nat
      <4>0. AreVersions(shown, Len(evidence)) /\ Len(evidence) \in Nat
        BY <1>2, NumbersAre
      <4>1. x \in Nat
        BY <4>0, DueIs
      <4>2. /\ a \in Nat /\ b \in Nat /\ u \in Nat /\ v \in Nat /\ w \in Nat
        BY DEF One
      <4>3. /\ z \in Nat /\ n \in Nat
        BY DEF One
      <4> HIDE DEF a, b, u, v, w, x, z, n
      <4> QED
        BY <4>1, <4>2, <4>3
    <3>5. b + w <= a + v
      BY <2>2
    <3> HIDE DEF a, b, u, v, w, x, z, n, old, new
    <3> QED
      BY <3>1, <3>2, <3>3, <3>4, <3>5
  <2>5. /\ history.fired + old <= 1 + 2 * (Latest - 1) + history.losses + history.setbacks
        /\ history.fired \in Nat /\ history.losses \in Nat /\ history.setbacks \in Nat
        /\ Latest \in Nat /\ Latest' = Latest
    BY <1>1 DEF OnceInv, OnceTypeOK, Latest
  <2>6. old \in Nat
    BY <1>2, NumbersAre
  <2>7. new \in Nat
    <3>1. AreVersions(shown', Len(server'.evidence)) /\ Len(server'.evidence) \in Nat
      BY <2>3 DEF OnceTypeOK, Latest
    <3> QED
      BY <3>1, DueIs
  <2>8. history'.fired + new <= 1 + 2 * (Latest' - 1) + history'.losses + history'.setbacks
    <3> DEFINE f == history.fired
               k == 2 * (Latest - 1) + history.setbacks
               l == history.losses
    <3>1. f \in Nat /\ k \in Int /\ l \in Nat /\ f + old <= 1 + k + l
      BY <2>5
    <3>2. history'.fired = f /\ 2 * (Latest' - 1) + history'.setbacks = k
          /\ history'.losses = l + 1
      BY <1>3, <2>5
    <3>3. /\ 2 * (Latest' - 1) \in Int /\ history'.setbacks \in Int
      BY <1>3, <2>5
    <3> HIDE DEF f, k, l, old, new
    <3>4. f + new <= 1 + k + (l + 1)
      BY <2>4, <2>6, <2>7, <3>1
    <3> QED
      BY <3>1, <3>2, <3>3, <3>4 DEF new
  <2>9. IsOrdered(requests', shown'["overview"].version, Latest')
    BY <1>1, <1>4, <2>5
  <2> QED
    BY <2>3, <2>8, <2>9 DEF OnceInv
<1> QED
  BY <1>5, <1>6

\* What was asked for is accepted by the daemon, of the same evidence.
LEMMA AcceptedIs ==
    ASSUME OnceTypeOK, NEW kind, server' = Accepted(kind)
    PROVE  server' = [f \in ServerFields |-> server'[f]] /\ server'.evidence = server.evidence
<1>1. server = [f \in ServerFields |-> server[f]]
  BY DEF OnceTypeOK
<1>2. ASSUME NEW run, server' = [server EXCEPT !.run = run]
      PROVE  server' = [f \in ServerFields |-> server'[f]] /\ server'.evidence = server.evidence
  BY <1>1, <1>2 DEF ServerFields
<1>3. ASSUME NEW queue, server' = [server EXCEPT !.queue = queue]
      PROVE  server' = [f \in ServerFields |-> server'[f]] /\ server'.evidence = server.evidence
  BY <1>1, <1>3 DEF ServerFields
<1>4. CASE IsOver(server.run)
  <2>1. server' = [server EXCEPT !.run = Begun(kind)]
    BY <1>4 DEF Accepted
  <2> QED
    BY <1>2, <2>1
<1>5. CASE ~IsOver(server.run)
  <2>1. \/ server' = [server EXCEPT !.queue = @ \cup {"rebuild"}]
        \/ server' = [server EXCEPT !.queue = @ \cup {"refresh"}]
        \/ server' = server
    BY <1>5 DEF Accepted
  <2> QED
    BY <1>1, <1>3, <2>1
<1> QED
  BY <1>4, <1>5

\* What a status, a command, a refresh that ends and a loss of theirs do to the counters.
LEMMA CountersAside ==
    ASSUME OnceInv, UNCHANGED <<shown, diagnosed>>,
           \/ UNCHANGED server
           \/ \E kind : server' = Accepted(kind),
           IsOrdered(requests', shown["overview"].version, Latest),
           \/ UNCHANGED recovery
           \/ \E isRefreshing \in BOOLEAN : recovery' = Evaluated(shown, diagnosed, isRefreshing),
           \/ UNCHANGED history
           \/ \E d : history' = [history EXCEPT !.losses = @ + 1, !.deaf = d]
           \/ history' = [history EXCEPT !.commands = @ + 1]
           \/ history' = [history EXCEPT !.selects = @ + 1]
           \/ \E n, d, m : history' = [history EXCEPT !.overtakings = n, !.deaf = d, !.missed = m]
           \/ \E b : history' = [history EXCEPT !.asked = b]
    PROVE  OnceInv'
<1>0. OnceTypeOK
  BY DEF OnceInv
<1>1. \E more \in {0, 1} : IsCounted(history.losses + more, history.setbacks)
  <2>1. history = [f \in HistoryFields |-> history[f]] /\ history.losses \in Nat
    BY <1>0 DEF OnceTypeOK
  <2>2. history.losses + 0 = history.losses
    <3>1. history.losses \in Nat
      BY <1>0 DEF OnceTypeOK
    <3> QED
      BY ONLY <3>1
  <2>3. CASE UNCHANGED history
    BY <2>1, <2>2, <2>3 DEF IsCounted
  <2>4. CASE \E d : history' = [history EXCEPT !.losses = @ + 1, !.deaf = d]
    BY <2>1, <2>4 DEF HistoryFields, IsCounted
  <2>5. CASE history' = [history EXCEPT !.commands = @ + 1]
    BY <2>1, <2>2, <2>5 DEF HistoryFields, IsCounted
  <2>6. CASE history' = [history EXCEPT !.selects = @ + 1]
    BY <2>1, <2>2, <2>6 DEF HistoryFields, IsCounted
  <2>7. CASE \E n, d, m : history' = [history EXCEPT !.overtakings = n, !.deaf = d, !.missed = m]
    BY <2>1, <2>2, <2>7 DEF HistoryFields, IsCounted
  <2>8. CASE \E b : history' = [history EXCEPT !.asked = b]
    BY <2>1, <2>2, <2>8 DEF HistoryFields, IsCounted
  <2> QED
    BY <2>3, <2>4, <2>5, <2>6, <2>7, <2>8
<1>2. server' = [f \in ServerFields |-> server'[f]] /\ server'.evidence = server.evidence
  <2>1. CASE UNCHANGED server
    BY <1>0, <2>1 DEF OnceTypeOK
  <2> QED
    BY <1>0, <2>1, AcceptedIs
<1> QED
  BY <1>1, <1>2, OnceAside

\* One request less, and one more of its kind that is no overview; or one told.
LEMMA OrderedAside ==
    ASSUME DataInv, OnceInv, NEW less \in SUBSET requests, NEW whats, NEW task,
           requests' = Sent(less, whats, task)
    PROVE  IsOrdered(requests', shown["overview"].version, Latest)
<1>1. AreFormed(less) /\ Latest \in Nat \ {0} /\ shown["overview"].version <= Latest
  BY DEF DataInv, AreRequests, AreFormed, OnceInv, OnceTypeOK, AreVersions
<1>2. IsOrdered(requests, shown["overview"].version, Latest)
  BY DEF OnceInv
<1>3. IsOrdered(less, shown["overview"].version, Latest)
  BY <1>2, FewerOrdered
<1> QED
  BY <1>1, <1>3, SentOrdered

LEMMA TellStatusOnce ==
    ASSUME DataInv, OnceInv, NEW r \in requests, TellStatus(r)
    PROVE  OnceInv'
<1> DEFINE n == IF Captured = {} THEN 0
                ELSE 1 + CHOOSE m \in 0..MaxPolls : /\ \E c \in Captured : c.rank = m
                                                    /\ \A c \in Captured : c.rank <= m
           reply == [r EXCEPT !.answer = server.run, !.rank = n]
<1>1. /\ r.what = "processing"
      /\ requests' = (requests \ {r}) \cup {reply}
      /\ UNCHANGED <<server, shown, diagnosed, recovery, history>>
  BY DEF TellStatus, Asked
<1> HIDE DEF n
<1>2. reply.what = "processing"
  <2>1. r = [what |-> r.what, by |-> r.by, newest |-> r.newest, sel |-> r.sel,
             late |-> r.late, since |-> r.since, answer |-> r.answer, rank |-> r.rank]
    BY DEF DataInv, AreRequests, IsRequest
  <2> DEFINE answered == [r EXCEPT !.answer = server.run]
  <2>2. answered = [what |-> r.what, by |-> r.by, newest |-> r.newest, sel |-> r.sel,
                    late |-> r.late, since |-> r.since, answer |-> server.run, rank |-> r.rank]
    BY <2>1
  <2>3. reply = [answered EXCEPT !.rank = n]
    OBVIOUS
  <2> HIDE DEF answered
  <2>4. reply = [what |-> r.what, by |-> r.by, newest |-> r.newest, sel |-> r.sel,
                 late |-> r.late, since |-> r.since, answer |-> server.run, rank |-> n]
    BY <2>2, <2>3
  <2> QED
    BY <1>1, <2>4
<1> HIDE DEF reply
<1>3. IsOrdered(requests', shown["overview"].version, Latest)
  BY <1>1, <1>2 DEF OnceInv, IsOrdered, TellsEvidence
<1> QED
  BY <1>1, <1>3, CountersAside

\* A status that arrives or is lost.
LEMMA StatusEndsOnce ==
    ASSUME DataInv, OnceInv, NEW r \in requests, NEW run, NEW isLost, NEW loads,
           StatusEnds(r, run, isLost, loads),
           \/ \E d : history' = [history EXCEPT !.losses = @ + 1, !.deaf = d]
           \/ \E n, d, m : history' = [history EXCEPT !.overtakings = n, !.deaf = d, !.missed = m]
    PROVE  OnceInv'
<1> DEFINE rest == Sent(requests \ {r}, loads, "nobody")
           more == IF r.by \in Refreshes
                   THEN {"diagnostics"} \cup (IF UsageIsBusy(run) THEN {} ELSE DataLoads)
                   ELSE {}
<1>1. /\ \/ requests' = Sent(rest, {"diagnostics"}, "mount")
         \/ requests' = Sent(rest, more, "nobody")
      /\ UNCHANGED <<server, shown, diagnosed>>
      /\ recovery' = IF r.by \in Refreshes THEN Evaluated(shown, diagnosed, FALSE) ELSE recovery
  BY DEF StatusEnds
<1> HIDE DEF more
<1>2. IsOrdered(requests', shown["overview"].version, Latest)
  <2>0. IsOrdered(requests, shown["overview"].version, Latest)
    BY DEF OnceInv
  <2>1. /\ IsOrdered(requests \ {r}, shown["overview"].version, Latest)
        /\ shown["overview"].version <= Latest
    <3>1. IsOrdered(requests \ {r}, shown["overview"].version, Latest)
      BY <2>0, WithoutOrdered
    <3>2. shown["overview"].version <= Latest
      BY VersionIs DEF OnceInv
    <3> QED
      BY <3>1, <3>2
  <2> QED
    BY <1>1, <2>1, EndsOrdered
<1>3. \/ UNCHANGED recovery
      \/ \E isRefreshing \in BOOLEAN : recovery' = Evaluated(shown, diagnosed, isRefreshing)
  <2>1. FALSE \in BOOLEAN
    OBVIOUS
  <2> QED
    BY <1>1, <2>1
<1> QED
  BY <1>1, <1>2, <1>3, CountersAside

LEMMA StatusArrivesOnce ==
    ASSUME DataInv, OnceInv, NEW r \in requests, StatusArrives(r)
    PROVE  OnceInv'
<1>1. StatusEnds(r, r.answer, FALSE, LoadsAfter(r.answer))
  BY DEF StatusArrives
<1>2. \E n, d, m : history' = [history EXCEPT !.overtakings = n, !.deaf = d, !.missed = m]
  BY DEF StatusArrives
<1> QED
  BY <1>1, <1>2, StatusEndsOnce

LEMMA StatusIsLostOnce ==
    ASSUME DataInv, OnceInv, NEW r \in requests, StatusIsLost(r)
    PROVE  OnceInv'
<1>1. StatusEnds(r, seen, TRUE, {})
  BY DEF StatusIsLost
<1>2. \E d : history' = [history EXCEPT !.losses = @ + 1, !.deaf = d]
  BY DEF StatusIsLost
<1> QED
  BY <1>1, <1>2, StatusEndsOnce

LEMMA PostArrivesOnce ==
    ASSUME DataInv, OnceInv, NEW r \in requests, PostArrives(r)
    PROVE  OnceInv'
<1>1. /\ \E kind : server' = Accepted(kind)
      /\ requests' = Sent(requests \ {r}, {"processing"}, r.by)
      /\ \E b : history' = [history EXCEPT !.asked = b]
      /\ UNCHANGED <<shown, diagnosed, recovery>>
  BY DEF PostArrives
<1>2. IsOrdered(requests', shown["overview"].version, Latest)
  BY <1>1, OrderedAside
<1> QED
  BY <1>1, <1>2, CountersAside

LEMMA DataIsClearedOnce ==
    ASSUME DataInv, OnceInv, NEW r \in requests, DataIsCleared(r)
    PROVE  OnceInv'
<1>1. /\ \E whats : requests' = Sent(requests \ {r}, whats, "clear")
      /\ UNCHANGED <<server, shown, diagnosed, recovery, history>>
  BY DEF DataIsCleared
<1>2. IsOrdered(requests', shown["overview"].version, Latest)
  BY <1>1, OrderedAside
<1> QED
  BY <1>1, <1>2, CountersAside

LEMMA PostIsLostOnce ==
    ASSUME DataInv, OnceInv, NEW r \in requests, PostIsLost(r)
    PROVE  OnceInv'
<1>1. /\ UNCHANGED server \/ \E kind : server' = Accepted(kind)
      /\ requests' = requests \ {r}
      /\ \E d : history' = [history EXCEPT !.losses = @ + 1, !.deaf = d]
      /\ UNCHANGED <<shown, diagnosed>>
      /\ recovery' = IF r.by \in Refreshes THEN Evaluated(shown, diagnosed, FALSE) ELSE recovery
  BY DEF PostIsLost
<1>2. IsOrdered(requests', shown["overview"].version, Latest)
  BY <1>1, FewerOrdered DEF OnceInv
<1>3. \/ UNCHANGED recovery
      \/ \E isRefreshing \in BOOLEAN : recovery' = Evaluated(shown, diagnosed, isRefreshing)
  <2>1. FALSE \in BOOLEAN
    OBVIOUS
  <2> QED
    BY <1>1, <2>1
<1> QED
  BY <1>1, <1>2, <1>3, CountersAside

LEMMA SelectOnce ==
    ASSUME DataInv, OnceInv, NEW selection, Select(selection)
    PROVE  OnceInv'
<1> DEFINE older == Superseded(requests, {"overview"})
           by(r) == IF r.by = "select" THEN "older select" ELSE r.by
           renamed(r) == [r EXCEPT !.by = by(r)]
           newer == [Request("overview", "select") EXCEPT !.sel = selection]
<1>1. /\ requests' = {renamed(r) : r \in older} \cup {newer}
      /\ history' = [history EXCEPT !.selects = @ + 1]
      /\ UNCHANGED <<server, shown, diagnosed, recovery>>
  BY DEF Select
<1>2. Sent(requests, {"overview"}, "select") = older \cup {Request("overview", "select")}
  <2>1. {"overview"} \cap Sequenced = {"overview"}
    BY DEF Sequenced
  <2>2. {Request(what, "select") : what \in {"overview"}} = {Request("overview", "select")}
    OBVIOUS
  <2> QED
    BY <2>1, <2>2 DEF Sent
<1>3. /\ \A s \in older : IsRequest(s) /\ (s.what = "overview" => ~s.newest)
      /\ \A s \in older : TellsEvidence(s.what) => s.since \in 1..Latest
  <2>1. \A s \in older : IsRequest(s) /\ (s.what = "overview" => ~s.newest)
    <3>1. AreFormed(requests)
      BY DEF DataInv, AreRequests, AreFormed
    <3> QED
      BY <3>1, SupersededHas DEF AreFormed
  <2>2. /\ AreFormed(requests) /\ Latest \in Nat \ {0} /\ shown["overview"].version <= Latest
        /\ IsOrdered(requests, shown["overview"].version, Latest)
    BY DEF DataInv, AreRequests, AreFormed, OnceInv, OnceTypeOK, AreVersions
  <2>3. IsOrdered(older \cup {Request("overview", "select")}, shown["overview"].version, Latest)
    BY <1>2, <2>2, SentOrdered
  <2> QED
    BY <2>1, <2>3 DEF IsOrdered
<1>4. newer.what = "overview" /\ newer.newest = TRUE /\ newer.since = Latest
  BY DEF Request, TellsEvidence
<1>5. ASSUME NEW r \in older
      PROVE  /\ renamed(r).what = r.what /\ renamed(r).newest = r.newest
             /\ renamed(r).since = r.since
  <2>1. r = [what |-> r.what, by |-> r.by, newest |-> r.newest, sel |-> r.sel,
             late |-> r.late, since |-> r.since, answer |-> r.answer, rank |-> r.rank]
    BY <1>3 DEF IsRequest
  <2> HIDE DEF by
  <2>2. renamed(r) = [what |-> r.what, by |-> by(r), newest |-> r.newest, sel |-> r.sel,
                      late |-> r.late, since |-> r.since, answer |-> r.answer, rank |-> r.rank]
    BY <2>1
  <2> QED
    BY <2>2
<1> HIDE DEF older, newer, renamed
<1>6. Latest \in Nat \ {0} /\ shown["overview"].version <= Latest
  BY DEF OnceInv, OnceTypeOK, AreVersions
<1>7. IsOrdered(requests', shown["overview"].version, Latest)
  <2>1. ASSUME NEW s \in requests'
        PROVE  /\ TellsEvidence(s.what) => s.since \in 1..Latest
               /\ s.what = "overview" /\ s.newest => s = newer /\ s.since = Latest
    <3>1. CASE s = newer
      BY <1>4, <1>6, <3>1
    <3>2. ASSUME NEW r \in older, s = renamed(r)
          PROVE  /\ TellsEvidence(s.what) => s.since \in 1..Latest
                 /\ ~(s.what = "overview" /\ s.newest)
      BY <1>3, <1>5, <3>2
    <3> QED
      BY <1>1, <2>1, <3>1, <3>2
  <2> QED
    BY <1>6, <2>1 DEF IsOrdered
<1> QED
  BY <1>1, <1>7, CountersAside

LEMMA NextOnce == DataInv /\ OnceInv /\ [DataNext]_dataVars => OnceInv'
<1> SUFFICES ASSUME DataInv, OnceInv, [DataNext]_dataVars PROVE OnceInv'
  OBVIOUS
<1>1. requests \in SUBSET requests /\ IsOrdered(requests, shown["overview"].version, Latest)
  BY DEF OnceInv
<1>2. ASSUME NEW whats, NEW task, requests' = Sent(requests, whats, task),
             UNCHANGED <<server, shown, diagnosed, recovery>>,
             UNCHANGED history \/ history' = [history EXCEPT !.commands = @ + 1]
      PROVE  OnceInv'
  <2>1. IsOrdered(requests', shown["overview"].version, Latest)
    BY <1>1, <1>2, OrderedAside
  <2> QED
    BY <1>2, <2>1, CountersAside
<1>3. CASE Tick
  BY <1>2, <1>3 DEF Tick
<1>4. CASE Refresh
  BY <1>2, <1>4 DEF Refresh, Commands, PerformRefresh
<1>5. CASE HardRebuild \/ ClearLocalData
  BY <1>2, <1>5 DEF HardRebuild, ClearLocalData, Confirm, Commands
<1>6. CASE UNCHANGED dataVars
  BY <1>1, <1>6, CountersAside DEF dataVars
<1>7. ASSUME NEW r \in requests, Arrives(r) \/ Loses(r)
      PROVE  OnceInv'
  BY <1>7, LoadArrivesOnce, StatusArrivesOnce, PostArrivesOnce, DataIsClearedOnce,
     LoadIsLostOnce, StatusIsLostOnce, PostIsLostOnce DEF Arrives, Loses
<1> QED
  BY <1>3, <1>4, <1>5, <1>6, <1>7, RunAdvancesOnce, TellStatusOnce, AutomaticRefreshOnce,
     SelectOnce DEF DataNext

\* However often what fails changes, is answered, lost, overtaken or shown again: an
\* evaluation is answered with an automatic refresh at most once for what it is about
\* (AutomaticRecovery).
THEOREM RecoveryOnce == DataSpec => []RecoveryIsOnce
<1> DEFINE Inv == DataInv /\ OnceInv
<1>1. Inv => RecoveryIsOnce
  <2> SUFFICES ASSUME OnceInv PROVE RecoveryIsOnce
    OBVIOUS
  <2> DEFINE due == Due(recovery, shown, diagnosed, server.evidence)
  <2>1. /\ history.fired + due <= 1 + 2 * (Latest - 1) + history.losses + history.setbacks
        /\ history.fired \in Nat /\ history.losses \in Nat /\ history.setbacks \in Nat
        /\ Latest \in Nat
    BY DEF OnceInv, OnceTypeOK
  <2>2. due \in Nat
    BY NumbersAre DEF OnceInv
  <2> HIDE DEF due
  <2> QED
    BY <2>1, <2>2 DEF RecoveryIsOnce, Changes
<1>2. DataInit => Inv
  BY InitData, InitOnce
<1>3. Inv /\ [DataNext]_dataVars => Inv'
  BY NextData, NextOnce
<1> QED
  BY <1>1, <1>2, <1>3, PTL DEF DataSpec
-----------------------------------------------------------------------------
(* What a run has stored is shown, and its button released.                 *)

Of(pending, what) == {r \in pending : r.what = what}

\* The polls that were told how the run of the daemon stands.
Told(polls) == {c \in polls : c.answer # NotSeen}

\* A poll that a refresh or a rebuild waits for is still to be told.
IsFollowed(polls) == \E r \in polls : r.answer = NotSeen /\ r.by \in Followers

\* The timer is armed and nothing told so far disarms it, or what a refresh or a rebuild was
\* told arms it and nothing told since disarms it.
KeepsPolling(polls, armed) ==
    \/ armed /\ \A c \in Told(polls) : ~IsOver(c.answer)
    \/ \E c \in Told(polls) : /\ c.by \in Followers
                              /\ \A d \in Told(polls) : d.rank >= c.rank => ~IsOver(d.answer)

IsWatched(polls, armed) == IsFollowed(polls) \/ KeepsPolling(polls, armed)

\* What the page has seen last when it takes what c was told.
IsBefore(polls, last, c, run) ==
    \/ run = last /\ \A d \in Told(polls) : d.rank >= c.rank
    \/ \E d \in Told(polls) : /\ d.rank < c.rank /\ run = d.answer
                              /\ \A e \in Told(polls) : e.rank < c.rank => e.rank <= d.rank

EndsHere(last, run) == last # NotSeen /\ ~IsOver(last) /\ IsOver(run)

\* What a refresh or a rebuild was told makes the page load, or the page misses it.
LoadsAtOnce(r) ==
    \/ r.by \in Refreshes /\ ~UsageIsBusy(r.answer)
    \/ r.by = "rebuild" /\ IsOver(r.answer)

\* What was told, once it is taken, makes the page load, or the page misses it.
WillLoad(polls, last) ==
    \E c \in Told(polls) :
        \/ LoadsAtOnce(c)
        \/ \E run : IsBefore(polls, last, c, run) /\ EndsHere(run, c.answer)

IsExpected(polls, armed, last) == IsWatched(polls, armed) \/ WillLoad(polls, last)

\* What is shown, or will be, lacks what a run that was asked for has stored.
IsLate(pending, answers) ==
    \/ \E r \in Of(pending, "overview") : r.newest /\ r.late
    \/ (\A r \in Of(pending, "overview") : ~r.newest) /\ answers["overview"].late

\* Once c is taken the page follows the run on, by the timer or by another status.
IsReleased(polls, armed, c) ==
    \/ armed /\ \A d \in Told(polls) : d.rank < c.rank => ~IsOver(d.answer)
    \/ \E d \in Told(polls) :
           /\ d.by \in Followers /\ d.rank <= c.rank
           /\ \A e \in Told(polls) : d.rank <= e.rank /\ e.rank <= c.rank => ~IsOver(e.answer)
    \/ \E d \in polls : d.by \in Followers /\ (d.answer = NotSeen \/ d.rank >= c.rank)

IsRebuilding(run) == run.rebuild /\ ~IsOver(run)

AreReleased(polls, armed) ==
    \A c \in Told(polls) : IsRebuilding(c.answer) => IsReleased(polls, armed, c)

AreRanked(polls) ==
    /\ \A c \in Told(polls) : c.rank \in 0..MaxPolls
    /\ \A c, d \in Told(polls) : c.rank = d.rank => c = d

AreTimely(pending) == \A r \in pending : r.what # "overview" => r.late = FALSE

RunFields == {"stage", "failed", "rebuild", "asked"}
IsRun(run) == run = [f \in RunFields |-> run[f]] /\ run.stage # "none"

LateTypeOK ==
    /\ AreTimely(requests)
    /\ IsRun(server.run)
    /\ AreRanked(Of(requests, "processing"))

\* What was asked for is under way, and a rebuild that is under way or queued was asked for.
IsServed(now, asked) ==
    /\ asked => ~IsOver(now.run)
    /\ IsRebuilding(now.run) \/ now.queue # {} => asked

\* As long as no status was lost or overtaken: the timer is armed for a run the page saw
\* and that was not over; what was asked for is followed until it is over; and so is a
\* rebuild that the page will be told of.
IsFaithful(polls, armed, last, now, asked) ==
    /\ armed => last # NotSeen /\ ~IsOver(last)
    /\ last = NotSeen => \E r \in polls : r.by = "mount"
    /\ asked => IsWatched(polls, armed)
    /\ IsServed(now, asked)
    /\ AreReleased(polls, armed)

\* The button of a rebuild is released by a poll or by what follows a command.
IsReleasing(pending, armed, flags) ==
    "rebuild" \in flags => armed \/ HasOf(pending, Followers)

IsClean == ~history.deaf
IsExact == IsClean /\ ~history.missed /\ history.losses = 0

LateInv ==
    /\ LateTypeOK
    /\ IsClean => /\ IsFaithful(Of(requests, "processing"), timer, seen, server, history.asked)
                  /\ IsReleasing(requests, timer, busy)
    /\ IsExact /\ IsLate(requests, shown) =>
           IsExpected(Of(requests, "processing"), timer, seen)

\* A poll more, which was told nothing yet.
LEMMA MorePolls ==
    ASSUME NEW polls, NEW poll, poll.answer = NotSeen
    PROVE  LET after == polls \cup {poll}
           IN  /\ Told(after) = Told(polls)
               /\ AreRanked(polls) => AreRanked(after)
               /\ IsFollowed(polls) \/ poll.by \in Followers => IsFollowed(after)
               /\ \A armed : KeepsPolling(polls, armed) => KeepsPolling(after, armed)
               /\ \A last : WillLoad(polls, last) => WillLoad(after, last)
               /\ \A armed : AreReleased(polls, armed) => AreReleased(after, armed)
<1> DEFINE after == polls \cup {poll}
<1>1. Told(after) = Told(polls)
  BY DEF Told
<1>2. AreRanked(polls) => AreRanked(after)
  BY <1>1 DEF AreRanked
<1>3. IsFollowed(polls) \/ poll.by \in Followers => IsFollowed(after)
  BY DEF IsFollowed
<1>4. \A armed : KeepsPolling(polls, armed) => KeepsPolling(after, armed)
  BY <1>1 DEF KeepsPolling
<1>5. \A last : WillLoad(polls, last) => WillLoad(after, last)
  BY <1>1 DEF WillLoad, IsBefore
<1>6. \A armed : AreReleased(polls, armed) => AreReleased(after, armed)
  BY <1>1 DEF AreReleased, IsReleased
<1> QED
  BY <1>1, <1>2, <1>3, <1>4, <1>5, <1>6

LEMMA ArmedStays ==
    ASSUME NEW polls, NEW armed, NEW after, armed => after
    PROVE  /\ IsWatched(polls, armed) => IsWatched(polls, after)
           /\ \A last : IsExpected(polls, armed, last) => IsExpected(polls, after, last)
           /\ AreReleased(polls, armed) => AreReleased(polls, after)
<1>1. IsWatched(polls, armed) => IsWatched(polls, after)
  BY DEF IsWatched, KeepsPolling
<1>2. AreReleased(polls, armed) => AreReleased(polls, after)
  BY DEF AreReleased, IsReleased
<1> QED
  BY <1>1, <1>2 DEF IsExpected

LEMMA LeastNatural ==
    ASSUME NEW T \in SUBSET Nat, T # {}
    PROVE  \E n \in T : \A m \in T : n <= m
<1> DEFINE R == {ss \in Nat \X Nat : ss[1] < ss[2]}
<1>1. OpToRel(<, Nat) = R
  BY DEF OpToRel
<1>2. IsWellFoundedOn(OpToRel(<, Nat), Nat)
  BY NatLessThanWellFounded
<1>3. IsWellFoundedOn(R, Nat)
  BY <1>1, <1>2
<1> HIDE DEF R
<1>4. PICK x \in T : \A y \in T : ~ (<<y, x>> \in R)
  BY <1>3, WFMin
<1>5. \A y \in T : ~ (y < x)
  BY <1>4 DEF R
<1> QED
  BY <1>5

\* The rank of what is told next is above all.
LEMMA NextRank ==
    ASSUME NEW T, \A c \in T : c.rank \in 0..MaxPolls, T # {}, NEW n,
           n = CHOOSE m \in 0..MaxPolls : (\E c \in T : c.rank = m) /\ \A c \in T : c.rank <= m
    PROVE  n \in 0..MaxPolls /\ (\E c \in T : c.rank = n) /\ \A c \in T : c.rank <= n
<1> DEFINE left == {k \in Nat : \E c \in T : k = MaxPolls - c.rank}
<1>1. MaxPolls \in Nat
  BY DashboardAssumption
<1>2. left \in SUBSET Nat /\ left # {}
  <2>1. PICK c \in T : TRUE
    OBVIOUS
  <2>2. MaxPolls - c.rank \in Nat
    BY <1>1
  <2>3. MaxPolls - c.rank \in left
    BY <2>2
  <2> QED
    BY <2>3
<1>3. PICK k \in left : \A j \in left : k <= j
  BY <1>2, LeastNatural
<1>4. PICK d \in T : k = MaxPolls - d.rank
  BY <1>3
<1>5. \A c \in T : MaxPolls - c.rank \in left
  BY <1>1
<1>6. \A c \in T : c.rank <= d.rank
  BY <1>1, <1>3, <1>4, <1>5
<1>7. \E m \in 0..MaxPolls : (\E c \in T : c.rank = m) /\ \A c \in T : c.rank <= m
  BY <1>6
<1> QED
  BY <1>7

\* A poll is told how the run stands.
LEMMA TellIs ==
    ASSUME NEW polls, AreRanked(polls), NEW r \in polls, r.answer = NotSeen,
           NEW reply, reply.answer # NotSeen, reply.by = r.by, reply.rank \in 0..MaxPolls,
           \A c \in Told(polls) : c.rank < reply.rank,
           Told(polls) = {} => reply.rank = 0,
           NEW after, after = (polls \ {r}) \cup {reply}, NEW armed, NEW last
    PROVE  /\ AreRanked(after)
           /\ IsWatched(polls, armed) /\ ~IsOver(reply.answer) => IsWatched(after, armed)
           /\ IsExpected(polls, armed, last) /\ (armed => last # NotSeen /\ ~IsOver(last))
                 => IsExpected(after, armed, last)
<1>1. Told(after) = Told(polls) \cup {reply}
  BY DEF Told
<1>0. /\ \A c \in Told(polls) : c.rank \in Nat /\ c.rank # reply.rank
      /\ reply.rank \in Nat /\ MaxPolls \in Nat
  <2>1. MaxPolls \in Nat
    BY DashboardAssumption
  <2>2. reply.rank \in Nat
    BY <2>1
  <2>3. ASSUME NEW c \in Told(polls)
        PROVE  c.rank \in Nat /\ c.rank # reply.rank
    <3>1. c.rank \in 0..MaxPolls /\ c.rank < reply.rank
      BY DEF AreRanked
    <3> QED
      BY <2>1, <2>2, <3>1
  <2> QED
    BY <2>1, <2>2, <2>3
<1>2. AreRanked(after)
  <2>1. \A c \in Told(after) : c.rank \in 0..MaxPolls
    BY <1>1 DEF AreRanked
  <2>2. ASSUME NEW c \in Told(after), NEW d \in Told(after), c.rank = d.rank
        PROVE  c = d
    <3>1. CASE c = reply \/ d = reply
      BY <1>0, <1>1, <2>2, <3>1
    <3>2. CASE c \in Told(polls) /\ d \in Told(polls)
      BY <2>2, <3>2 DEF AreRanked
    <3> QED
      BY <1>1, <3>1, <3>2
  <2> QED
    BY <2>1, <2>2 DEF AreRanked
<1>3. ASSUME IsWatched(polls, armed), ~IsOver(reply.answer)
      PROVE  IsWatched(after, armed)
  <2>1. CASE \E x \in polls \ {r} : x.answer = NotSeen /\ x.by \in Followers
    BY <2>1 DEF IsWatched, IsFollowed
  <2>2. CASE r.by \in Followers
    <3>1. \A d \in Told(after) : d.rank >= reply.rank => ~IsOver(d.answer)
      BY <1>1, <1>3 DEF AreRanked
    <3> QED
      BY <1>1, <2>2, <3>1 DEF IsWatched, KeepsPolling
  <2>3. CASE KeepsPolling(polls, armed)
    BY <1>1, <1>3, <2>3 DEF IsWatched, KeepsPolling
  <2> QED
    BY <1>3, <2>1, <2>2, <2>3 DEF IsWatched, IsFollowed
<1>4. ASSUME IsExpected(polls, armed, last), armed => last # NotSeen /\ ~IsOver(last)
      PROVE  IsExpected(after, armed, last)
  <2>1. CASE IsWatched(polls, armed) /\ ~IsOver(reply.answer)
    BY <1>3, <2>1 DEF IsExpected
  <2>2. CASE (\E x \in polls \ {r} : x.answer = NotSeen /\ x.by \in Followers)
    BY <2>2 DEF IsExpected, IsWatched, IsFollowed
  <2>3. CASE r.by \in Followers /\ IsOver(reply.answer)
    <3>1. ~UsageIsBusy(reply.answer)
      BY <2>3 DEF UsageIsBusy, IsOver
    <3>2. LoadsAtOnce(reply)
      BY <2>3, <3>1 DEF LoadsAtOnce, Followers
    <3> QED
      BY <1>1, <3>2 DEF IsExpected, WillLoad
  <2>4. CASE KeepsPolling(polls, armed) /\ IsOver(reply.answer)
    <3>1. \E run : IsBefore(after, last, reply, run) /\ EndsHere(run, reply.answer)
      <4>1. CASE Told(polls) = {}
        <5>1. armed
          BY <2>4, <4>1 DEF KeepsPolling
        <5>2. IsBefore(after, last, reply, last)
          BY <1>0, <1>1, <4>1 DEF IsBefore
        <5> QED
          BY <1>4, <2>4, <5>1, <5>2 DEF EndsHere
      <4>2. CASE Told(polls) # {}
        <5>1. PICK d \in Told(polls) : \A e \in Told(polls) : e.rank <= d.rank
          BY <4>2, NextRank DEF AreRanked
        <5>2. d.rank < reply.rank /\ d \in Told(after)
          BY <1>1, <5>1
        <5>3. \A e \in Told(after) : e.rank < reply.rank => e.rank <= d.rank
          <6> SUFFICES ASSUME NEW e \in Told(after), e.rank < reply.rank
                       PROVE  e.rank <= d.rank
            OBVIOUS
          <6>1. e # reply
            BY <1>0
          <6> QED
            BY <1>1, <5>1, <6>1
        <5>4. IsBefore(after, last, reply, d.answer)
          BY <5>2, <5>3 DEF IsBefore
        <5>5. ~IsOver(d.answer) /\ d.answer # NotSeen
          BY <2>4, <5>1 DEF KeepsPolling, Told
        <5> QED
          BY <2>4, <5>4, <5>5 DEF EndsHere
      <4> QED
        BY <4>1, <4>2
    <3> QED
      BY <1>1, <3>1 DEF IsExpected, WillLoad
  <2>5. CASE WillLoad(polls, last)
    <3>1. ASSUME NEW c \in Told(polls), NEW run, IsBefore(polls, last, c, run)
          PROVE  IsBefore(after, last, c, run)
      <4>1. \A d \in Told(polls) : d.rank < reply.rank /\ ~(reply.rank < c.rank)
        BY <1>0, <3>1
      <4>2. reply.rank >= c.rank
        BY <1>0, <3>1
      <4>3. CASE run = last /\ \A d \in Told(polls) : d.rank >= c.rank
        BY <1>1, <4>2, <4>3 DEF IsBefore
      <4>4. CASE \E d \in Told(polls) :
                    /\ d.rank < c.rank /\ run = d.answer
                    /\ \A e \in Told(polls) : e.rank < c.rank => e.rank <= d.rank
        BY <1>1, <4>1, <4>4 DEF IsBefore
      <4> QED
        BY <3>1, <4>3, <4>4 DEF IsBefore
    <3>2. WillLoad(after, last)
      BY <1>1, <2>5, <3>1 DEF WillLoad
    <3> QED
      BY <3>2 DEF IsExpected
  <2> QED
    BY <1>4, <2>1, <2>2, <2>3, <2>4, <2>5 DEF IsExpected, IsWatched, IsFollowed
<1> QED
  BY <1>2, <1>3, <1>4

\* What was told first is taken first.
LEMMA TakeIs ==
    ASSUME NEW polls, AreRanked(polls), NEW r \in Told(polls),
           \A c \in Told(polls) : c.rank >= r.rank,
           NEW after, after = polls \ {r}, NEW armed, NEW armedAfter, NEW last,
           (armed \/ r.by \in Followers) /\ ~IsOver(r.answer) => armedAfter
    PROVE  /\ AreRanked(after)
           /\ IsWatched(polls, armed) => IsWatched(after, armedAfter)
           /\ IsExpected(polls, armed, last)
                 => \/ IsExpected(after, armedAfter, r.answer)
                    \/ LoadsAtOnce(r)
                    \/ EndsHere(last, r.answer)
<1>1. Told(after) = Told(polls) \ {r}
  BY DEF Told
<1>2. AreRanked(after)
  BY <1>1 DEF AreRanked
<1>3. ASSUME IsWatched(polls, armed)
      PROVE  IsWatched(after, armedAfter)
  <2>1. CASE IsFollowed(polls)
    BY <2>1 DEF IsWatched, IsFollowed, Told
  <2>2. CASE armed /\ \A c \in Told(polls) : ~IsOver(c.answer)
    BY <1>1, <2>2 DEF IsWatched, KeepsPolling
  <2>3. ASSUME NEW c \in Told(polls), c.by \in Followers,
               \A d \in Told(polls) : d.rank >= c.rank => ~IsOver(d.answer)
        PROVE  IsWatched(after, armedAfter)
    BY <1>1, <2>3 DEF IsWatched, KeepsPolling, AreRanked
  <2> QED
    BY <1>3, <2>1, <2>2, <2>3 DEF IsWatched, KeepsPolling
<1>4. ASSUME WillLoad(polls, last)
      PROVE  \/ IsExpected(after, armedAfter, r.answer)
             \/ LoadsAtOnce(r)
             \/ EndsHere(last, r.answer)
  <2>1. ASSUME NEW c \in Told(polls), LoadsAtOnce(c), c # r
        PROVE  IsExpected(after, armedAfter, r.answer)
    BY <1>1, <2>1 DEF IsExpected, WillLoad
  <2>2. ASSUME NEW run, IsBefore(polls, last, r, run)
        PROVE  run = last
    BY <2>2 DEF IsBefore, AreRanked
  <2>3. ASSUME NEW c \in Told(polls), c # r, NEW run, IsBefore(polls, last, c, run)
        PROVE  IsBefore(after, r.answer, c, run)
    <3>1. r.rank < c.rank
      BY <2>3 DEF AreRanked
    <3>2. PICK d \in Told(polls) : /\ d.rank < c.rank /\ run = d.answer
                                   /\ \A e \in Told(polls) : e.rank < c.rank => e.rank <= d.rank
      BY <2>3, <3>1 DEF IsBefore, AreRanked
    <3>3. CASE d = r
      <4>1. \A e \in Told(after) : e.rank >= c.rank
        BY <1>1, <3>2, <3>3 DEF AreRanked
      <4> QED
        BY <3>2, <3>3, <4>1 DEF IsBefore
    <3>4. CASE d # r
      BY <1>1, <3>2, <3>4 DEF IsBefore
    <3> QED
      BY <3>3, <3>4
  <2>4. ASSUME NEW c \in Told(polls), c # r, NEW run, IsBefore(polls, last, c, run),
               EndsHere(run, c.answer)
        PROVE  IsExpected(after, armedAfter, r.answer)
    BY <1>1, <2>3, <2>4 DEF IsExpected, WillLoad
  <2> QED
    BY <1>4, <2>1, <2>2, <2>4 DEF WillLoad
<1> QED
  BY <1>2, <1>3, <1>4 DEF IsExpected

LEMMA NaturalRanks ==
    ASSUME NEW polls, AreRanked(polls)
    PROVE  \A c \in Told(polls) : c.rank \in Nat
<1>1. MaxPolls \in Nat
  BY DashboardAssumption
<1>2. \A c \in Told(polls) : c.rank \in 0..MaxPolls
  BY DEF AreRanked
<1> QED
  BY <1>1, <1>2

LEMMA RanksAre ==
    ASSUME NEW polls, AreRanked(polls), NEW reply, reply.rank \in 0..MaxPolls,
           \A c \in Told(polls) : c.rank < reply.rank
    PROVE  /\ reply.rank \in Nat
           /\ \A c \in Told(polls) : c.rank \in Nat /\ c.rank < reply.rank
<1>1. \A c \in Told(polls) : c.rank \in Nat
  BY NaturalRanks
<1>2. MaxPolls \in Nat
  BY DashboardAssumption
<1>3. reply.rank \in Nat
  BY <1>2
<1> QED
  BY <1>1, <1>3

\* A rebuild that the page will be told of is followed on.
LEMMA TellReleases ==
    ASSUME NEW polls, AreRanked(polls), NEW r \in polls, r.answer = NotSeen,
           NEW reply, reply.answer # NotSeen, reply.by = r.by, reply.rank \in 0..MaxPolls,
           \A c \in Told(polls) : c.rank < reply.rank,
           NEW after, after = (polls \ {r}) \cup {reply}, NEW armed,
           AreReleased(polls, armed),
           IsRebuilding(reply.answer) => IsWatched(polls, armed)
    PROVE  AreReleased(after, armed)
<1>1. Told(after) = Told(polls) \cup {reply}
  BY DEF Told
<1>2. /\ reply.rank \in Nat
      /\ \A c \in Told(polls) : c.rank \in Nat /\ c.rank < reply.rank
  BY RanksAre
<1>3. ASSUME IsRebuilding(reply.answer)
      PROVE  IsReleased(after, armed, reply)
  <2>1. CASE IsFollowed(polls)
    <3>1. PICK x \in polls : x.answer = NotSeen /\ x.by \in Followers
      BY <2>1 DEF IsFollowed
    <3>2. CASE x = r
      BY <1>2, <3>1, <3>2 DEF IsReleased
    <3>3. CASE x # r
      BY <3>1, <3>3 DEF IsReleased
    <3> QED
      BY <3>2, <3>3
  <2>2. CASE armed /\ \A c \in Told(polls) : ~IsOver(c.answer)
    <3>1. \A d \in Told(after) : ~IsOver(d.answer)
      BY <1>1, <1>3, <2>2 DEF IsRebuilding
    <3> QED
      BY <2>2, <3>1 DEF IsReleased
  <2>3. ASSUME NEW c \in Told(polls), c.by \in Followers,
               \A d \in Told(polls) : d.rank >= c.rank => ~IsOver(d.answer)
        PROVE  IsReleased(after, armed, reply)
    <3>1. c \in Told(after) /\ c.rank <= reply.rank
      BY <1>1, <1>2
    <3>2. \A e \in Told(after) : c.rank <= e.rank /\ e.rank <= reply.rank => ~IsOver(e.answer)
      BY <1>1, <1>2, <1>3, <2>3 DEF IsRebuilding
    <3> QED
      BY <2>3, <3>1, <3>2 DEF IsReleased
  <2> QED
    BY <1>3, <2>1, <2>2, <2>3 DEF IsWatched, KeepsPolling
<1>4. ASSUME NEW c \in Told(polls), IsReleased(polls, armed, c)
      PROVE  IsReleased(after, armed, c)
  <2>1. \A e \in Told(after) : e.rank <= c.rank => e \in Told(polls)
    BY <1>1, <1>2
  <2>2. CASE armed /\ \A d \in Told(polls) : d.rank < c.rank => ~IsOver(d.answer)
    <3>1. \A d \in Told(after) : d.rank < c.rank => ~IsOver(d.answer)
      BY <1>1, <1>2, <2>2
    <3> QED
      BY <2>2, <3>1 DEF IsReleased
  <2>3. ASSUME NEW d \in Told(polls), d.by \in Followers, d.rank <= c.rank,
               \A e \in Told(polls) : d.rank <= e.rank /\ e.rank <= c.rank => ~IsOver(e.answer)
        PROVE  IsReleased(after, armed, c)
    <3>1. d \in Told(after)
      BY <1>1
    <3>2. \A e \in Told(after) : d.rank <= e.rank /\ e.rank <= c.rank => ~IsOver(e.answer)
      BY <2>1, <2>3
    <3> QED
      BY <2>3, <3>1, <3>2 DEF IsReleased
  <2>4. ASSUME NEW d \in polls, d.by \in Followers, d.answer = NotSeen \/ d.rank >= c.rank
        PROVE  IsReleased(after, armed, c)
    <3>1. CASE d = r
      BY <1>2, <2>4, <3>1 DEF IsReleased
    <3>2. CASE d # r
      BY <2>4, <3>2 DEF IsReleased
    <3> QED
      BY <3>1, <3>2
  <2> QED
    BY <1>4, <2>2, <2>3, <2>4 DEF IsReleased
<1> QED
  BY <1>1, <1>3, <1>4 DEF AreReleased

LEMMA TakeReleases ==
    ASSUME NEW polls, AreRanked(polls), NEW r \in Told(polls),
           \A c \in Told(polls) : c.rank >= r.rank,
           NEW after, after = polls \ {r}, NEW armed, NEW armedAfter,
           (armed \/ r.by \in Followers) /\ ~IsOver(r.answer) => armedAfter,
           AreReleased(polls, armed)
    PROVE  /\ AreReleased(after, armedAfter)
           /\ IsRebuilding(r.answer) => armedAfter \/ HasOf(after, Followers)
<1>1. Told(after) = Told(polls) \ {r}
  BY DEF Told
<1>2. /\ \A c \in Told(polls) : c.rank \in Nat
      /\ \A c \in Told(after) : r.rank < c.rank
  <2>1. \A c \in Told(polls) : c.rank \in Nat
    BY NaturalRanks
  <2>2. ASSUME NEW c \in Told(after)
        PROVE  r.rank < c.rank
    <3>1. c \in Told(polls) /\ c # r
      BY <1>1
    <3>2. c.rank >= r.rank /\ c.rank # r.rank
      BY <3>1 DEF AreRanked
    <3> QED
      BY <2>1, <3>1, <3>2
  <2> QED
    BY <2>1, <2>2
<1>3. ASSUME NEW c \in Told(after), IsReleased(polls, armed, c)
      PROVE  IsReleased(after, armedAfter, c)
  <2>1. CASE armed /\ \A d \in Told(polls) : d.rank < c.rank => ~IsOver(d.answer)
    BY <1>1, <1>2, <2>1 DEF IsReleased
  <2>2. ASSUME NEW d \in Told(polls), d.by \in Followers, d.rank <= c.rank,
               \A e \in Told(polls) : d.rank <= e.rank /\ e.rank <= c.rank => ~IsOver(e.answer)
        PROVE  IsReleased(after, armedAfter, c)
    <3>1. CASE d = r
      <4>1. ~IsOver(r.answer) /\ armedAfter
        BY <1>1, <1>2, <2>2, <3>1
      <4>2. ASSUME NEW e \in Told(after), e.rank < c.rank
            PROVE  ~IsOver(e.answer)
        <5>1. /\ e \in Told(polls) /\ c \in Told(polls)
              /\ e.rank \in Nat /\ c.rank \in Nat /\ r.rank \in Nat /\ r.rank < e.rank
          BY <1>1, <1>2
        <5>2. d.rank <= e.rank /\ e.rank <= c.rank
          BY <3>1, <4>2, <5>1
        <5> QED
          BY <2>2, <5>1, <5>2
      <4> QED
        BY <4>1, <4>2 DEF IsReleased
    <3>2. CASE d # r
      BY <1>1, <2>2, <3>2 DEF IsReleased
    <3> QED
      BY <3>1, <3>2
  <2>3. ASSUME NEW d \in polls, d.by \in Followers, d.answer = NotSeen \/ d.rank >= c.rank
        PROVE  IsReleased(after, armedAfter, c)
    <3>1. d # r
      BY <1>1, <1>2, <2>3 DEF Told
    <3> QED
      BY <2>3, <3>1 DEF IsReleased
  <2> QED
    BY <1>3, <2>1, <2>2, <2>3 DEF IsReleased
<1>4. ASSUME IsRebuilding(r.answer)
      PROVE  armedAfter \/ HasOf(after, Followers)
  <2>1. ~IsOver(r.answer) /\ IsReleased(polls, armed, r)
    BY <1>4 DEF IsRebuilding, AreReleased
  <2>2. ASSUME NEW d \in Told(polls), d.by \in Followers, d.rank <= r.rank
        PROVE  d = r
    <3>1. d.rank \in Nat /\ r.rank \in Nat
      BY <1>2
    <3>2. ~ (r.rank < d.rank)
      BY <2>2, <3>1
    <3> QED
      BY <1>1, <1>2, <3>2
  <2>3. ASSUME NEW d \in polls, d.by \in Followers
        PROVE  armedAfter \/ HasOf(after, Followers)
    BY <2>1, <2>3 DEF HasOf
  <2> QED
    BY <2>1, <2>2, <2>3 DEF IsReleased
<1> QED
  BY <1>1, <1>3, <1>4 DEF AreReleased

\* A request of which no newer one is sent stays as it is.
LEMMA Kept ==
    ASSUME NEW r, IsRequest(r), NEW s, s = [r EXCEPT !.newest = r.newest]
    PROVE  s = r
  BY DEF IsRequest

LEMMA SupersededOf ==
    ASSUME NEW pending, \A r \in pending : IsRequest(r), NEW whats, NEW w, w \notin whats
    PROVE  Of(Superseded(pending, whats), w) = Of(pending, w)
<1> DEFINE older(r) == [r EXCEPT !.newest = @ /\ r.what \notin whats]
<1>1. Superseded(pending, whats)
      = {older(r) : r \in {x \in pending : x.what \notin whats \/ x.by # "nobody"}}
  BY DEF Superseded
<1>2. ASSUME NEW r \in pending
      PROVE  older(r).what = r.what /\ (r.what = w => older(r) = r)
  <2>1. IsRequest(r) /\ r.newest \in BOOLEAN
    BY DEF IsRequest
  <2>2. (r.newest /\ r.what \notin whats) \in BOOLEAN
    OBVIOUS
  <2>3. older(r) = [r EXCEPT !.newest = r.newest /\ r.what \notin whats]
    OBVIOUS
  <2>4. older(r).what = r.what
    BY <2>1, <2>2, <2>3, Older
  <2>5. ASSUME r.what = w PROVE older(r) = r
    <3>1. (r.newest /\ r.what \notin whats) = r.newest
      BY <2>1, <2>5
    <3>2. older(r) = [r EXCEPT !.newest = r.newest]
      BY <2>3, <3>1
    <3> HIDE DEF older
    <3> QED
      BY <2>1, <3>2, Kept
  <2> QED
    BY <2>4, <2>5
<1> HIDE DEF older
<1> QED
  BY <1>1, <1>2 DEF Of

\* What was asked before stays, and an overview that is asked for anew will be late of
\* nothing.
LEMMA SentOf ==
    ASSUME NEW pending, AreFormed(pending), NEW whats, NEW task,
           AreTimely(pending),
           NEW after, after = Sent(pending, whats, task)
    PROVE  /\ \A w : w \notin whats => Of(after, w) = Of(pending, w)
           /\ "processing" \in whats =>
                 Of(after, "processing") = Of(pending, "processing") \cup {Request("processing", task)}
           /\ "overview" \in whats => \A answers : ~IsLate(after, answers)
           /\ AreTimely(after)
           /\ AreFormed(after)
           /\ HasOf(pending, Followers) => HasOf(after, Followers)
           /\ task \in Followers /\ whats # {} => HasOf(after, Followers)
<1> DEFINE kinds == whats \cap Sequenced
           older == Superseded(pending, kinds)
           newer == {Request(what, task) : what \in whats}
<1>1. after = older \cup newer
  BY DEF Sent
<1>2. \A w : w \notin kinds => Of(older, w) = Of(pending, w)
  BY SupersededOf DEF AreFormed
<1>3. \A s \in newer : /\ s.what \in whats /\ s.newest /\ s.late = FALSE
                       /\ s = Request(s.what, task)
  BY DEF Request
<1>4. \A what \in whats : \E s \in newer : s.what = what /\ s = Request(what, task)
  <2> TAKE what \in whats
  <2> WITNESS Request(what, task) \in newer
  <2> QED
    BY RequestIs
<1>5. \A s \in older : /\ s.what \in whats \cap Sequenced => ~s.newest
                       /\ \E r \in pending : s.what = r.what
  BY SupersededHas DEF AreFormed
<1> HIDE DEF older, newer
<1>6. ASSUME NEW w, w \notin whats
      PROVE  Of(after, w) = Of(pending, w)
  <2>1. Of(older, w) = Of(pending, w)
    BY <1>2, <1>6
  <2> HIDE DEF kinds
  <2> QED
    BY <1>1, <1>3, <1>6, <2>1 DEF Of
<1>7. ASSUME "processing" \in whats
      PROVE  Of(after, "processing") = Of(pending, "processing") \cup {Request("processing", task)}
  <2>1. "processing" \notin kinds
    BY Names DEF Kinds
  <2>2. Of(older, "processing") = Of(pending, "processing")
    BY <1>2, <2>1
  <2>3. Of(newer, "processing") = {Request("processing", task)}
    BY <1>3, <1>4, <1>7 DEF Of
  <2> HIDE DEF kinds
  <2> QED
    BY <1>1, <2>2, <2>3 DEF Of
<1>8. ASSUME "overview" \in whats, NEW answers
      PROVE  ~IsLate(after, answers)
  <2>1. \A r \in Of(older, "overview") : ~r.newest
    BY <1>5, <1>8 DEF Of, Sequenced
  <2>2. \E r \in Of(newer, "overview") : r.newest
    BY <1>3, <1>4, <1>8 DEF Of
  <2>3. \A r \in Of(newer, "overview") : ~r.late
    BY <1>3 DEF Of
  <2>4. Of(after, "overview") = Of(older, "overview") \cup Of(newer, "overview")
    BY <1>1 DEF Of
  <2> HIDE DEF kinds
  <2> QED
    BY <2>1, <2>2, <2>3, <2>4 DEF IsLate
<1>9. AreTimely(after)
  <2>1. ASSUME NEW s \in older, s.what # "overview" PROVE s.late = FALSE
    <3>1. PICK r \in pending : /\ s = [r EXCEPT !.newest = @ /\ r.what \notin kinds]
      BY DEF older, Superseded
    <3>2. r = [what |-> r.what, by |-> r.by, newest |-> r.newest, sel |-> r.sel,
               late |-> r.late, since |-> r.since, answer |-> r.answer, rank |-> r.rank]
      BY DEF IsRequest, AreFormed
    <3> HIDE DEF kinds
    <3>3. s.what = r.what /\ s.late = r.late
      BY <3>1, <3>2
    <3> QED
      BY <2>1, <3>3 DEF AreTimely
  <2> QED
    BY <1>1, <1>3, <2>1 DEF AreTimely
<1>10. AreFormed(after)
  <2>1. \A r \in older : IsRequest(r)
    BY SupersededHas DEF older, AreFormed
  <2>2. \A r \in newer : IsRequest(r)
    <3> SUFFICES ASSUME NEW what \in whats, NEW r, r = Request(what, task)
                 PROVE  IsRequest(r)
      BY DEF newer
    <3> QED
      BY RequestIs
  <2> QED
    BY <1>1, <2>1, <2>2 DEF AreFormed
<1>11. HasOf(pending, Followers) => HasOf(after, Followers)
  <2> SUFFICES ASSUME NEW r \in pending, r.by \in Followers
               PROVE  HasOf(after, Followers)
    BY DEF HasOf
  <2>1. r.by # "nobody"
    BY DEF Followers, Refreshes
  <2>2. \E s \in older : s.by = r.by
    BY <2>1, SupersededHas DEF older, AreFormed
  <2> QED
    BY <1>1, <2>2 DEF HasOf
<1>12. task \in Followers /\ whats # {} => HasOf(after, Followers)
  <2> SUFFICES ASSUME task \in Followers, NEW what \in whats
               PROVE  HasOf(after, Followers)
    OBVIOUS
  <2>1. PICK s \in newer : s = Request(what, task)
    BY <1>4
  <2>2. s.by = task /\ s \in after
    BY <1>1, <2>1, RequestIs
  <2> QED
    BY <2>2 DEF HasOf
<1> QED
  BY <1>6, <1>7, <1>8, <1>9, <1>10, <1>11, <1>12

\* Only requests for overviews and what was answered tell how late the page is.
LEMMA SameLate ==
    ASSUME NEW pending, NEW after, Of(after, "overview") = Of(pending, "overview"),
           NEW answers, NEW now, now["overview"] = answers["overview"]
    PROVE  IsLate(after, now) <=> IsLate(pending, answers)
  BY DEF IsLate

LEMMA InitLate == DataInit => LateInv
<1> SUFFICES ASSUME DataInit PROVE LateInv
  OBVIOUS
<1> DEFINE first == {"overview", "processing"} \cup Index \cup Panels \cup FirstViews
<1>1. requests = {Request(what, "mount") : what \in first}
  BY DEF DataInit
<1>2. "processing" \in first
  OBVIOUS
<1> HIDE DEF first
<1>3. \A r \in requests : r.late = FALSE /\ r.answer = NotSeen /\ r.by = "mount"
  BY <1>1 DEF Request
<1>4. \E r \in Of(requests, "processing") : r.by = "mount"
  <2>1. PICK r : r = Request("processing", "mount")
    OBVIOUS
  <2>2. r \in requests
    BY <1>1, <1>2, <2>1
  <2>3. r.what = "processing" /\ r.by = "mount"
    BY <2>1, RequestIs
  <2> QED
    BY <2>2, <2>3 DEF Of
<1>5. Told(Of(requests, "processing")) = {}
  BY <1>3 DEF Told, Of
<1>6. /\ history.asked = FALSE /\ timer = FALSE /\ seen = NotSeen /\ busy = {}
  BY DEF DataInit
<1>7. IsRun(server.run) /\ ~server.run.rebuild /\ server.queue = {}
  <2>1. PICK e \in Evidence, stage \in {"idle", "collecting"} :
            server = [evidence |-> <<e>>, queue |-> {}, stuck |-> FALSE,
                      run |-> Run(stage, {}, FALSE, FALSE)]
    BY DEF DataInit
  <2> QED
    BY <2>1 DEF Run, IsRun, RunFields
<1>8. shown["overview"].late = FALSE
  BY Names DEF DataInit, NotLoaded
<1>9. ~IsLate(requests, shown)
  BY <1>3, <1>8 DEF IsLate, Of
<1>10. LateTypeOK
  BY <1>3, <1>5, <1>7 DEF LateTypeOK, AreRanked, AreTimely
<1>11. AreReleased(Of(requests, "processing"), timer)
  BY <1>5 DEF AreReleased
<1>12. IsFaithful(Of(requests, "processing"), timer, seen, server, history.asked)
  BY <1>4, <1>6, <1>7, <1>11 DEF IsFaithful, IsServed, IsRebuilding
<1>13. IsReleasing(requests, timer, busy)
  BY <1>6 DEF IsReleasing
<1> QED
  BY <1>9, <1>10, <1>12, <1>13 DEF LateInv

-----------------------------------------------------------------------------
(* Steps.                                                                   *)

\* What the counters say of what the page may have missed stays as it is.
SameExcuses ==
    /\ IsClean' <=> IsClean
    /\ IsExact' <=> IsExact
    /\ history'.asked = history.asked

LEMMA SameExcusesAre ==
    ASSUME OnceTypeOK,
           \/ UNCHANGED history
           \/ history' = [history EXCEPT !.commands = @ + 1]
           \/ history' = [history EXCEPT !.selects = @ + 1]
           \/ history' = [history EXCEPT !.fired = @ + 1]
           \/ \E n, m : history' = [history EXCEPT !.overtakings = n, !.setbacks = m]
    PROVE  SameExcuses
<1>1. history = [f \in HistoryFields |-> history[f]]
  BY DEF OnceTypeOK
<1>2. /\ history'.deaf = history.deaf /\ history'.missed = history.missed
      /\ history'.losses = history.losses /\ history'.asked = history.asked
  <2>1. CASE UNCHANGED history
    BY <2>1
  <2>2. CASE history' = [history EXCEPT !.commands = @ + 1]
    BY <1>1, <2>2 DEF HistoryFields
  <2>3. CASE history' = [history EXCEPT !.selects = @ + 1]
    BY <1>1, <2>3 DEF HistoryFields
  <2>4. CASE history' = [history EXCEPT !.fired = @ + 1]
    BY <1>1, <2>4 DEF HistoryFields
  <2>5. CASE \E n, m : history' = [history EXCEPT !.overtakings = n, !.setbacks = m]
    BY <1>1, <2>5 DEF HistoryFields
  <2> QED
    BY <2>1, <2>2, <2>3, <2>4, <2>5
<1>3. (IsClean' <=> IsClean) /\ (IsExact' <=> IsExact)
  BY <1>2, Zenon DEF IsClean, IsExact
<1> QED
  BY <1>2, <1>3 DEF SameExcuses

\* A load that is lost excuses what is shown, and a status or a command more.
LEMMA LossIs ==
    ASSUME OnceTypeOK
    PROVE  /\ history' = [history EXCEPT !.losses = @ + 1] =>
                  (IsClean' <=> IsClean) /\ ~IsExact' /\ history'.asked = history.asked
           /\ history' = [history EXCEPT !.losses = @ + 1, !.deaf = TRUE] => ~IsClean' /\ ~IsExact'
<1>1. history = [f \in HistoryFields |-> history[f]] /\ history.losses \in Nat
  BY DEF OnceTypeOK
<1>2. ASSUME history' = [history EXCEPT !.losses = @ + 1]
      PROVE  (IsClean' <=> IsClean) /\ ~IsExact' /\ history'.asked = history.asked
  <2>1. /\ history'.losses = history.losses + 1 /\ history'.deaf = history.deaf
        /\ history'.asked = history.asked
    BY <1>1, <1>2 DEF HistoryFields
  <2>2. history'.losses # 0
    BY <1>1, <2>1
  <2>3. IsClean' <=> IsClean
    BY <2>1, Zenon DEF IsClean
  <2> QED
    BY <2>1, <2>2, <2>3 DEF IsExact
<1>3. ASSUME history' = [history EXCEPT !.losses = @ + 1, !.deaf = TRUE]
      PROVE  ~IsClean' /\ ~IsExact'
  <2>1. history'.deaf = TRUE
    BY <1>1, <1>3 DEF HistoryFields
  <2>2. ~IsClean'
    BY <2>1 DEF IsClean
  <2> QED
    BY <2>2 DEF IsExact
<1> QED
  BY <1>2, <1>3

\* A step that neither polls nor says how the run stands, after which nothing more is late.
LEMMA LateAside ==
    ASSUME LateInv, UNCHANGED <<seen, server>>,
           Of(requests', "processing") = Of(requests, "processing"),
           AreTimely(requests'),
           IsClean' <=> IsClean, history'.asked = history.asked,
           timer => timer',
           IsClean /\ timer' /\ ~timer => seen # NotSeen /\ ~IsOver(seen),
           HasOf(requests, Followers) => HasOf(requests', Followers),
           "rebuild" \in busy' => "rebuild" \in busy \/ HasOf(requests', Followers),
           IsExact' => IsExact /\ (IsLate(requests', shown') => IsLate(requests, shown))
    PROVE  LateInv'
<1> DEFINE polls == Of(requests, "processing")
<1>1. LateTypeOK'
  BY DEF LateInv, LateTypeOK
<1>2. ASSUME IsClean'
      PROVE  /\ IsFaithful(polls, timer', seen, server, history.asked)
             /\ IsReleasing(requests', timer', busy')
  <2>1. IsFaithful(polls, timer, seen, server, history.asked) /\ IsReleasing(requests, timer, busy)
    BY <1>2 DEF LateInv
  <2>2. /\ IsWatched(polls, timer) => IsWatched(polls, timer')
        /\ AreReleased(polls, timer) => AreReleased(polls, timer')
    BY ArmedStays
  <2>3. IsFaithful(polls, timer', seen, server, history.asked)
    BY <1>2, <2>1, <2>2 DEF IsFaithful
  <2> QED
    BY <2>1, <2>3 DEF IsReleasing
<1>3. ASSUME IsExact', IsLate(requests', shown')
      PROVE  IsExpected(polls, timer', seen)
  <2>1. IsExpected(polls, timer, seen)
    BY <1>3 DEF LateInv
  <2> QED
    BY <2>1, ArmedStays
<1> QED
  BY <1>1, <1>2, <1>3 DEF LateInv

LEMMA OutdateOf ==
    ASSUME DataInv, LateTypeOK, Outdate
    PROVE  /\ Of(requests', "processing") = Of(requests, "processing")
           /\ AreTimely(requests')
           /\ HasOf(requests, Followers) => HasOf(requests', Followers)
<1> DEFINE outdated(r) == [r EXCEPT !.late = r.what = "overview"]
<1>1. requests' = {outdated(r) : r \in requests}
  BY DEF Outdate
<1>2. ASSUME NEW r \in requests
      PROVE  /\ outdated(r).what = r.what /\ outdated(r).by = r.by
             /\ outdated(r).late = (r.what = "overview")
             /\ r.what # "overview" => outdated(r) = r
  <2> DEFINE late == r.what = "overview"
  <2>1. r = [what |-> r.what, by |-> r.by, newest |-> r.newest, sel |-> r.sel,
             late |-> r.late, since |-> r.since,
             answer |-> r.answer, rank |-> r.rank]
    BY DEF DataInv, AreRequests, IsRequest
  <2>2. r.what # "overview" => late = FALSE /\ r.late = FALSE
    BY DEF LateTypeOK, AreTimely
  <2>3. outdated(r) = [r EXCEPT !.late = late]
    OBVIOUS
  <2> HIDE DEF outdated, late
  <2>4. outdated(r) = [what |-> r.what, by |-> r.by, newest |-> r.newest, sel |-> r.sel,
                       late |-> late, since |-> r.since, answer |-> r.answer, rank |-> r.rank]
    BY <2>1, <2>3
  <2>5. outdated(r).what = r.what /\ outdated(r).by = r.by /\ outdated(r).late = late
    BY <2>4
  <2>6. r.what # "overview" => outdated(r) = r
    BY <2>1, <2>2, <2>4
  <2> QED
    BY <2>5, <2>6 DEF late
<1> HIDE DEF outdated
<1>3. Of(requests', "processing") = Of(requests, "processing")
  BY <1>1, <1>2 DEF Of
<1>4. AreTimely(requests')
  BY <1>1, <1>2 DEF AreTimely
<1>5. HasOf(requests, Followers) => HasOf(requests', Followers)
  BY <1>1, <1>2 DEF HasOf
<1> QED
  BY <1>3, <1>4, <1>5

\* A rebuild that begins, or goes on, was asked for, and what is queued waits for a run.
GoesOn(next) ==
    /\ IsRebuilding(next.run) => history.asked
    /\ next.queue # {} => history.asked /\ ~IsOver(next.run)

\* Only what is followed goes on, and when what was asked for is over nothing is asked for.
LEMMA ModuleEndsLate ==
    ASSUME DataInv, OnceTypeOK, LateInv, NEW next, next = [f \in ServerFields |-> next[f]],
           IsRun(next.run), IsClean => GoesOn(next),
           ModuleEnds(next), UNCHANGED <<seen, timer, busy>>
    PROVE  LateInv'
<1> DEFINE polls == Of(requests, "processing")
<1>1. server'.run = next.run /\ server'.queue = next.queue
  <2>1. CASE server' = next
    BY <2>1
  <2>2. ASSUME NEW e, server' = [next EXCEPT !.evidence = Append(@, e)]
        PROVE  server'.run = next.run /\ server'.queue = next.queue
    BY <2>2 DEF ServerFields
  <2> QED
    BY <2>1, <2>2 DEF ModuleEnds
<1>2. /\ (IsClean' <=> IsClean) /\ (IsExact' <=> IsExact)
      /\ history'.asked <=> history.asked /\ ~IsOver(next.run)
  <2>1. history = [f \in HistoryFields |-> history[f]]
    BY DEF OnceTypeOK
  <2> DEFINE asked == history.asked /\ ~IsOver(next.run)
  <2>2. history' = [history EXCEPT !.asked = asked]
    BY DEF ModuleEnds
  <2> HIDE DEF asked
  <2>3. /\ history'.asked = asked /\ history'.deaf = history.deaf
        /\ history'.missed = history.missed /\ history'.losses = history.losses
    BY <2>1, <2>2 DEF HistoryFields
  <2>4. (IsClean' <=> IsClean) /\ (IsExact' <=> IsExact)
    BY <2>3, Zenon DEF IsClean, IsExact
  <2> QED
    BY <2>3, <2>4 DEF asked
<1>3. /\ Of(requests', "processing") = polls
      /\ AreTimely(requests')
      /\ HasOf(requests, Followers) => HasOf(requests', Followers)
      /\ IsLate(requests', shown') => history.asked \/ IsLate(requests, shown)
  <2>1. CASE history.asked /\ Outdate
    <3>1. LateTypeOK
      BY DEF LateInv
    <3> QED
      BY <2>1, <3>1, OutdateOf
  <2>2. CASE UNCHANGED <<requests, shown>>
    BY <2>2 DEF LateInv, LateTypeOK
  <2>3. (history.asked /\ Outdate) \/ UNCHANGED <<requests, shown>>
    BY DEF ModuleEnds
  <2> QED
    BY <2>1, <2>2, <2>3
<1>4. LateTypeOK'
  BY <1>1, <1>3 DEF LateInv, LateTypeOK
<1>5. ASSUME IsClean
      PROVE  IsFaithful(polls, timer, seen, server, history.asked) /\ IsReleasing(requests, timer, busy)
  BY <1>5 DEF LateInv
<1>6. ASSUME IsClean
      PROVE  IsFaithful(polls, timer, seen, server', history'.asked)
  <2>1. IsServed(server', history'.asked)
    BY <1>1, <1>2, <1>6 DEF IsServed, IsRebuilding, GoesOn
  <2> QED
    BY <1>2, <1>5, <1>6, <2>1 DEF IsFaithful
<1>7. ASSUME IsClean
      PROVE  IsReleasing(requests', timer, busy)
  BY <1>3, <1>5, <1>7 DEF IsReleasing
<1>8. ASSUME IsExact, IsLate(requests', shown')
      PROVE  IsExpected(polls, timer, seen)
  <2>1. CASE IsLate(requests, shown)
    BY <1>8, <2>1 DEF LateInv
  <2>2. CASE history.asked
    BY <1>5, <1>8, <2>2 DEF IsExact, IsFaithful, IsExpected
  <2> QED
    BY <1>3, <1>8, <2>1, <2>2
<1> QED
  BY <1>2, <1>3, <1>4, <1>6, <1>7, <1>8 DEF LateInv

LEMMA EndedIs ==
    ASSUME server.run = [f \in RunFields |-> server.run[f]], NEW module, NEW hasFailed
    PROVE  LET ended == Ended(module, hasFailed)
           IN  /\ ended = [f \in RunFields |-> ended[f]]
               /\ ended.rebuild = server.run.rebuild
<1>1. PICK failed : Ended(module, hasFailed) = [server.run EXCEPT !.failed = failed]
  BY DEF Ended
<1> QED
  BY <1>1 DEF RunFields

LEMMA RunAdvancesLate ==
    ASSUME DataInv, OnceTypeOK, LateInv, RunAdvances
    PROVE  LateInv'
<1> DEFINE polls == Of(requests, "processing")
<1>1. UNCHANGED <<seen, timer, busy>>
  BY DEF RunAdvances
<1>2. /\ server = [f \in ServerFields |-> server[f]]
      /\ server.run = [f \in RunFields |-> server.run[f]]
      /\ server.run.stage # "none"
  BY DEF OnceTypeOK, LateInv, LateTypeOK, IsRun
<1>3. IsClean => /\ IsRebuilding(server.run) => history.asked
                 /\ server.queue # {} => history.asked
  BY DEF LateInv, IsFaithful, IsServed
<1>4. CASE /\ server.run.stage = "queued"
           /\ server' = [server EXCEPT !.run.stage = "collecting"]
           /\ UNCHANGED <<history, requests, shown>>
  <2>1. PICK run : run = [server.run EXCEPT !.stage = "collecting"]
    OBVIOUS
  <2>2. server'.run = run /\ server'.queue = server.queue
    <3>1. server' = [server EXCEPT !.run = run]
      BY <1>4, <2>1
    <3> QED
      BY <1>2, <3>1 DEF ServerFields
  <2>3. IsRun(run) /\ ~IsOver(run) /\ run.rebuild = server.run.rebuild /\ ~IsOver(server.run)
    BY <1>2, <1>4, <2>1 DEF IsOver, IsRun, RunFields
  <2>4. LateTypeOK'
    BY <1>4, <2>2, <2>3 DEF LateInv, LateTypeOK
  <2>5. (IsClean' <=> IsClean) /\ (IsExact' <=> IsExact)
    BY <1>4 DEF IsClean, IsExact
  <2>6. IsServed(server, history.asked) => IsServed(server', history'.asked)
    BY <1>4, <2>2, <2>3 DEF IsServed, IsRebuilding
  <2>7. IsClean => IsFaithful(polls, timer, seen, server', history'.asked)
    BY <1>4, <2>6 DEF LateInv, IsFaithful
  <2> QED
    BY <1>1, <1>4, <2>4, <2>5, <2>7 DEF LateInv
<1>5. ASSUME NEW hasFailed, server.run.stage = "collecting",
             ModuleEnds([server EXCEPT !.run = [Ended("usage", hasFailed) EXCEPT
                                                    !.stage = "pricing"]])
      PROVE  LateInv'
  <2>1. PICK ended, run, next : /\ ended = Ended("usage", hasFailed)
                                /\ run = [ended EXCEPT !.stage = "pricing"]
                                /\ next = [server EXCEPT !.run = run]
    OBVIOUS
  <2>2. ended = [f \in RunFields |-> ended[f]] /\ ended.rebuild = server.run.rebuild
    BY <1>2, <2>1, EndedIs
  <2>3. IsRun(run) /\ ~IsOver(run) /\ run.rebuild = server.run.rebuild
    BY <2>1, <2>2 DEF IsRun, RunFields, IsOver
  <2>4. /\ next = [f \in ServerFields |-> next[f]] /\ next.run = run
        /\ next.queue = server.queue
    BY <1>2, <2>1 DEF ServerFields
  <2>5. ~IsOver(server.run)
    BY <1>5 DEF IsOver
  <2>6. IsClean => GoesOn(next)
    BY <1>3, <2>3, <2>4, <2>5 DEF GoesOn, IsRebuilding
  <2>7. ModuleEnds(next)
    BY <1>5, <2>1
  <2> QED
    BY <1>1, <2>3, <2>4, <2>6, <2>7, ModuleEndsLate
<1>6. ASSUME NEW hasFailed, NEW next \in Following(Ended("pricing", hasFailed)),
             ModuleEnds(next)
      PROVE  LateInv'
  <2>1. PICK ended : /\ ended = Ended("pricing", hasFailed)
                     /\ ended = [f \in RunFields |-> ended[f]]
    BY <1>2, EndedIs
  <2>2. Rests(ended, next) \/ \E kind, isStuck : Begins(kind, isStuck, next)
    BY <1>6, <2>1, FollowingIs
  <2>3. CASE Rests(ended, next)
    <3>1. PICK run : run = [ended EXCEPT !.stage = "idle"] /\ next = [server EXCEPT !.run = run]
                     /\ server.queue = {}
      BY <2>3 DEF Rests
    <3>2. IsRun(run) /\ IsOver(run)
      BY <2>1, <3>1 DEF IsRun, RunFields, IsOver
    <3>3. /\ next = [f \in ServerFields |-> next[f]] /\ next.run = run /\ next.queue = {}
      BY <1>2, <3>1 DEF ServerFields
    <3>4. GoesOn(next)
      BY <3>2, <3>3 DEF GoesOn, IsRebuilding
    <3> QED
      BY <1>1, <1>6, <3>2, <3>3, <3>4, ModuleEndsLate
  <2>4. ASSUME NEW kind, NEW isStuck, Begins(kind, isStuck, next)
        PROVE  LateInv'
    <3>1. PICK run : /\ run = Begun(kind)
                     /\ next = [server EXCEPT !.run = run, !.queue = {}, !.stuck = isStuck]
                     /\ kind \in server.queue
      BY <2>4 DEF Begins
    <3>2. IsRun(run)
      BY <3>1 DEF Begun, Run, IsRun, RunFields
    <3>3. /\ next = [f \in ServerFields |-> next[f]] /\ next.run = run /\ next.queue = {}
      BY <1>2, <3>1 DEF ServerFields
    <3>4. IsClean => GoesOn(next)
      BY <1>3, <3>1, <3>3 DEF GoesOn
    <3> QED
      BY <1>1, <1>6, <3>2, <3>3, <3>4, ModuleEndsLate
  <2> QED
    BY <2>2, <2>3, <2>4
<1> QED
  BY <1>4, <1>5, <1>6 DEF RunAdvances

LEMMA TellStatusLate ==
    ASSUME DataInv, LateInv, NEW r \in requests, TellStatus(r)
    PROVE  LateInv'
<1> DEFINE polls == Of(requests, "processing")
           T == Told(polls)
           after == Of(requests', "processing")
           top == CHOOSE m \in 0..MaxPolls : (\E c \in T : c.rank = m) /\ \A c \in T : c.rank <= m
           n == IF T = {} THEN 0 ELSE 1 + top
           reply == [r EXCEPT !.answer = server.run, !.rank = n]
<1>1. Captured = T
  BY DEF Captured, Asked, Told, Of
<1>2. /\ r \in polls /\ r \notin T
      /\ \A c \in T : c.rank < MaxPolls
      /\ requests' = (requests \ {r}) \cup {reply}
      /\ UNCHANGED <<server, shown, seen, timer, busy, history>>
  BY <1>1 DEF TellStatus, Asked, Of
<1>3. r.answer = NotSeen /\ r.what = "processing" /\ r.late = FALSE
  BY <1>2 DEF Told, Of, LateInv, LateTypeOK, AreTimely
<1>4. AreRanked(polls) /\ MaxPolls \in Nat /\ \A c \in T : c.rank \in 0..MaxPolls
  BY DashboardAssumption DEF LateInv, LateTypeOK, AreRanked
<1>5. n \in 0..MaxPolls /\ (\A c \in T : c.rank < n) /\ (T = {} => n = 0)
  <2>1. CASE T = {}
    BY <1>4, <2>1
  <2>2. CASE T # {}
    <3> HIDE DEF T
    <3>1. top \in 0..MaxPolls /\ (\E c \in T : c.rank = top) /\ \A c \in T : c.rank <= top
      BY <1>4, <2>2, NextRank
    <3> HIDE DEF top
    <3>2. top < MaxPolls
      BY <1>2, <3>1
    <3>3. n = 1 + top
      BY <2>2
    <3>4. \A c \in T : c.rank \in Nat /\ c.rank <= top
      BY <1>4, <3>1
    <3> QED
      BY <1>4, <2>2, <3>1, <3>2, <3>3, <3>4
  <2> QED
    BY <2>1, <2>2
<1> HIDE DEF n
<1>6. reply = [what |-> r.what, by |-> r.by, newest |-> r.newest, sel |-> r.sel,
               late |-> r.late, since |-> r.since,
              answer |-> server.run, rank |-> n]
  <2>1. r = [what |-> r.what, by |-> r.by, newest |-> r.newest, sel |-> r.sel,
             late |-> r.late, since |-> r.since, answer |-> r.answer, rank |-> r.rank]
    BY DEF DataInv, AreRequests, IsRequest
  <2> DEFINE answered == [what |-> r.what, by |-> r.by, newest |-> r.newest, sel |-> r.sel,
                          late |-> r.late, since |-> r.since, answer |-> server.run, rank |-> r.rank]
  <2>2. reply = [[r EXCEPT !.answer = server.run] EXCEPT !.rank = n]
    BY <2>1
  <2>3. [r EXCEPT !.answer = server.run] = answered
    BY <2>1
  <2>4. [answered EXCEPT !.rank = n]
        = [what |-> r.what, by |-> r.by, newest |-> r.newest, sel |-> r.sel,
           late |-> r.late, since |-> r.since,
           answer |-> server.run, rank |-> n]
    OBVIOUS
  <2> QED
    BY <2>2, <2>3, <2>4
<1> HIDE DEF reply
<1>7. /\ reply.what = "processing" /\ reply.by = r.by /\ reply.late = FALSE
      /\ reply.answer = server.run /\ reply.rank = n
  BY <1>3, <1>6
<1>8. after = (polls \ {r}) \cup {reply} /\ Of(requests', "overview") = Of(requests, "overview")
  BY <1>2, <1>3, <1>7 DEF Of
<1>9. server.run # NotSeen
  BY DEF LateInv, LateTypeOK, IsRun, NotSeen, Run
<1> HIDE DEF polls, after
<1>10. /\ AreRanked(after)
       /\ IsWatched(polls, timer) /\ ~IsOver(server.run) => IsWatched(after, timer)
       /\ IsExpected(polls, timer, seen) /\ (timer => seen # NotSeen /\ ~IsOver(seen))
             => IsExpected(after, timer, seen)
       /\ AreReleased(polls, timer) /\ (IsRebuilding(server.run) => IsWatched(polls, timer))
             => AreReleased(after, timer)
  <2>0. /\ AreRanked(polls) /\ r \in polls /\ r.answer = NotSeen /\ reply.by = r.by
        /\ after = (polls \ {r}) \cup {reply}
    BY <1>2, <1>3, <1>4, <1>7, <1>8
  <2>1. /\ reply.answer # NotSeen /\ reply.rank \in 0..MaxPolls
        /\ \A c \in Told(polls) : c.rank < reply.rank
        /\ Told(polls) = {} => reply.rank = 0
    BY <1>5, <1>7, <1>9
  <2>2. /\ AreRanked(after)
        /\ IsWatched(polls, timer) /\ ~IsOver(reply.answer) => IsWatched(after, timer)
        /\ IsExpected(polls, timer, seen) /\ (timer => seen # NotSeen /\ ~IsOver(seen))
              => IsExpected(after, timer, seen)
    BY ONLY <2>0, <2>1, TellIs
  <2>3. ASSUME AreReleased(polls, timer), IsRebuilding(reply.answer) => IsWatched(polls, timer)
        PROVE  AreReleased(after, timer)
    BY <1>2, <1>3, <1>4, <1>7, <1>8, <2>1, <2>3, TellReleases
  <2> QED
    BY <1>7, <2>2, <2>3
<1>11. (\E x \in polls : x.by = "mount") => \E x \in after : x.by = "mount"
  BY <1>7, <1>8
<1>12. LateTypeOK'
  <2>1. AreTimely(requests')
    BY <1>2, <1>7 DEF LateInv, LateTypeOK, AreTimely
  <2> QED
    BY <1>2, <1>10, <2>1 DEF LateInv, LateTypeOK, after
<1>13. IsLate(requests', shown') <=> IsLate(requests, shown)
  BY <1>2, <1>8, SameLate
<1>14. (IsClean' <=> IsClean) /\ (IsExact' <=> IsExact) /\ history'.asked = history.asked
  BY <1>2 DEF IsClean, IsExact
<1>15. HasOf(requests, Followers) => HasOf(requests', Followers)
  BY <1>2, <1>7 DEF HasOf
<1>16. ASSUME IsClean
       PROVE  /\ IsFaithful(after, timer, seen, server, history.asked)
              /\ IsReleasing(requests', timer, busy)
  <2>1. IsFaithful(polls, timer, seen, server, history.asked) /\ IsReleasing(requests, timer, busy)
    BY <1>16 DEF LateInv, polls
  <2>2. IsRebuilding(server.run) => IsWatched(polls, timer)
    BY <2>1 DEF IsFaithful, IsServed
  <2>3. IsFaithful(after, timer, seen, server, history.asked)
    <3>1. /\ history.asked => ~IsOver(server.run) /\ IsWatched(polls, timer)
          /\ AreReleased(polls, timer)
      BY <2>1 DEF IsFaithful, IsServed
    <3>2. history.asked => IsWatched(after, timer)
      BY <1>10, <3>1
    <3>3. AreReleased(after, timer)
      BY <1>10, <2>2, <3>1
    <3> QED
      BY <1>11, <2>1, <3>2, <3>3 DEF IsFaithful
  <2> QED
    BY <1>15, <2>1, <2>3 DEF IsReleasing
<1>17. ASSUME IsExact, IsLate(requests, shown)
       PROVE  IsExpected(after, timer, seen)
  <2>1. IsExpected(polls, timer, seen) /\ (timer => seen # NotSeen /\ ~IsOver(seen))
    BY <1>17 DEF LateInv, IsExact, IsFaithful, polls
  <2> QED
    BY <1>10, <2>1
<1> QED
  BY <1>2, <1>12, <1>13, <1>14, <1>16, <1>17 DEF LateInv, after

\* What arrives or is lost of a load is no poll, and what it makes the page load besides is
\* no overview.
LEMMA LoadEndsLate ==
    ASSUME DataInv, LateInv, NEW r \in requests, r.what \in Kinds, NEW now,
           NEW more \in SUBSET Views, LoadEnds(r, now, more)
    PROVE  /\ Of(requests', "processing") = Of(requests, "processing")
           /\ Of(requests', "overview") = Of(requests, "overview") \ {r}
           /\ AreTimely(requests')
           /\ timer => timer'
           /\ IsClean /\ timer' /\ ~timer => seen # NotSeen /\ ~IsOver(seen)
           /\ HasOf(requests, Followers) => HasOf(requests', Followers)
           /\ "rebuild" \in busy' => "rebuild" \in busy
           /\ UNCHANGED <<seen, server>>
<1> DEFINE less == requests \ {r}
           rest == Sent(less, more, r.by)
<1>1. /\ \/ requests' = rest
         \/ requests' = Sent(rest, {"diagnostics"}, "mount")
      /\ timer => timer'
      /\ timer' /\ ~timer => /\ r.by = "mount" /\ \A x \in rest : x.by # r.by
                             /\ ~IsOver(seen)
      /\ busy' \subseteq busy
      /\ UNCHANGED <<seen, server>>
  BY DEF LoadEnds, NeedsPolling
<1>2. /\ AreFormed(less)
      /\ AreTimely(less)
  BY DEF DataInv, AreRequests, LateInv, LateTypeOK, AreFormed, AreTimely
<1>3. /\ \A w : w \notin more => Of(rest, w) = Of(less, w)
      /\ AreTimely(rest)
      /\ AreFormed(rest)
      /\ HasOf(less, Followers) => HasOf(rest, Followers)
  <2>1. rest = Sent(less, more, r.by)
    OBVIOUS
  <2> HIDE DEF less, rest
  <2> QED
    BY <1>2, <2>1, SentOf
<1>4. "overview" \notin more /\ "processing" \notin more /\ r.what # "processing"
  BY Names
<1> HIDE DEF less, rest
<1>6. /\ \A w : w \notin more \cup {"diagnostics"} => Of(requests', w) = Of(less, w)
      /\ AreTimely(requests')
      /\ HasOf(rest, Followers) => HasOf(requests', Followers)
  <2>1. CASE requests' = rest
    BY <1>3, <2>1
  <2>2. CASE requests' = Sent(rest, {"diagnostics"}, "mount")
    <3>1. /\ \A w : w \notin {"diagnostics"} => Of(requests', w) = Of(rest, w)
          /\ AreTimely(requests')
          /\ HasOf(rest, Followers) => HasOf(requests', Followers)
      BY <1>3, <2>2, SentOf
    <3> QED
      BY <1>3, <3>1
  <2> QED
    BY <1>1, <2>1, <2>2
<1>7. /\ Of(requests', "processing") = Of(less, "processing")
      /\ Of(requests', "overview") = Of(less, "overview")
  BY <1>4, <1>6
<1>8. /\ Of(less, "processing") = Of(requests, "processing")
      /\ Of(less, "overview") = Of(requests, "overview") \ {r}
  BY <1>4 DEF less, Of
<1>9. ASSUME IsClean, timer', ~timer
      PROVE  seen # NotSeen /\ ~IsOver(seen)
  <2>1. \A x \in Of(rest, "processing") : x.by # "mount"
    BY <1>1, <1>9 DEF Of
  <2>2. \A x \in Of(requests, "processing") : x.by # "mount"
    BY <1>3, <1>4, <1>8, <2>1
  <2>3. seen # NotSeen
    BY <1>9, <2>2 DEF LateInv, IsFaithful
  <2> QED
    BY <1>1, <1>9, <2>3
<1>10. HasOf(requests, Followers) => HasOf(less, Followers)
  <2>1. r.by \notin Followers
    BY Names DEF DataInv, AreRequests, IsAskedFor, Followers
  <2> QED
    BY <2>1 DEF HasOf, less
<1> QED
  BY <1>1, <1>3, <1>6, <1>7, <1>8, <1>9, <1>10

LEMMA LoadArrivesLate ==
    ASSUME DataInv, OnceTypeOK, LateInv, NEW r \in requests, NEW version,
           LoadArrives(r, version)
    PROVE  LateInv'
<1> DEFINE load == [loaded |-> TRUE, late |-> r.late, sel |-> r.sel, version |-> version]
           more == IF r.what = "index" THEN Views \ KnownViews ELSE {}
<1>1. /\ r.what \in Kinds
      /\ shown' = IF IsTaken(r) THEN [shown EXCEPT ![r.what] = load] ELSE shown
      /\ \E now : LoadEnds(r, now, more)
      /\ \/ UNCHANGED history
         \/ \E n, m : history' = [history EXCEPT !.overtakings = n, !.setbacks = m]
  BY DEF LoadArrives
<1>2. more \in SUBSET Views
  OBVIOUS
<1> HIDE DEF more
<1>3. /\ Of(requests', "processing") = Of(requests, "processing")
      /\ Of(requests', "overview") = Of(requests, "overview") \ {r}
      /\ AreTimely(requests')
      /\ timer => timer'
      /\ IsClean /\ timer' /\ ~timer => seen # NotSeen /\ ~IsOver(seen)
      /\ HasOf(requests, Followers) => HasOf(requests', Followers)
      /\ "rebuild" \in busy' => "rebuild" \in busy
      /\ UNCHANGED <<seen, server>>
  BY <1>1, <1>2, LoadEndsLate
<1>4. shown'["overview"] = IF IsTaken(r) /\ r.what = "overview" THEN load ELSE shown["overview"]
  BY <1>1, Names DEF DataInv
<1>5. load.late = r.late
  OBVIOUS
<1> HIDE DEF load
<1>6. IsLate(requests', shown') => IsLate(requests, shown)
  <2>1. CASE r.what = "overview" /\ r.newest
    <3>1. shown'["overview"].late = r.late /\ r \in Of(requests, "overview")
      BY <1>4, <1>5, <2>1 DEF IsTaken, Of
    <3> QED
      BY <1>3, <2>1, <3>1 DEF IsLate
  <2>2. CASE ~(r.what = "overview" /\ r.newest)
    <3>1. shown'["overview"] = shown["overview"]
      BY <1>4, <2>2 DEF IsTaken, Sequenced
    <3>2. r \in Of(requests, "overview") => ~r.newest
      BY <2>2 DEF Of
    <3> QED
      BY <1>3, <3>1, <3>2 DEF IsLate
  <2> QED
    BY <2>1, <2>2
<1>7. SameExcuses
  BY <1>1, SameExcusesAre
<1> QED
  BY <1>3, <1>6, <1>7, LateAside DEF SameExcuses

LEMMA LoadIsLostLate ==
    ASSUME DataInv, OnceTypeOK, LateInv, NEW r \in requests, LoadIsLost(r)
    PROVE  LateInv'
<1>1. /\ r.what \in Kinds /\ {} \in SUBSET Views
      /\ LoadEnds(r, shown, {})
      /\ history' = [history EXCEPT !.losses = @ + 1]
  BY DEF LoadIsLost
<1>2. /\ Of(requests', "processing") = Of(requests, "processing")
      /\ AreTimely(requests')
      /\ timer => timer'
      /\ IsClean /\ timer' /\ ~timer => seen # NotSeen /\ ~IsOver(seen)
      /\ HasOf(requests, Followers) => HasOf(requests', Followers)
      /\ "rebuild" \in busy' => "rebuild" \in busy
      /\ UNCHANGED <<seen, server>>
  BY <1>1, LoadEndsLate
<1>3. (IsClean' <=> IsClean) /\ ~IsExact' /\ history'.asked = history.asked
  BY <1>1, LossIs
<1> QED
  BY <1>2, <1>3, LateAside

\* A status is no poll any more, and what it makes the page load is not late.
LEMMA StatusEndsLate ==
    ASSUME DataInv, LateTypeOK, NEW r \in Asked("processing"), NEW run, NEW isLost \in BOOLEAN,
           NEW loads \in SUBSET DataLoads, StatusEnds(r, run, isLost, loads)
    PROVE  /\ Of(requests', "processing") = Of(requests, "processing") \ {r}
           /\ AreTimely(requests')
           /\ IsLate(requests', shown') => IsLate(requests, shown)
           /\ \/ "overview" \in loads
              \/ r.by \in Refreshes /\ ~UsageIsBusy(run)
              => ~IsLate(requests', shown')
           /\ seen' = run
           /\ timer' <=> \/ timer /\ (isLost \/ ~IsOver(run))
                         \/ timer' /\ ~IsOver(run)
           /\ r.by \in Followers /\ ~IsOver(run) => timer'
           /\ HasOf(requests \ {r}, Followers) => HasOf(requests', Followers)
           /\ "rebuild" \in busy' => isLost \/ IsRebuilding(run)
           /\ UNCHANGED server
<1> DEFINE less == requests \ {r}
           rest == Sent(less, loads, "nobody")
           more == IF r.by \in Refreshes
                   THEN {"diagnostics"} \cup (IF UsageIsBusy(run) THEN {} ELSE DataLoads)
                   ELSE {}
<1>1. /\ UNCHANGED <<server, shown>> /\ seen' = run
      /\ \/ r.by = "mount" /\ requests' = Sent(rest, {"diagnostics"}, "mount")
         \/ requests' = Sent(rest, more, "nobody")
      /\ timer' <=> \/ timer /\ (isLost \/ ~IsOver(run))
                    \/ timer' /\ ~IsOver(run)
      /\ r.by \in Followers /\ ~IsOver(run) => timer'
      /\ "rebuild" \in busy' => isLost \/ IsRebuilding(run)
  BY DEF StatusEnds, NeedsPolling, Followers, IsRebuilding
<1>2. r \in requests /\ r.what = "processing"
  BY DEF Asked
<1>3. /\ AreFormed(less)
      /\ AreTimely(less)
  BY DEF DataInv, AreRequests, LateTypeOK, AreFormed, AreTimely
<1>4. /\ \A w : w \notin loads => Of(rest, w) = Of(less, w)
      /\ "overview" \in loads => \A answers : ~IsLate(rest, answers)
      /\ AreTimely(rest)
      /\ AreFormed(rest)
      /\ HasOf(less, Followers) => HasOf(rest, Followers)
  <2>1. rest = Sent(less, loads, "nobody")
    OBVIOUS
  <2> HIDE DEF less, rest
  <2> QED
    BY <1>3, <2>1, SentOf
<1>6. /\ more \subseteq Kinds /\ loads \subseteq Kinds
      /\ r.by \in Refreshes /\ ~UsageIsBusy(run) => "overview" \in more
      /\ "processing" \notin Kinds
      /\ r.by = "mount" => more = {}
  BY Names DEF Kinds, Refreshes
<1> HIDE DEF less, rest, more
<1>7. PICK also, task : /\ requests' = Sent(rest, also, task)
                        /\ also = more \/ (also = {"diagnostics"} /\ more = {})
  <2>1. CASE r.by = "mount" /\ requests' = Sent(rest, {"diagnostics"}, "mount")
    BY <1>6, <2>1
  <2>2. CASE requests' = Sent(rest, more, "nobody")
    BY <2>2
  <2> QED
    BY <1>1, <2>1, <2>2
<1>8. /\ \A w : w \notin also => Of(requests', w) = Of(rest, w)
      /\ "overview" \in also => \A answers : ~IsLate(requests', answers)
      /\ AreTimely(requests')
      /\ HasOf(rest, Followers) => HasOf(requests', Followers)
  BY <1>4, <1>7, SentOf
<1>9. "processing" \notin also /\ "processing" \notin loads
  BY <1>6, <1>7
<1>10. /\ Of(less, "processing") = Of(requests, "processing") \ {r}
       /\ Of(less, "overview") = Of(requests, "overview")
  BY <1>2 DEF less, Of
<1>11. "overview" \in loads \cup also => ~IsLate(requests', shown')
  <2>1. CASE "overview" \in also
    BY <1>8, <2>1
  <2>2. CASE "overview" \notin also /\ "overview" \in loads
    <3>1. Of(requests', "overview") = Of(rest, "overview") /\ ~IsLate(rest, shown')
      BY <1>4, <1>8, <2>2
    <3> QED
      BY <3>1, SameLate
  <2> QED
    BY <2>1, <2>2
<1>12. "overview" \notin loads \cup also => (IsLate(requests', shown') <=> IsLate(requests, shown))
  <2> SUFFICES ASSUME "overview" \notin loads \cup also
               PROVE  IsLate(requests', shown') <=> IsLate(requests, shown)
    OBVIOUS
  <2>1. Of(requests', "overview") = Of(requests, "overview") /\ shown' = shown
    BY <1>1, <1>4, <1>8, <1>10
  <2> QED
    BY <2>1, SameLate
<1>13. r.by \in Refreshes /\ ~UsageIsBusy(run) => "overview" \in also
  BY <1>6, <1>7
<1>14. HasOf(requests \ {r}, Followers) => HasOf(requests', Followers)
  BY <1>4, <1>8 DEF less
<1> QED
  BY <1>1, <1>4, <1>8, <1>9, <1>10, <1>11, <1>12, <1>13, <1>14

LEMMA StatusArrivesLate ==
    ASSUME DataInv, OnceTypeOK, LateInv, NEW r \in requests, StatusArrives(r)
    PROVE  LateInv'
<1> DEFINE polls == Of(requests, "processing")
           after == Of(requests', "processing")
           run == r.answer
           loads == LoadsAfter(run)
<1>1. r \in Told(polls) /\ r \in Asked("processing")
  BY DEF StatusArrives, Captured, Asked, Told, Of
<1>2. loads \in SUBSET DataLoads /\ FALSE \in BOOLEAN
  BY Names DEF LoadsAfter
<1>3. StatusEnds(r, run, FALSE, loads)
  BY DEF StatusArrives
<1>4. /\ LoadsAtOnce(r) => \/ "overview" \in loads
                           \/ r.by \in Refreshes /\ ~UsageIsBusy(run)
                           \/ Misses(r)
      /\ EndsHere(seen, run) => \/ "overview" \in loads
                                \/ r.by \in Refreshes /\ ~UsageIsBusy(run)
                                \/ Misses(r)
  <2>1. ASSUME EndsHere(seen, run), r.by \notin Refreshes, "overview" \notin loads
        PROVE  Misses(r)
    <3>1. CASE run.failed = {}
      <4>1. BecameReady(seen, run, PricingIsReady)
        BY <2>1, <3>1 DEF EndsHere, BecameReady, PricingIsReady, IsOver
      <4> QED
        BY <2>1, <4>1 DEF LoadsAfter
    <3>2. CASE run.failed # {}
      BY <2>1, <3>2 DEF Misses, EndsHere
    <3> QED
      BY <3>1, <3>2
  <2>2. ASSUME EndsHere(seen, run), r.by \in Refreshes
        PROVE  ~UsageIsBusy(run)
    BY <2>2 DEF EndsHere, IsOver, UsageIsBusy
  <2>3. ASSUME r.by = "rebuild", IsOver(run), "overview" \notin loads
        PROVE  Misses(r)
    BY <2>3 DEF Misses
  <2> HIDE DEF loads
  <2>4. LoadsAtOnce(r) => \/ r.by \in Refreshes /\ ~UsageIsBusy(run)
                          \/ r.by = "rebuild" /\ IsOver(run)
    BY DEF LoadsAtOnce
  <2> HIDE DEF run
  <2>5. LoadsAtOnce(r) => \/ "overview" \in loads
                          \/ r.by \in Refreshes /\ ~UsageIsBusy(run)
                          \/ Misses(r)
    BY <2>3, <2>4
  <2>6. EndsHere(seen, run) => \/ "overview" \in loads
                               \/ r.by \in Refreshes /\ ~UsageIsBusy(run)
                               \/ Misses(r)
    BY <2>1, <2>2
  <2> QED
    BY <2>5, <2>6
<1>5. LateTypeOK
  BY DEF LateInv
<1> HIDE DEF loads
<1>6. /\ after = polls \ {r}
      /\ AreTimely(requests')
      /\ IsLate(requests', shown') => IsLate(requests, shown)
      /\ \/ "overview" \in loads
         \/ r.by \in Refreshes /\ ~UsageIsBusy(run)
         => ~IsLate(requests', shown')
      /\ seen' = run
      /\ timer' <=> \/ timer /\ (FALSE \/ ~IsOver(run))
                    \/ timer' /\ ~IsOver(run)
      /\ r.by \in Followers /\ ~IsOver(run) => timer'
      /\ HasOf(requests \ {r}, Followers) => HasOf(requests', Followers)
      /\ "rebuild" \in busy' => IsRebuilding(run)
      /\ UNCHANGED server
  BY <1>1, <1>2, <1>3, <1>5, StatusEndsLate
<1>7. /\ IsClean' => IsClean /\ ~Overtakes(r)
      /\ IsExact' => IsExact /\ ~Misses(r) /\ IsClean'
      /\ history'.asked = history.asked
  <2>1. history = [f \in HistoryFields |-> history[f]]
    BY DEF OnceTypeOK
  <2> DEFINE n == IF Overtakes(r) THEN history.overtakings + 1 ELSE history.overtakings
             d == history.deaf \/ Overtakes(r)
             m == history.missed \/ Misses(r)
  <2>2. history' = [history EXCEPT !.overtakings = n, !.deaf = d, !.missed = m]
    BY DEF StatusArrives
  <2> HIDE DEF n, d, m
  <2>3. /\ history'.asked = history.asked /\ history'.deaf = d /\ history'.missed = m
        /\ history'.losses = history.losses
    BY <2>1, <2>2 DEF HistoryFields
  <2>4. IsClean' => IsClean /\ ~Overtakes(r)
    BY <2>3, Zenon DEF IsClean, d
  <2>5. IsExact' => IsExact /\ ~Misses(r) /\ IsClean'
    BY <2>3, <2>4, Zenon DEF IsExact, m
  <2> QED
    BY <2>3, <2>4, <2>5
<1>8. ~Overtakes(r) => \A c \in Told(polls) : c.rank >= r.rank
  <2>1. \A c \in Told(polls) : c.rank \in 0..MaxPolls /\ r.rank \in 0..MaxPolls
    BY <1>1, <1>5 DEF LateTypeOK, AreRanked
  <2>2. MaxPolls \in Nat /\ Captured = Told(polls)
    BY DashboardAssumption DEF Captured, Asked, Told, Of
  <2> QED
    BY <2>1, <2>2 DEF Overtakes
<1>9. AreRanked(polls) /\ IsRun(server.run)
  BY <1>5 DEF LateTypeOK
<1>10. run # NotSeen
  BY <1>1 DEF Told
<1>0. HasOf(after, Followers) => HasOf(requests', Followers)
  BY DEF HasOf, Of
<1> HIDE DEF polls, after
<1>11. AreRanked(after)
  BY <1>6, <1>9 DEF AreRanked, Told
<1>12. LateTypeOK'
  BY <1>6, <1>9, <1>11 DEF LateTypeOK, after
<1>13. (timer \/ r.by \in Followers) /\ ~IsOver(r.answer) => timer'
  BY <1>6
<1>14. ASSUME IsClean'
       PROVE  /\ IsFaithful(after, timer', run, server, history.asked)
              /\ IsReleasing(requests', timer', busy')
  <2>1. IsFaithful(polls, timer, seen, server, history.asked)
    BY <1>7, <1>14 DEF LateInv, polls
  <2>2. \A c \in Told(polls) : c.rank >= r.rank
    BY <1>7, <1>8, <1>14
  <2>3. IsWatched(polls, timer) => IsWatched(after, timer')
    BY <1>1, <1>6, <1>9, <1>13, <2>2, TakeIs
  <2>4. AreReleased(polls, timer)
    BY <2>1 DEF IsFaithful
  <2>5. /\ AreReleased(after, timer')
        /\ IsRebuilding(r.answer) => timer' \/ HasOf(after, Followers)
    BY <1>1, <1>6, <1>9, <1>13, <2>2, <2>4, TakeReleases
  <2>6. timer' => ~IsOver(run)
    BY <1>6
  <2>7. IsFaithful(after, timer', run, server, history.asked)
    BY <1>10, <2>1, <2>3, <2>5, <2>6 DEF IsFaithful
  <2>8. IsReleasing(requests', timer', busy')
    BY <1>0, <1>6, <2>5 DEF IsReleasing
  <2> QED
    BY <2>7, <2>8
<1>15. ASSUME IsExact', IsLate(requests', shown')
       PROVE  IsExpected(after, timer', run)
  <2>1. IsExpected(polls, timer, seen) /\ \A c \in Told(polls) : c.rank >= r.rank
    BY <1>6, <1>7, <1>8, <1>15 DEF LateInv, polls
  <2>2. IsExpected(polls, timer, seen)
           => IsExpected(after, timer', r.answer) \/ LoadsAtOnce(r) \/ EndsHere(seen, r.answer)
    BY <1>1, <1>6, <1>9, <1>13, <2>1, TakeIs
  <2> QED
    BY <1>4, <1>6, <1>7, <1>15, <2>1, <2>2
<1> QED
  BY <1>6, <1>7, <1>12, <1>14, <1>15 DEF LateInv, after

\* After a status or a command is lost nothing is promised.
LEMMA LostLate ==
    ASSUME DataInv, OnceTypeOK, LateInv, IsRun(server'.run),
           history' = [history EXCEPT !.losses = @ + 1, !.deaf = TRUE],
           Of(requests', "processing") \subseteq Of(requests, "processing"),
           AreTimely(requests')
    PROVE  LateInv'
<1>1. ~IsClean' /\ ~IsExact'
  BY LossIs
<1>2. AreRanked(Of(requests', "processing"))
  BY DEF LateInv, LateTypeOK, AreRanked, Told
<1> QED
  BY <1>1, <1>2 DEF LateInv, LateTypeOK

LEMMA StatusIsLostLate ==
    ASSUME DataInv, OnceTypeOK, LateInv, NEW r \in requests, StatusIsLost(r)
    PROVE  LateInv'
<1>1. /\ r \in Asked("processing") /\ TRUE \in BOOLEAN /\ {} \in SUBSET DataLoads
      /\ StatusEnds(r, seen, TRUE, {}) /\ LateTypeOK
      /\ history' = [history EXCEPT !.losses = @ + 1, !.deaf = TRUE]
  BY DEF StatusIsLost, LateInv
<1>2. /\ Of(requests', "processing") = Of(requests, "processing") \ {r}
      /\ AreTimely(requests')
      /\ UNCHANGED server
  BY <1>1, StatusEndsLate
<1>3. IsRun(server'.run)
  BY <1>1, <1>2 DEF LateTypeOK
<1> QED
  BY <1>1, <1>2, <1>3, LostLate

\* Every other request is sent without a poll or with one.
LEMMA RequestsAre ==
    ASSUME DataInv, LateInv, NEW r
    PROVE  AreFormed(requests \ {r}) /\ AreTimely(requests \ {r})
           /\ AreFormed(requests) /\ AreTimely(requests)
  BY DEF DataInv, AreRequests, AreFormed, LateInv, LateTypeOK, AreTimely

\* What is accepted is under way or waits, and is followed.
LEMMA AcceptedServes ==
    ASSUME OnceTypeOK, IsRun(server.run), NEW kind, server' = Accepted(kind)
    PROVE  IsRun(server'.run) /\ ~IsOver(server'.run)
<1>1. server = [f \in ServerFields |-> server[f]]
  BY DEF OnceTypeOK
<1>2. CASE IsOver(server.run)
  <2>1. PICK run : run = Begun(kind)
    OBVIOUS
  <2>2. server' = [server EXCEPT !.run = run]
    BY <1>2, <2>1 DEF Accepted
  <2>3. server'.run = run
    BY <1>1, <2>2 DEF ServerFields
  <2> QED
    BY <2>1, <2>3 DEF Begun, Run, IsRun, RunFields, IsOver
<1>3. CASE ~IsOver(server.run)
  <2>1. \/ server' = [server EXCEPT !.queue = @ \cup {"rebuild"}]
        \/ server' = [server EXCEPT !.queue = @ \cup {"refresh"}]
        \/ server' = server
    BY <1>3 DEF Accepted
  <2>2. server'.run = server.run
    BY <1>1, <2>1 DEF ServerFields
  <2> QED
    BY <1>3, <2>2
<1> QED
  BY <1>2, <1>3

LEMMA PostArrivesLate ==
    ASSUME DataInv, OnceTypeOK, LateInv, NEW r \in requests, PostArrives(r)
    PROVE  LateInv'
<1> DEFINE polls == Of(requests, "processing")
           after == Of(requests', "processing")
           less == requests \ {r}
           poll == Request("processing", r.by)
<1>1. /\ r.what \in {"post refresh", "post rebuild"}
      /\ requests' = Sent(less, {"processing"}, r.by)
      /\ history' = [history EXCEPT !.asked = TRUE]
      /\ UNCHANGED <<shown, seen, timer, busy>>
  BY DEF PostArrives
<1>2. r.by \in Followers
  BY <1>1 DEF DataInv, AreRequests, IsAskedFor, Followers
<1>3. /\ Of(less, "processing") = polls
      /\ Of(less, "overview") = Of(requests, "overview")
  BY <1>1 DEF Of
<1>4. AreFormed(less) /\ AreTimely(less)
  BY RequestsAre
<1> HIDE DEF less
<1>5. /\ Of(requests', "processing") = Of(less, "processing") \cup {poll}
      /\ \A w : w \notin {"processing"} => Of(requests', w) = Of(less, w)
      /\ AreTimely(requests')
      /\ HasOf(requests', Followers)
  <2>1. PICK whats : whats = {"processing"}
    OBVIOUS
  <2>2. requests' = Sent(less, whats, r.by) /\ "processing" \in whats /\ whats # {}
    BY <1>1, <2>1
  <2>3. /\ Of(requests', "processing") = Of(less, "processing") \cup {poll}
        /\ \A w : w \notin whats => Of(requests', w) = Of(less, w)
        /\ AreTimely(requests')
        /\ HasOf(requests', Followers)
    BY <1>2, <1>4, <2>2, SentOf
  <2> QED
    BY <2>1, <2>3
<1>6. after = polls \cup {poll} /\ Of(requests', "overview") = Of(requests, "overview")
  BY <1>3, <1>5
<1>7. poll.answer = NotSeen /\ poll.by = r.by
  BY DEF Request
<1> HIDE DEF poll, polls, after
<1>8. /\ AreRanked(polls) => AreRanked(after)
      /\ IsFollowed(after)
      /\ KeepsPolling(polls, timer) => KeepsPolling(after, timer)
      /\ WillLoad(polls, seen) => WillLoad(after, seen)
      /\ AreReleased(polls, timer) => AreReleased(after, timer)
  BY <1>2, <1>6, <1>7, MorePolls
<1>9. IsRun(server'.run) /\ ~IsOver(server'.run)
  <2>1. PICK kind : server' = Accepted(kind)
    BY DEF PostArrives
  <2> QED
    BY <2>1, AcceptedServes DEF LateInv, LateTypeOK
<1>10. /\ (IsClean' <=> IsClean) /\ (IsExact' <=> IsExact)
       /\ history'.asked = TRUE
  <2>1. history = [f \in HistoryFields |-> history[f]]
    BY DEF OnceTypeOK
  <2>2. /\ history'.asked = TRUE /\ history'.deaf = history.deaf
        /\ history'.missed = history.missed /\ history'.losses = history.losses
    BY <1>1, <2>1 DEF HistoryFields
  <2>3. (IsClean' <=> IsClean) /\ (IsExact' <=> IsExact)
    BY <2>2, Zenon DEF IsClean, IsExact
  <2> QED
    BY <2>2, <2>3
<1>11. LateTypeOK'
  BY <1>5, <1>8, <1>9 DEF LateInv, LateTypeOK, polls, after
<1>12. IsLate(requests', shown') <=> IsLate(requests, shown)
  BY <1>1, <1>6, SameLate
<1>13. ASSUME IsClean
       PROVE  IsFaithful(after, timer, seen, server', history'.asked)
  <2>1. IsFaithful(polls, timer, seen, server, history.asked)
    BY <1>13 DEF LateInv, polls
  <2>2. IsServed(server', history'.asked)
    BY <1>9, <1>10 DEF IsServed
  <2>3. IsWatched(after, timer)
    BY <1>8 DEF IsWatched
  <2>4. (\E x \in polls : x.by = "mount") => \E x \in after : x.by = "mount"
    BY <1>6
  <2> QED
    BY <1>8, <2>1, <2>2, <2>3, <2>4 DEF IsFaithful
<1>14. IsReleasing(requests', timer, busy)
  BY <1>5 DEF IsReleasing
<1>15. IsExpected(after, timer, seen)
  BY <1>8 DEF IsExpected, IsWatched
<1> QED
  BY <1>1, <1>10, <1>11, <1>13, <1>14, <1>15 DEF LateInv, after

\* What is asked for by a person, by a timer or after a deletion.
LEMMA AskingLate ==
    ASSUME DataInv, LateInv, NEW less, AreFormed(less), AreTimely(less),
           Of(less, "processing") = Of(requests, "processing"),
           Of(less, "overview") = Of(requests, "overview"),
           NEW whats, "processing" \notin whats, NEW task, requests' = Sent(less, whats, task),
           HasOf(requests, Followers) => HasOf(less, Followers) \/ (whats # {} /\ task \in Followers),
           "rebuild" \in busy' => "rebuild" \in busy \/ (whats # {} /\ task = "rebuild"),
           UNCHANGED <<shown, seen, timer, server>>, SameExcuses
    PROVE  LateInv'
<1>1. /\ \A w : w \notin whats => Of(requests', w) = Of(less, w)
      /\ "overview" \in whats => \A answers : ~IsLate(requests', answers)
      /\ AreTimely(requests')
      /\ HasOf(less, Followers) => HasOf(requests', Followers)
      /\ task \in Followers /\ whats # {} => HasOf(requests', Followers)
  BY SentOf
<1>2. Of(requests', "processing") = Of(requests, "processing")
  BY <1>1
<1>3. IsLate(requests', shown') => IsLate(requests, shown)
  <2>1. CASE "overview" \in whats
    BY <1>1, <2>1
  <2>2. CASE "overview" \notin whats
    <3>1. Of(requests', "overview") = Of(requests, "overview")
      BY <1>1, <2>2
    <3> QED
      BY <3>1, SameLate
  <2> QED
    BY <2>1, <2>2
<1>4. HasOf(requests, Followers) => HasOf(requests', Followers)
  BY <1>1
<1>5. "rebuild" \in busy' => "rebuild" \in busy \/ HasOf(requests', Followers)
  BY <1>1 DEF Followers
<1>6. /\ IsClean' <=> IsClean
      /\ history'.asked = history.asked
      /\ IsExact' => IsExact
  BY DEF SameExcuses
<1> QED
  BY <1>1, <1>2, <1>3, <1>4, <1>5, <1>6, LateAside

LEMMA DataIsClearedLate ==
    ASSUME DataInv, OnceTypeOK, LateInv, NEW r \in requests, DataIsCleared(r)
    PROVE  LateInv'
<1> DEFINE less == requests \ {r}
           whats == CardLoads \cup {"diagnostics"} \cup Panels
<1>1. /\ r.what = "post clear"
      /\ requests' = Sent(less, whats, "clear")
      /\ UNCHANGED <<server, shown, seen, timer, busy, history>>
  BY DEF DataIsCleared
<1>2. "processing" \notin whats
  BY Names
<1>3. /\ AreFormed(less) /\ AreTimely(less)
      /\ Of(less, "processing") = Of(requests, "processing")
      /\ Of(less, "overview") = Of(requests, "overview")
  BY <1>1, RequestsAre DEF Of
<1>4. SameExcuses
  BY <1>1, SameExcusesAre
<1>5. HasOf(requests, Followers) => HasOf(less, Followers)
  <2>1. r.by \notin Followers
    BY <1>1 DEF DataInv, AreRequests, IsAskedFor, Followers
  <2> QED
    BY <2>1 DEF HasOf
<1> HIDE DEF less, whats
<1> QED
  BY <1>1, <1>2, <1>3, <1>4, <1>5, AskingLate

LEMMA PostIsLostLate ==
    ASSUME DataInv, OnceTypeOK, LateInv, NEW r \in requests, PostIsLost(r)
    PROVE  LateInv'
<1>1. /\ requests' = requests \ {r}
      /\ UNCHANGED server \/ server' = Accepted(KindOf(r))
      /\ history' = [history EXCEPT !.losses = @ + 1, !.deaf = TRUE]
  BY DEF PostIsLost
<1>2. AreTimely(requests') /\ Of(requests', "processing") \subseteq Of(requests, "processing")
  BY <1>1, RequestsAre DEF Of
<1>3. IsRun(server'.run)
  <2>1. IsRun(server.run)
    BY DEF LateInv, LateTypeOK
  <2>2. CASE UNCHANGED server
    BY <2>1, <2>2
  <2>3. CASE server' = Accepted(KindOf(r))
    BY <2>1, <2>3, AcceptedServes
  <2> QED
    BY <1>1, <2>2, <2>3
<1> QED
  BY <1>1, <1>2, <1>3, LostLate

LEMMA TickLate ==
    ASSUME DataInv, LateInv, Tick
    PROVE  LateInv'
<1> DEFINE polls == Of(requests, "processing")
           after == Of(requests', "processing")
           poll == Request("processing", "nobody")
<1>1. PICK whats : /\ whats = {"processing"} /\ requests' = Sent(requests, whats, "nobody")
                   /\ UNCHANGED <<server, shown, seen, timer, busy, history>>
  BY DEF Tick
<1>2. AreFormed(requests) /\ AreTimely(requests) /\ "processing" \in whats
  BY <1>1, RequestsAre
<1>3. /\ after = polls \cup {poll}
      /\ \A w : w \notin whats => Of(requests', w) = Of(requests, w)
      /\ AreTimely(requests')
      /\ HasOf(requests, Followers) => HasOf(requests', Followers)
  BY <1>1, <1>2, SentOf
<1>4. poll.answer = NotSeen
  BY DEF Request
<1>5. IsLate(requests', shown') <=> IsLate(requests, shown)
  BY <1>1, <1>3, SameLate
<1> HIDE DEF poll, polls, after
<1>6. /\ AreRanked(polls) => AreRanked(after)
      /\ IsFollowed(polls) => IsFollowed(after)
      /\ KeepsPolling(polls, timer) => KeepsPolling(after, timer)
      /\ WillLoad(polls, seen) => WillLoad(after, seen)
      /\ AreReleased(polls, timer) => AreReleased(after, timer)
  BY <1>3, <1>4, MorePolls
<1>7. LateTypeOK'
  BY <1>1, <1>3, <1>6 DEF LateInv, LateTypeOK, polls, after
<1>8. (\E x \in polls : x.by = "mount") => \E x \in after : x.by = "mount"
  BY <1>3
<1>9. /\ IsWatched(polls, timer) => IsWatched(after, timer)
      /\ IsExpected(polls, timer, seen) => IsExpected(after, timer, seen)
  BY <1>6 DEF IsWatched, IsExpected
<1>10. IsFaithful(polls, timer, seen, server, history.asked)
       => IsFaithful(after, timer, seen, server, history.asked)
  BY <1>6, <1>8, <1>9 DEF IsFaithful
<1>11. IsReleasing(requests, timer, busy) => IsReleasing(requests', timer, busy)
  BY <1>3 DEF IsReleasing
<1>12. (IsClean' <=> IsClean) /\ (IsExact' <=> IsExact)
  BY <1>1 DEF IsClean, IsExact
<1> QED
  BY <1>1, <1>5, <1>7, <1>9, <1>10, <1>11, <1>12 DEF LateInv, polls, after

\* The request for what is selected takes the place of every other one for an overview.
LEMMA SelectLate ==
    ASSUME DataInv, OnceTypeOK, LateInv, NEW selection, Select(selection)
    PROVE  LateInv'
<1> DEFINE older == Superseded(requests, {"overview"})
           by(r) == IF r.by = "select" THEN "older select" ELSE r.by
           renamed(r) == [r EXCEPT !.by = by(r)]
           newer == [Request("overview", "select") EXCEPT !.sel = selection]
<1>1. /\ requests' = {renamed(r) : r \in older} \cup {newer}
      /\ history' = [history EXCEPT !.selects = @ + 1]
      /\ UNCHANGED <<server, shown, seen, timer, busy>>
  BY DEF Select
<1>2. /\ Of(older, "processing") = Of(requests, "processing")
      /\ \A s \in older : IsRequest(s) /\ (s.what = "overview" => ~s.newest)
      /\ AreTimely(older)
  <2>1. AreFormed(requests) /\ AreTimely(requests)
    BY RequestsAre
  <2>2. \A s \in older : \E r \in requests : /\ IsRequest(s) /\ s.what = r.what
                                             /\ s.newest <=> r.newest /\ r.what # "overview"
    BY <2>1, SupersededHas DEF AreFormed
  <2>3. \A w : w \notin {"overview"} => Of(older, w) = Of(requests, w)
    BY <2>1, SupersededOf DEF AreFormed
  <2> HIDE DEF older
  <2>4. AreTimely(older)
    <3> SUFFICES ASSUME NEW s \in older, s.what # "overview" PROVE s.late = FALSE
      BY DEF AreTimely
    <3>1. s \in Of(older, s.what)
      BY DEF Of
    <3>2. s \in requests
      BY <2>3, <3>1 DEF Of
    <3> QED
      BY <2>1, <3>2 DEF AreTimely
  <2> QED
    BY <2>2, <2>3, <2>4
<1>3. newer.what = "overview" /\ newer.newest /\ newer.late = FALSE
  BY DEF Request
<1>4. ASSUME NEW r \in older
      PROVE  /\ renamed(r).what = r.what /\ renamed(r).newest = r.newest /\ renamed(r).late = r.late
             /\ r.by # "select" => renamed(r) = r
             /\ r.by \in Followers => renamed(r).by = r.by
  <2>1. r = [what |-> r.what, by |-> r.by, newest |-> r.newest, sel |-> r.sel,
             late |-> r.late, since |-> r.since,
             answer |-> r.answer, rank |-> r.rank]
    BY <1>2 DEF IsRequest
  <2>2. r.by # "select" => by(r) = r.by
    OBVIOUS
  <2> HIDE DEF by
  <2>3. renamed(r) = [what |-> r.what, by |-> by(r), newest |-> r.newest, sel |-> r.sel,
                      late |-> r.late, since |-> r.since, answer |-> r.answer, rank |-> r.rank]
    BY <2>1
  <2>4. r.by # "select" => renamed(r) = r
    BY <2>1, <2>2, <2>3
  <2>5. "select" \notin Followers
    BY DEF Followers, Refreshes
  <2> QED
    BY <2>3, <2>4, <2>5
<1> HIDE DEF older, newer, renamed
<1>5. Of(requests', "processing") = Of(requests, "processing")
  <2>1. \A r \in Of(requests, "processing") : r.by # "select"
    BY DEF DataInv, AreRequests, IsAskedFor, Of
  <2> QED
    BY <1>1, <1>2, <1>3, <1>4, <2>1 DEF Of
<1>6. AreTimely(requests')
  BY <1>1, <1>2, <1>3, <1>4 DEF AreTimely
<1>7. ~IsLate(requests', shown')
  <2>1. newer \in Of(requests', "overview")
    BY <1>1, <1>3 DEF Of
  <2>2. \A r \in Of(requests', "overview") : r.newest => ~r.late
    BY <1>1, <1>2, <1>3, <1>4 DEF Of
  <2> QED
    BY <1>3, <2>1, <2>2 DEF IsLate
<1>8. SameExcuses
  BY <1>1, SameExcusesAre
<1>9. HasOf(requests, Followers) => HasOf(requests', Followers)
  <2> SUFFICES ASSUME NEW r \in requests, r.by \in Followers
               PROVE  HasOf(requests', Followers)
    BY DEF HasOf
  <2>1. r.by # "nobody"
    BY DEF Followers, Refreshes
  <2>2. PICK s \in older : s.by = r.by
    <3>1. \A x \in requests : IsRequest(x)
      BY RequestsAre DEF AreFormed
    <3>2. \A x \in requests : x.by # "nobody" =>
              \E s \in Superseded(requests, {"overview"}) : s.by = x.by
      BY <3>1, SupersededHas
    <3> QED
      BY <2>1, <3>2 DEF older
  <2>3. renamed(s) \in requests' /\ renamed(s).by \in Followers
    BY <1>1, <1>4, <2>2
  <2> QED
    BY <2>3 DEF HasOf
<1> QED
  BY <1>1, <1>5, <1>6, <1>7, <1>8, <1>9, LateAside DEF SameExcuses

LEMMA NextLate ==
    ASSUME DataInv, OnceInv, LateInv, [DataNext]_dataVars
    PROVE  LateInv'
<1>1. OnceTypeOK /\ AreFormed(requests) /\ AreTimely(requests)
  <2>1. AreFormed(requests) /\ AreTimely(requests)
    BY RequestsAre
  <2> QED
    BY <2>1 DEF OnceInv
<1>2. ASSUME NEW what, what # "processing", NEW task, requests' = Sent(requests, {what}, task),
             "rebuild" \in busy' => "rebuild" \in busy \/ task = "rebuild",
             UNCHANGED <<shown, seen, timer, server>>,
             history' = [history EXCEPT !.commands = @ + 1]
             \/ history' = [history EXCEPT !.fired = @ + 1]
      PROVE  LateInv'
  <2>1. PICK whats : whats = {what} /\ whats # {}
    OBVIOUS
  <2>2. SameExcuses
    BY <1>1, <1>2, SameExcusesAre
  <2>3. "processing" \notin whats /\ requests' = Sent(requests, whats, task)
    BY <1>2, <2>1
  <2> QED
    BY <1>1, <1>2, <2>1, <2>2, <2>3, AskingLate
<1>3. CASE AutomaticRefresh
  BY <1>2, <1>3 DEF AutomaticRefresh, PerformRefresh
<1>4. CASE Refresh
  BY <1>2, <1>4 DEF Refresh, Commands, PerformRefresh
<1>5. CASE HardRebuild
  BY <1>2, <1>5 DEF HardRebuild, Confirm, Commands
<1>6. CASE ClearLocalData
  BY <1>2, <1>6 DEF ClearLocalData, Confirm, Commands
<1>7. CASE UNCHANGED dataVars
  BY <1>7 DEF dataVars, LateInv, LateTypeOK, IsClean, IsExact
<1>8. CASE \E r \in requests : Arrives(r)
  BY <1>1, <1>8, LoadArrivesLate, StatusArrivesLate, PostArrivesLate, DataIsClearedLate DEF Arrives
<1>9. CASE \E r \in requests : Loses(r)
  BY <1>1, <1>9, LoadIsLostLate, StatusIsLostLate, PostIsLostLate DEF Loses
<1> QED
  BY <1>1, <1>3, <1>4, <1>5, <1>6, <1>7, <1>8, <1>9, RunAdvancesLate, TellStatusLate,
     TickLate, SelectLate DEF DataNext

\* However selections, polls, refreshes and rebuilds overlap: once nothing is on its way any
\* more, the overview has what the runs that were asked for have stored, unless an answer
\* was lost, a status was overtaken by an older one, or the page loads nothing at their end
\* (performRefresh, hardRebuild, loadProcessing, startProcessingPolling).
THEOREM RefreshShown == DataSpec => []RefreshIsShown
<1> DEFINE Inv == DataInv /\ OnceInv /\ LateInv
<1>1. DataInit => Inv
  BY InitData, InitOnce, InitLate
<1>2. Inv /\ [DataNext]_dataVars => Inv'
  BY NextData, NextOnce, NextLate
<1>3. Inv => RefreshIsShown
  <2> SUFFICES ASSUME LateInv, IsQuiet, IsExact, shown["overview"].late
               PROVE  FALSE
    BY DEF RefreshIsShown, IsClean, IsExact
  <2>1. requests = {} /\ ~timer
    BY DEF IsQuiet
  <2>2. Of(requests, "overview") = {} /\ Of(requests, "processing") = {}
    BY <2>1 DEF Of
  <2>3. IsLate(requests, shown)
    BY <2>2 DEF IsLate
  <2>4. IsExpected({}, timer, seen)
    BY <2>2, <2>3 DEF LateInv
  <2> QED
    BY <2>1, <2>4 DEF IsExpected, IsWatched, IsFollowed, KeepsPolling, WillLoad, Told
<1> QED
  BY <1>1, <1>2, <1>3, PTL DEF DataSpec

\* Whatever the page shows as busy has an answer to come that ends it, and a rebuild a poll or
\* the end of a command, as long as no status and no command is lost and no status overtaken
\* (busy and loading flags of the dashboard, hardRebuilding).
THEOREM BusyHasAnEnd == DataSpec => []BusyEnds
<1> DEFINE Inv == DataInv /\ OnceInv /\ LateInv
<1>1. DataInit => Inv
  BY InitData, InitOnce, InitLate
<1>2. Inv /\ [DataNext]_dataVars => Inv'
  BY NextData, NextOnce, NextLate
<1>3. Inv => BusyEnds
  <2> SUFFICES ASSUME DataInv, LateInv
               PROVE  BusyEnds
    OBVIOUS
  <2>1. IsAwaited(requests, loading, busy)
    BY DEF DataInv
  <2>2. \A v \in Views : loading[v] => \E r \in Asked(v) : r.newest
    BY <2>1 DEF IsAwaited, HasNewest, Asked
  <2>3. /\ loading["workbench"] => InFlight({"select"}) # {}
        /\ "refresh" \in busy => InFlight(Refreshes) # {}
        /\ "clear" \in busy => InFlight({"clear"}) # {}
    BY <2>1 DEF IsAwaited, HasOf, InFlight
  <2>4. ASSUME "rebuild" \in busy, ~timer, ~history.deaf
        PROVE  InFlight(Followers) # {}
    <3>1. HasOf(requests, Followers)
      BY <2>4 DEF LateInv, IsClean, IsReleasing
    <3> QED
      BY <3>1 DEF HasOf, InFlight
  <2> QED
    BY <2>2, <2>3, <2>4 DEF BusyEnds
<1> QED
  BY <1>1, <1>2, <1>3, PTL DEF DataSpec

-----------------------------------------------------------------------------
(* The cards of the agents: sequences as the page sorts and filters them.  *)

\* A function on 1 to n is a sequence.
LEMMA ListIs ==
    ASSUME NEW n \in Nat, NEW s, DOMAIN s = 1 .. n, s = [i \in 1 .. n |-> s[i]]
    PROVE  IsSequence(s) /\ Len(s) = n
<1>1. s \in [1 .. n -> Elements(s)]
  BY DEF Elements
<1> HIDE DEF Elements
<1> QED
  BY <1>1 DEF IsSequence

LEMMA SequenceIs ==
    ASSUME NEW s, IsSequence(s)
    PROVE  /\ Len(s) \in Nat /\ DOMAIN s = 1 .. Len(s)
           /\ s = [i \in 1 .. Len(s) |-> s[i]]
BY DEF IsSequence

\* Working out the elements of a sequence leaves it as it is.
LEMMA ListedIs ==
    ASSUME NEW s, IsSequence(s)
    PROVE  Listed(s) = s
<1>1. PICK S : s \in Seq(S)
  BY DEF IsSequence
<1>2. /\ <<>> \o s \in Seq(S) /\ Len(<<>> \o s) = Len(s)
      /\ \A i \in 1 .. Len(s) : (<<>> \o s)[i] = s[i]
  BY <1>1
<1> QED
  BY <1>1, <1>2 DEF Listed

\* The places in the order of their keys, those of one key as they stand.
Sorts(p, at, key) ==
    LET N == Cardinality(at)
    IN  /\ N \in Nat
        /\ p \in [1 .. N -> at]
        /\ \A k, l \in 1 .. N : p[k] = p[l] => k = l
        /\ \A i \in at : \E k \in 1 .. N : p[k] = i
        /\ \A k, l \in 1 .. N :
              k < l => \/ key[p[k]] < key[p[l]]
                       \/ key[p[k]] = key[p[l]] /\ p[k] < p[l]

\* Finitely many places with keys.
Sortable(at, key) == at \in SUBSET Nat /\ IsFiniteSet(at) /\ \A i \in at : key[i] \in Int

IsSorted(s, at, key) ==
    \E p : /\ Sorts(p, at, key)
           /\ SortedAt(s, at, key) = [k \in 1 .. Cardinality(at) |-> s[p[k]]]

LEMMA SortedIs ==
    ASSUME NEW s, NEW at, NEW key, Sortable(at, key)
    PROVE  IsSorted(s, at, key)
<1> DEFINE Before(j, i) == key[j] < key[i] \/ (key[j] = key[i] /\ j <= i)
           upTo(i) == {j \in at : Before(j, i)}
           rank == [i \in at |-> Cardinality(upTo(i))]
           N == Cardinality(at)
           R == {rank[i] : i \in at}
           p == [k \in 1 .. N |-> CHOOSE i \in at : Cardinality(upTo(i)) = k]
<1>0. at \in SUBSET Nat /\ IsFiniteSet(at) /\ \A i \in at : key[i] \in Int
  BY DEF Sortable
<1> USE <1>0
<1>1. N \in Nat
  BY FS_CardinalityType
<1>2. \A i \in at : /\ IsFiniteSet(upTo(i)) /\ Cardinality(upTo(i)) \in Nat
                    /\ Cardinality(upTo(i)) <= N
  <2> SUFFICES ASSUME NEW i \in at
               PROVE  /\ IsFiniteSet(upTo(i)) /\ Cardinality(upTo(i)) \in Nat
                      /\ Cardinality(upTo(i)) <= N
    OBVIOUS
  <2>1. upTo(i) \in SUBSET at
    OBVIOUS
  <2> HIDE DEF upTo
  <2> QED
    BY <2>1, FS_Subset, FS_CardinalityType
<1>3. \A i \in at : rank[i] \in 1 .. N
  <2> SUFFICES ASSUME NEW i \in at PROVE rank[i] \in 1 .. N
    OBVIOUS
  <2>1. i \in upTo(i)
    OBVIOUS
  <2> HIDE DEF upTo
  <2>2. Cardinality(upTo(i)) # 0
    BY <1>2, <2>1, FS_EmptySet
  <2>3. rank[i] = Cardinality(upTo(i))
    OBVIOUS
  <2> QED
    BY <1>1, <1>2, <2>2, <2>3
<1>4. ASSUME NEW i \in at, NEW j \in at, i # j, Before(i, j)
      PROVE  rank[i] < rank[j]
  <2>1. j \in upTo(j)
    OBVIOUS
  <2>2. upTo(i) \in SUBSET (upTo(j) \ {j})
    <3>1. ASSUME NEW k \in at, Before(k, i)
          PROVE  Before(k, j) /\ k # j
      <4>1. key[i] \in Int /\ key[j] \in Int /\ key[k] \in Int
        OBVIOUS
      <4> QED
        BY <1>4, <3>1, <4>1
    <3> HIDE DEF Before
    <3> QED
      BY <3>1
  <2>3. /\ rank[i] = Cardinality(upTo(i)) /\ rank[j] = Cardinality(upTo(j))
    OBVIOUS
  <2> HIDE DEF upTo, rank
  <2>4. /\ IsFiniteSet(upTo(j) \ {j})
        /\ Cardinality(upTo(j) \ {j}) = Cardinality(upTo(j)) - 1
    BY <1>2, <2>1, FS_RemoveElement
  <2>5. Cardinality(upTo(i)) <= Cardinality(upTo(j) \ {j})
    BY <2>2, <2>4, FS_Subset
  <2> QED
    BY <1>2, <2>3, <2>4, <2>5
<1>5. \A i, j \in at : i # j => Before(i, j) \/ Before(j, i)
  OBVIOUS
<1>6. \A i, j \in at : rank[i] = rank[j] => i = j
  <2> HIDE DEF rank, Before
  <2> QED
    BY <1>1, <1>3, <1>4, <1>5
<1>7. R = 1 .. N
  <2>1. rank \in Bijection(at, R)
    BY <1>6 DEF Bijection, Injection, Surjection, IsInjective
  <2>2. R \in SUBSET (1 .. N)
    BY <1>3
  <2> HIDE DEF R, rank
  <2>3. ExistsBijection(at, R)
    BY <2>1 DEF ExistsBijection
  <2>4. Cardinality(R) = N
    BY <2>3, FS_Bijection
  <2>5. IsFiniteSet(1 .. N) /\ Cardinality(1 .. N) = N
    BY <1>1, FS_Interval
  <2> QED
    BY <2>2, <2>4, <2>5, FS_Subset
<1>8. \A k \in 1 .. N : p[k] \in at /\ rank[p[k]] = k
  <2> SUFFICES ASSUME NEW k \in 1 .. N PROVE p[k] \in at /\ rank[p[k]] = k
    OBVIOUS
  <2>1. \E i \in at : Cardinality(upTo(i)) = k
    BY <1>7
  <2>2. p[k] = CHOOSE i \in at : Cardinality(upTo(i)) = k
    OBVIOUS
  <2>3. p[k] \in at /\ Cardinality(upTo(p[k])) = k
    <3> HIDE DEF p, upTo
    <3> QED
      BY <2>1, <2>2
  <2> QED
    BY <2>3
<1>9. SortedAt(s, at, key) = [k \in 1 .. N |-> s[p[k]]]
  <2>1. SortedAt(s, at, key)
          = Listed([k \in 1 .. N |-> s[CHOOSE i \in at : Cardinality(upTo(i)) = k]])
    BY DEF SortedAt
  <2>2. [k \in 1 .. N |-> s[CHOOSE i \in at : Cardinality(upTo(i)) = k]]
          = [k \in 1 .. N |-> s[p[k]]]
    OBVIOUS
  <2>3. IsSequence([k \in 1 .. N |-> s[p[k]]])
    <3> HIDE DEF p, N
    <3> QED
      BY <1>1, ListIs
  <2> QED
    BY <2>1, <2>2, <2>3, ListedIs
<1>10. Sorts(p, at, key)
  <2>1. p \in [1 .. N -> at]
    <3>1. \A k \in 1 .. N : (CHOOSE i \in at : Cardinality(upTo(i)) = k) \in at
      <4>1. \A k \in 1 .. N : p[k] = CHOOSE i \in at : Cardinality(upTo(i)) = k
        OBVIOUS
      <4> HIDE DEF p, upTo, N
      <4> QED
        BY <1>8, <4>1
    <3> HIDE DEF N, upTo
    <3> QED
      BY <3>1
  <2> HIDE DEF p, rank
  <2>2. \A k, l \in 1 .. N : p[k] = p[l] => k = l
    BY <1>8
  <2>3. \A i \in at : \E k \in 1 .. N : p[k] = i
    BY <1>3, <1>6, <1>8
  <2>4. ASSUME NEW k \in 1 .. N, NEW l \in 1 .. N, k < l
        PROVE  key[p[k]] < key[p[l]] \/ (key[p[k]] = key[p[l]] /\ p[k] < p[l])
    <3>1. p[k] # p[l] /\ ~(rank[p[l]] < rank[p[k]])
      BY <1>1, <1>8, <2>4
    <3>2. Before(p[k], p[l])
      <4> HIDE DEF Before
      <4> QED
        BY <1>4, <1>5, <1>8, <3>1
    <3>3. p[k] \in Nat /\ p[l] \in Nat
      BY <1>8
    <3> QED
      BY <3>1, <3>2, <3>3
  <2> HIDE DEF N
  <2>5. /\ Cardinality(at) = N
    BY DEF N
  <2> QED
    BY <1>1, <2>1, <2>2, <2>3, <2>4, <2>5 DEF Sorts
<1> HIDE DEF p
<1> QED
  BY <1>9, <1>10 DEF IsSorted

\* A sequence has as many places as it is long.
LEMMA PlacesAre ==
    ASSUME NEW s, IsSequence(s)
    PROVE  /\ IsFiniteSet(DOMAIN s) /\ Cardinality(DOMAIN s) = Len(s)
           /\ DOMAIN s \in SUBSET Nat
<1>1. Len(s) \in Nat /\ DOMAIN s = 1 .. Len(s)
  BY SequenceIs
<1>2. \A n \in Nat : IsFiniteSet(1 .. n) /\ Cardinality(1 .. n) = n
  BY FS_Interval
<1> QED
  BY <1>1, <1>2

\* A sequence sorted as a whole.
LEMMA SortedByIs ==
    ASSUME NEW s, IsSequence(s), NEW key, \A i \in DOMAIN s : key[i] \in Int
    PROVE  \E p : /\ Sorts(p, DOMAIN s, key)
                  /\ Cardinality(DOMAIN s) = Len(s)
                  /\ SortedBy(s, key) = [k \in 1 .. Len(s) |-> s[p[k]]]
<1> DEFINE at == DOMAIN s
<1>1. IsFiniteSet(at) /\ Cardinality(at) = Len(s) /\ at \in SUBSET Nat
  BY PlacesAre
<1>2. SortedBy(s, key) = SortedAt(s, at, key)
  BY DEF SortedBy
<1> HIDE DEF at
<1>3. \A i \in at : key[i] \in Int
  BY DEF at
<1>4. \E p : /\ Sorts(p, at, key)
             /\ SortedAt(s, at, key) = [k \in 1 .. Cardinality(at) |-> s[p[k]]]
  <2>1. Sortable(at, key)
    BY <1>1, <1>3 DEF Sortable
  <2>2. IsSorted(s, at, key)
    BY <2>1, SortedIs
  <2> QED
    BY <2>2 DEF IsSorted
<1> QED
  BY <1>1, <1>2, <1>4 DEF at

\* A filter sorts by the places themselves.
LEMMA ChosenSorts ==
    ASSUME NEW s, NEW at \in SUBSET Nat, IsFiniteSet(at)
    PROVE  \E p : /\ Sorts(p, at, [i \in at |-> i])
                  /\ Chosen(s, at) = [k \in 1 .. Cardinality(at) |-> s[p[k]]]
<1> DEFINE key == [i \in at |-> i]
<1>1. \A i \in at : key[i] \in Int
  OBVIOUS
<1>2. Chosen(s, at) = SortedAt(s, at, key)
  BY DEF Chosen
<1> HIDE DEF key
<1>3. \E p : /\ Sorts(p, at, key)
             /\ SortedAt(s, at, key) = [k \in 1 .. Cardinality(at) |-> s[p[k]]]
  <2>1. Sortable(at, key)
    BY <1>1 DEF Sortable
  <2> QED
    <3>1. IsSorted(s, at, key)
      BY <2>1, SortedIs
    <3> QED
      BY <3>1 DEF IsSorted
<1> QED
  BY <1>2, <1>3 DEF key

\* What a filter keeps, in the order it had.
LEMMA ChosenIs ==
    ASSUME NEW s, IsSequence(s), NEW at \in SUBSET (DOMAIN s)
    PROVE  /\ IsSequence(Chosen(s, at))
           /\ Elements(Chosen(s, at)) = {s[i] : i \in at}
           /\ \A k, l \in DOMAIN Chosen(s, at) :
                 k < l => \E i, j \in at : /\ i < j /\ Chosen(s, at)[k] = s[i]
                                           /\ Chosen(s, at)[l] = s[j]
<1> DEFINE key == [i \in at |-> i]
           N == Cardinality(at)
<1>2. IsFiniteSet(at) /\ at \in SUBSET Nat
  BY PlacesAre, FS_Subset
<1>3. \A i \in at : key[i] = i
  OBVIOUS
<1> HIDE DEF key
<1>5. PICK p : /\ Sorts(p, at, key)
               /\ Chosen(s, at) = [k \in 1 .. Cardinality(at) |-> s[p[k]]]
  BY <1>2, ChosenSorts DEF key
<1>6. /\ N \in Nat /\ p \in [1 .. N -> at]
      /\ \A i \in at : \E k \in 1 .. N : p[k] = i
      /\ \A k, l \in 1 .. N : k < l => \/ key[p[k]] < key[p[l]]
                                       \/ key[p[k]] = key[p[l]] /\ p[k] < p[l]
  BY <1>5 DEF Sorts
<1>7. \A k, l \in 1 .. N : k < l => p[k] < p[l]
  BY <1>2, <1>3, <1>6
<1> HIDE DEF N
<1> DEFINE t == [k \in 1 .. N |-> s[p[k]]]
<1>8. IsSequence(t) /\ DOMAIN t = 1 .. N
  BY <1>6, ListIs
<1>9. Elements(t) = {s[i] : i \in at}
  BY <1>6 DEF Elements
<1>10. ASSUME NEW k \in 1 .. N, NEW l \in 1 .. N, k < l
       PROVE  \E i, j \in at : i < j /\ t[k] = s[i] /\ t[l] = s[j]
  BY <1>6, <1>7, <1>10
<1>11. Chosen(s, at) = t
  BY <1>5 DEF N
<1> HIDE DEF t
<1> QED
  BY <1>8, <1>9, <1>10, <1>11

\* No two places have the same.
OneEach(s) == \A i, j \in DOMAIN s : s[i] = s[j] => i = j
OneId(s) == \A i, j \in DOMAIN s : s[i].id = s[j].id => i = j

\* Each element comes somewhere first, and there only once.
LEMMA FirstsIs ==
    ASSUME NEW s, IsSequence(s)
    PROVE  /\ IsSequence(Firsts(s)) /\ Elements(Firsts(s)) = Elements(s)
           /\ OneEach(Firsts(s))
<1> DEFINE at == {i \in DOMAIN s : \A j \in 1 .. i - 1 : s[j] # s[i]}
           t == Chosen(s, at)
<1>1. Len(s) \in Nat /\ DOMAIN s = 1 .. Len(s)
  BY SequenceIs
<1>2. Firsts(s) = t
  BY DEF Firsts
<1>3. at \in SUBSET (DOMAIN s)
  OBVIOUS
<1>4. /\ IsSequence(t) /\ Elements(t) = {s[i] : i \in at}
      /\ \A k, l \in DOMAIN t : k < l => \E i, j \in at : i < j /\ t[k] = s[i] /\ t[l] = s[j]
  <2> HIDE DEF at
  <2> QED
    BY <1>3, ChosenIs
<1>5. ASSUME NEW i \in DOMAIN s
      PROVE  \E j \in at : s[j] = s[i]
  <2> DEFINE same == {j \in DOMAIN s : s[j] = s[i]}
  <2>1. same \in SUBSET Nat /\ same # {}
    BY <1>1
  <2> HIDE DEF same
  <2>2. PICK j \in same : \A m \in same : j <= m
    BY <2>1, LeastNatural
  <2> USE DEF same
  <2>3. \A m \in 1 .. j - 1 : m \in DOMAIN s /\ m \notin same
    BY <1>1, <2>2
  <2> QED
    BY <2>2, <2>3
<1>6. {s[i] : i \in at} = Elements(s)
  <2>1. \A x \in {s[i] : i \in at} : x \in Elements(s)
    BY DEF Elements
  <2>2. \A x \in Elements(s) : x \in {s[i] : i \in at}
    BY <1>5 DEF Elements
  <2> QED
    BY <2>1, <2>2
<1>7. \A i, j \in at : i < j => s[i] # s[j]
  BY <1>1
<1>8. OneEach(t)
  <2> SUFFICES ASSUME NEW k \in DOMAIN t, NEW l \in DOMAIN t, k # l
               PROVE  t[k] # t[l]
    BY DEF OneEach
  <2>1. k \in Int /\ l \in Int
    BY <1>4, SequenceIs
  <2>2. k < l \/ l < k
    BY <2>1
  <2> HIDE DEF t, at
  <2> QED
    BY <1>4, <1>7, <2>2
<1> QED
  BY <1>2, <1>4, <1>6, <1>8

\* One after the other.
Joins(all, s, t) ==
    /\ IsSequence(all) /\ Len(all) = Len(s) + Len(t)
    /\ Elements(all) = Elements(s) \cup Elements(t)
    /\ \A i \in DOMAIN s : all[i] = s[i]
    /\ \A i \in DOMAIN t : all[Len(s) + i] = t[i]

LEMMA JoinedIs ==
    ASSUME NEW s, NEW t, IsSequence(s), IsSequence(t)
    PROVE  Joins(s \o t, s, t)
<1>1. /\ Len(s) \in Nat /\ DOMAIN s = 1 .. Len(s)
      /\ Len(t) \in Nat /\ DOMAIN t = 1 .. Len(t)
  BY SequenceIs
<1> DEFINE S == Elements(s) \cup Elements(t)
           u == s \o t
<1>2. s \in Seq(S) /\ t \in Seq(S)
  BY DEF IsSequence
<1> HIDE DEF S
<1>3. /\ u \in Seq(S) /\ Len(u) = Len(s) + Len(t)
      /\ \A i \in 1 .. Len(s) + Len(t) : u[i] = IF i <= Len(s) THEN s[i] ELSE t[i - Len(s)]
  BY <1>2
<1> HIDE DEF u
<1>4. DOMAIN u = 1 .. Len(s) + Len(t) /\ u = [i \in 1 .. Len(u) |-> u[i]]
  BY <1>3
<1>5. IsSequence(u)
  BY <1>1, <1>3, <1>4, ListIs
<1>6. \A i \in DOMAIN s : i \in DOMAIN u /\ u[i] = s[i]
  BY <1>1, <1>3, <1>4
<1>7. \A i \in DOMAIN t : Len(s) + i \in DOMAIN u /\ u[Len(s) + i] = t[i]
  BY <1>1, <1>3, <1>4
<1>8. Elements(u) = Elements(s) \cup Elements(t)
  <2>1. ASSUME NEW i \in DOMAIN u
        PROVE  u[i] \in Elements(s) \cup Elements(t)
    <3>1. CASE i <= Len(s)
      BY <1>1, <1>3, <1>4, <3>1 DEF Elements
    <3>2. CASE ~(i <= Len(s))
      <4>1. i - Len(s) \in DOMAIN t /\ u[i] = t[i - Len(s)]
        BY <1>1, <1>3, <1>4, <3>2
      <4> QED
        BY <4>1 DEF Elements
    <3> QED
      BY <3>1, <3>2
  <2> QED
    BY <1>6, <1>7, <2>1 DEF Elements
<1>9. Joins(u, s, t)
  BY <1>3, <1>5, <1>6, <1>7, <1>8 DEF Joins
<1> QED
  BY <1>9 DEF u

LEMMA JoinIs ==
    ASSUME NEW s, NEW t, IsSequence(s), IsSequence(t)
    PROVE  IsSequence(s \o t) /\ Elements(s \o t) = Elements(s) \cup Elements(t)
<1> DEFINE u == s \o t
<1>1. Joins(u, s, t)
  BY JoinedIs
<1> HIDE DEF u
<1>2. IsSequence(u) /\ Elements(u) = Elements(s) \cup Elements(t)
  BY <1>1 DEF Joins
<1> QED
  BY <1>2 DEF u

\* What is searched for by its identity is found.
LEMMA FoundIs ==
    ASSUME NEW s, IsSequence(s), NEW id, HasId(s, id)
    PROVE  FindId(s, id) \in Elements(s) /\ FindId(s, id).id = id
<1>1. Len(s) \in Nat /\ DOMAIN s = 1 .. Len(s)
  BY SequenceIs
<1> DEFINE same == {j \in DOMAIN s : s[j].id = id}
           First(i) == s[i].id = id /\ \A j \in 1 .. i - 1 : s[j].id # id
<1>2. same \in SUBSET Nat /\ same # {}
  BY <1>1 DEF HasId
<1>3. \E i \in DOMAIN s : First(i)
  <2> HIDE DEF same
  <2>1. PICK j \in same : \A m \in same : j <= m
    BY <1>2, LeastNatural
  <2> USE DEF same
  <2>2. \A m \in 1 .. j - 1 : m \in DOMAIN s /\ m \notin same
    BY <1>1, <2>1
  <2> QED
    BY <2>1, <2>2
<1>4. FindId(s, id) = s[CHOOSE i \in DOMAIN s : First(i)]
  BY DEF FindId
<1> HIDE DEF First
<1>5. /\ (CHOOSE i \in DOMAIN s : First(i)) \in DOMAIN s
      /\ First(CHOOSE i \in DOMAIN s : First(i))
  BY <1>3
<1> QED
  BY <1>4, <1>5 DEF First, Elements

\* Places of different identities are as many identities.
LEMMA DistinctIs ==
    ASSUME NEW s, IsSequence(s), OneId(s)
    PROVE  IdsAreDistinct(s)
<1> DEFINE ids == {s[i].id : i \in DOMAIN s}
           f == [i \in DOMAIN s |-> s[i].id]
<1>2. f \in Bijection(DOMAIN s, ids)
  BY DEF OneId, Bijection, Injection, Surjection, IsInjective
<1>3. IsFiniteSet(DOMAIN s) /\ Cardinality(DOMAIN s) = Len(s)
  BY PlacesAre
<1> HIDE DEF f, ids
<1>4. ExistsBijection(DOMAIN s, ids)
  BY <1>2 DEF ExistsBijection
<1>5. Cardinality(ids) = Len(s)
  BY <1>3, <1>4, FS_Bijection
<1> QED
  BY <1>5 DEF ids, IdsAreDistinct

-----------------------------------------------------------------------------
(* The quota windows on a card.                                            *)

\* The priority of a label is that of its shortest window.
LEMMA PriorityIs ==
    ASSUME NEW label, IsSequence(label)
    PROVE  /\ quotaWindowPriority(label) \in 1 .. 4
           /\ \A n \in DOMAIN label : quotaWindowPriority(label) <= WindowOf(label[n])
           /\ quotaWindowPriority(label) # NoWindow =>
                 \E n \in DOMAIN label : WindowOf(label[n]) = quotaWindowPriority(label)
<1>1. \A segment : WindowOf(segment) \in 1 .. 4
  BY DEF WindowOf, NoWindow
<1>2. Len(label) \in Nat /\ DOMAIN label = 1 .. Len(label)
  BY SequenceIs
<1>3. CASE label = <<>>
  <2>1. DOMAIN label = {}
    BY <1>3
  <2> QED
    BY <1>3, <2>1 DEF quotaWindowPriority, NoWindow
<1>4. CASE label # <<>>
  <2> DEFINE windows == {WindowOf(label[i]) : i \in DOMAIN label}
  <2>1. DOMAIN label # {}
    <3>1. label \in Seq(Elements(label))
      BY DEF IsSequence
    <3>2. Len(label) # 0
      BY <1>4, <3>1
    <3> QED
      BY <1>2, <3>2
  <2>2. windows # {} /\ windows \in SUBSET (1 .. 4)
    BY <1>1, <2>1
  <2>3. quotaWindowPriority(label) = CHOOSE w \in windows : \A other \in windows : w <= other
    BY <1>4 DEF quotaWindowPriority
  <2>4. \A i \in DOMAIN label : WindowOf(label[i]) \in windows
    OBVIOUS
  <2>5. \A w \in windows : \E i \in DOMAIN label : WindowOf(label[i]) = w
    OBVIOUS
  <2> HIDE DEF windows
  <2>6. \E w \in windows : \A other \in windows : w <= other
    <3>1. CASE 1 \in windows
      BY <2>2, <3>1
    <3>2. CASE 1 \notin windows /\ 2 \in windows
      BY <2>2, <3>2
    <3>3. CASE 1 \notin windows /\ 2 \notin windows /\ 3 \in windows
      BY <2>2, <3>3
    <3>4. CASE 1 \notin windows /\ 2 \notin windows /\ 3 \notin windows
      <4>1. \A other \in windows : other = 4
        <5> SUFFICES ASSUME NEW other \in windows PROVE other = 4
          OBVIOUS
        <5>1. other \in 1 .. 4 /\ other # 1 /\ other # 2 /\ other # 3
          BY <2>2, <3>4
        <5> QED
          BY <5>1
      <4>2. 4 \in windows
        BY <2>2, <4>1
      <4> QED
        BY <4>1, <4>2
    <3> QED
      BY <3>1, <3>2, <3>3, <3>4
  <2>7. /\ quotaWindowPriority(label) \in windows
        /\ \A other \in windows : quotaWindowPriority(label) <= other
    BY <2>3, <2>6
  <2> QED
    BY <2>2, <2>4, <2>5, <2>7
<1> QED
  BY <1>3, <1>4

\* Of two labels, the one of less priority has the longer windows.
LEMMA WindowsFollow ==
    ASSUME NEW a, NEW b, IsSequence(a), IsSequence(b),
           quotaWindowPriority(a) <= quotaWindowPriority(b)
    PROVE  LET windows(label) == {WindowOf(label[n]) : n \in DOMAIN label} \ {NoWindow}
           IN  /\ windows(a) = {} => windows(b) = {}
               /\ \A n \in windows(b) : \E m \in windows(a) : m <= n
<1> DEFINE windows(label) == {WindowOf(label[n]) : n \in DOMAIN label} \ {NoWindow}
<1>1. \A segment : WindowOf(segment) \in 1 .. 4
  BY DEF WindowOf, NoWindow
<1>2. NoWindow = 4
  BY DEF NoWindow
<1>3. /\ quotaWindowPriority(a) \in 1 .. 4 /\ quotaWindowPriority(b) \in 1 .. 4
      /\ \A n \in DOMAIN b : quotaWindowPriority(b) <= WindowOf(b[n])
      /\ quotaWindowPriority(a) # NoWindow =>
            \E n \in DOMAIN a : WindowOf(a[n]) = quotaWindowPriority(a)
  BY PriorityIs
<1>4. ASSUME NEW n \in windows(b)
      PROVE  quotaWindowPriority(a) \in windows(a) /\ quotaWindowPriority(a) <= n
  <2>1. PICK k \in DOMAIN b : n = WindowOf(b[k]) /\ n # NoWindow
    OBVIOUS
  <2>2. quotaWindowPriority(b) <= n /\ n \in 1 .. 3
    BY <1>1, <1>2, <1>3, <2>1
  <2>3. quotaWindowPriority(a) <= n /\ quotaWindowPriority(a) # NoWindow
    BY <1>2, <1>3, <2>2
  <2> QED
    BY <1>3, <2>3
<1> HIDE DEF windows
<1>5. /\ windows(a) = {} => windows(b) = {}
      /\ \A n \in windows(b) : \E m \in windows(a) : m <= n
  BY <1>4
<1> QED
  BY <1>5 DEF windows

\* Sorting by window and then by group, neither changing the order of equals, keeps the
\* groups together.
LEMMA GroupsStay ==
    ASSUME NEW buckets, HasLabels(buckets)
    PROVE  GroupsStayTogether(displayQuotaBuckets(buckets))
<1> DEFINE priority == [i \in DOMAIN buckets |-> quotaWindowPriority(buckets[i].label)]
           byWindow == SortedBy(buckets, priority)
           groups == Listed([i \in DOMAIN byWindow |-> quotaModelGroup(byWindow[i].label)])
           groupOrder == Firsts(groups)
           place(group) == CHOOSE g \in DOMAIN groupOrder : groupOrder[g] = group
           key == [i \in DOMAIN byWindow |-> place(groups[i])]
           rows == SortedBy(byWindow, key)
           N == Len(buckets)
<1>1. displayQuotaBuckets(buckets) = rows
  BY DEF displayQuotaBuckets
<1>2. /\ IsSequence(buckets) /\ N \in Nat /\ DOMAIN buckets = 1 .. N
      /\ \A i \in DOMAIN buckets : IsSequence(buckets[i].label)
  BY SequenceIs DEF HasLabels
<1>3. \A i \in DOMAIN buckets : /\ priority[i] = quotaWindowPriority(buckets[i].label)
                                /\ priority[i] \in Int
  <2> SUFFICES ASSUME NEW i \in DOMAIN buckets
               PROVE  /\ priority[i] = quotaWindowPriority(buckets[i].label)
                      /\ priority[i] \in Int
    OBVIOUS
  <2>1. quotaWindowPriority(buckets[i].label) \in 1 .. 4
    BY <1>2, PriorityIs
  <2> QED
    BY <2>1
<1> HIDE DEF priority
<1>4. PICK p : /\ Sorts(p, DOMAIN buckets, priority)
               /\ Cardinality(DOMAIN buckets) = N
               /\ byWindow = [k \in 1 .. N |-> buckets[p[k]]]
  <2>1. \A i \in DOMAIN buckets : priority[i] \in Int
    BY <1>3
  <2> QED
    BY <1>2, <2>1, SortedByIs
<1>5. /\ p \in [1 .. N -> 1 .. N]
      /\ \A k, l \in 1 .. N :
            k < l => \/ priority[p[k]] < priority[p[l]]
                     \/ priority[p[k]] = priority[p[l]] /\ p[k] < p[l]
  BY <1>2, <1>4 DEF Sorts
<1>6. DOMAIN byWindow = 1 .. N /\ \A k \in 1 .. N : byWindow[k] = buckets[p[k]]
  BY <1>4
<1>7. IsSequence(byWindow) /\ Len(byWindow) = N
  <2> HIDE DEF byWindow
  <2>1. byWindow = [k \in 1 .. N |-> byWindow[k]]
    BY <1>4, <1>6
  <2> QED
    BY <1>2, <1>6, <2>1, ListIs
<1> HIDE DEF byWindow, N
<1> DEFINE ofGroups == [i \in 1 .. N |-> quotaModelGroup(byWindow[i].label)]
<1>8. IsSequence(groups) /\ groups = ofGroups /\ DOMAIN groups = 1 .. N
  <2>1. IsSequence(ofGroups) /\ DOMAIN ofGroups = 1 .. N
    <3>1. DOMAIN ofGroups = 1 .. N /\ ofGroups = [i \in 1 .. N |-> ofGroups[i]]
      OBVIOUS
    <3> HIDE DEF ofGroups
    <3> QED
      BY <1>2, <3>1, ListIs
  <2>2. groups = Listed(ofGroups)
    BY <1>6
  <2> HIDE DEF groups, ofGroups
  <2> QED
    BY <2>1, <2>2, ListedIs
<1>9. \A k \in 1 .. N : groups[k] = quotaModelGroup(byWindow[k].label)
  <2> HIDE DEF groups
  <2> QED
    BY <1>8
<1> HIDE DEF groups, ofGroups
<1>10. /\ IsSequence(groupOrder) /\ Elements(groupOrder) = Elements(groups)
       /\ OneEach(groupOrder)
  BY <1>8, FirstsIs
<1>11. \A i \in 1 .. N : /\ place(groups[i]) \in DOMAIN groupOrder
                         /\ groupOrder[place(groups[i])] = groups[i]
  <2> SUFFICES ASSUME NEW i \in 1 .. N
               PROVE  /\ place(groups[i]) \in DOMAIN groupOrder
                      /\ groupOrder[place(groups[i])] = groups[i]
    OBVIOUS
  <2> HIDE DEF groupOrder
  <2>1. groups[i] \in Elements(groupOrder)
    BY <1>8, <1>10 DEF Elements
  <2>2. \E g \in DOMAIN groupOrder : groupOrder[g] = groups[i]
    BY <2>1 DEF Elements
  <2> QED
    BY <2>2
<1>12. \A i \in 1 .. N : key[i] \in Int /\ groupOrder[key[i]] = groups[i]
  <2>1. \A g \in DOMAIN groupOrder : g \in Int
    <3> HIDE DEF groupOrder
    <3> QED
      BY <1>10, SequenceIs
  <2>2. \A i \in 1 .. N : key[i] = place(groups[i])
    BY <1>6
  <2> HIDE DEF groupOrder, place, key
  <2> QED
    BY <1>11, <2>1, <2>2
<1> HIDE DEF key
<1>13. PICK q : /\ Sorts(q, DOMAIN byWindow, key)
                /\ Cardinality(DOMAIN byWindow) = Len(byWindow)
                /\ rows = [k \in 1 .. Len(byWindow) |-> byWindow[q[k]]]
  <2>1. \A i \in DOMAIN byWindow : key[i] \in Int
    BY <1>6, <1>12
  <2> QED
    BY <1>7, <2>1, SortedByIs
<1>14. /\ q \in [1 .. N -> 1 .. N]
       /\ \A k, l \in 1 .. N : k < l => \/ key[q[k]] < key[q[l]]
                                        \/ key[q[k]] = key[q[l]] /\ q[k] < q[l]
       /\ rows = [k \in 1 .. N |-> byWindow[q[k]]]
  BY <1>6, <1>7, <1>13 DEF Sorts
<1> DEFINE group(i) == quotaModelGroup(rows[i].label)
           window(i) == {WindowOf(rows[i].label[n]) : n \in DOMAIN rows[i].label} \ {NoWindow}
<1>15. \A i \in 1 .. N : group(i) = groups[q[i]]
  BY <1>9, <1>14
<1>16. DOMAIN rows = 1 .. N /\ \A i \in 1 .. N : rows[i] = buckets[p[q[i]]]
  BY <1>5, <1>6, <1>14
<1> HIDE DEF rows, place, groupOrder
<1>17. ASSUME NEW i \in 1 .. N, NEW j \in 1 .. N, i < j, group(i) = group(j)
       PROVE  /\ \A k \in i .. j : group(k) = group(i)
              /\ window(i) = {} => window(j) = {}
              /\ \A n \in window(j) : \E m \in window(i) : m <= n
  <2>1. \A k, l \in 1 .. N : k <= l => key[q[k]] <= key[q[l]]
    <3> SUFFICES ASSUME NEW k \in 1 .. N, NEW l \in 1 .. N, k <= l
                 PROVE  key[q[k]] <= key[q[l]]
      OBVIOUS
    <3>1. q[k] \in 1 .. N /\ q[l] \in 1 .. N
      BY <1>14
    <3>2. key[q[k]] \in Int /\ key[q[l]] \in Int
      BY <1>12, <3>1
    <3>3. k = l \/ k < l
      BY <1>2
    <3>4. key[q[k]] < key[q[l]] \/ key[q[k]] = key[q[l]]
      BY <1>14, <3>3
    <3> QED
      BY <3>2, <3>4
  <2> HIDE DEF group
  <2>2. key[q[i]] = key[q[j]] /\ q[i] < q[j]
    <3>1. \A a, b \in 1 .. N : groups[a] = groups[b] => key[a] = key[b]
      BY <1>6 DEF key
    <3>2. groups[q[i]] = groups[q[j]]
      BY <1>15, <1>17
    <3>3. q[i] \in 1 .. N /\ q[j] \in 1 .. N
      BY <1>14
    <3>4. key[q[i]] = key[q[j]]
      BY <3>1, <3>2, <3>3
    <3>5. key[q[i]] \in Int
      BY <1>12, <3>3
    <3> QED
      BY <1>14, <1>17, <3>4, <3>5
  <2>3. ASSUME NEW k \in i .. j
        PROVE  group(k) = group(i)
    <3>1. k \in 1 .. N /\ i <= k /\ k <= j
      BY <1>2
    <3>2. q[k] \in 1 .. N /\ q[i] \in 1 .. N
      BY <1>14, <3>1
    <3>3. key[q[i]] <= key[q[k]] /\ key[q[k]] <= key[q[j]]
      BY <2>1, <3>1
    <3>4. key[q[k]] = key[q[i]]
      <4>1. key[q[i]] \in Int /\ key[q[k]] \in Int
        BY <1>12, <3>2
      <4> QED
        BY <2>2, <3>3, <4>1
    <3>5. groups[q[k]] = groups[q[i]]
      BY <1>12, <3>2, <3>4
    <3> QED
      BY <1>15, <3>1, <3>5
  <2>4. priority[p[q[i]]] <= priority[p[q[j]]]
    <3>1. q[i] \in 1 .. N /\ q[j] \in 1 .. N
      BY <1>14
    <3>2. p[q[i]] \in 1 .. N /\ p[q[j]] \in 1 .. N
      BY <1>5, <3>1
    <3>3. priority[p[q[i]]] \in Int /\ priority[p[q[j]]] \in Int
      BY <1>2, <1>3, <3>2
    <3>4. \/ priority[p[q[i]]] < priority[p[q[j]]]
          \/ priority[p[q[i]]] = priority[p[q[j]]]
      BY <1>5, <2>2, <3>1
    <3> QED
      BY <3>3, <3>4
  <2>5. quotaWindowPriority(rows[i].label) <= quotaWindowPriority(rows[j].label)
    <3>1. p[q[i]] \in DOMAIN buckets /\ p[q[j]] \in DOMAIN buckets
      BY <1>2, <1>5, <1>14
    <3> QED
      BY <1>3, <1>16, <2>4, <3>1
  <2>6. IsSequence(rows[i].label) /\ IsSequence(rows[j].label)
    BY <1>2, <1>5, <1>14, <1>16
  <2>7. /\ window(i) = {} => window(j) = {}
        /\ \A n \in window(j) : \E m \in window(i) : m <= n
    BY <2>5, <2>6, WindowsFollow
  <2> QED
    BY <2>3, <2>7
<1>18. GroupsStayTogether(rows)
  <2>1. \A i, j \in DOMAIN rows : i < j /\ group(i) = group(j) =>
           /\ \A k \in i .. j : group(k) = group(i)
           /\ window(i) = {} => window(j) = {}
           /\ \A n \in window(j) : \E m \in window(i) : m <= n
    <3> HIDE DEF group, window
    <3> QED
      BY <1>16, <1>17
  <2> QED
    BY <2>1, Zenon DEF GroupsStayTogether
<1> QED
  BY <1>1, <1>18

-----------------------------------------------------------------------------
(* The order of the cards.                                                 *)

\* Sorting changes the places only.
LEMMA SortedKeeps ==
    ASSUME NEW s, IsSequence(s), NEW key, \A i \in DOMAIN s : key[i] \in Int
    PROVE  /\ IsSequence(SortedBy(s, key)) /\ Len(SortedBy(s, key)) = Len(s)
           /\ Elements(SortedBy(s, key)) = Elements(s)
           /\ OneId(s) => OneId(SortedBy(s, key))
<1> DEFINE N == Len(s)
<1>1. N \in Nat /\ DOMAIN s = 1 .. N
  BY SequenceIs
<1>2. PICK p : /\ Sorts(p, DOMAIN s, key)
               /\ Cardinality(DOMAIN s) = N
               /\ SortedBy(s, key) = [k \in 1 .. N |-> s[p[k]]]
  BY SortedByIs
<1>3. /\ p \in [1 .. N -> 1 .. N]
      /\ \A k, l \in 1 .. N : p[k] = p[l] => k = l
      /\ \A i \in 1 .. N : \E k \in 1 .. N : p[k] = i
  BY <1>1, <1>2 DEF Sorts
<1> HIDE DEF N
<1> DEFINE t == [k \in 1 .. N |-> s[p[k]]]
<1>4. t = [k \in 1 .. N |-> t[k]] /\ DOMAIN t = 1 .. N
  OBVIOUS
<1>5. IsSequence(t) /\ Len(t) = N
  <2> HIDE DEF t
  <2> QED
    BY <1>1, <1>4, ListIs
<1>6. Elements(t) = Elements(s)
  <2>1. \A x \in Elements(t) : x \in Elements(s)
    BY <1>1, <1>3 DEF Elements
  <2>2. \A x \in Elements(s) : x \in Elements(t)
    BY <1>1, <1>3 DEF Elements
  <2> QED
    BY <2>1, <2>2
<1>7. OneId(s) => OneId(t)
  BY <1>1, <1>3 DEF OneId
<1>8. SortedBy(s, key) = t
  BY <1>2
<1> HIDE DEF t
<1> QED
  BY <1>5, <1>6, <1>7, <1>8 DEF N

\* One card before another: by their priority, and those of one priority by their names.
InTurn(s) ==
    \A k, l \in DOMAIN s :
        k < l => \/ AgentPriority(s[k].id) < AgentPriority(s[l].id)
                 \/ /\ AgentPriority(s[k].id) = AgentPriority(s[l].id)
                    /\ NameRank[s[k].name] <= NameRank[s[l].name]

LEMMA AgentPriorityIs ==
    /\ \A a : AgentPriority(a) \in 1 .. 7
    /\ \A a, b : AgentPriority(a) = AgentPriority(b) /\ a # b => AgentPriority(a) = 7
  BY DEF AgentPriority

LEMMA InPlaceIs ==
    ASSUME NEW cards, IsSequence(cards), \A i \in DOMAIN cards : NameRank[cards[i].name] \in Nat
    PROVE  /\ IsSequence(InPlace(cards)) /\ Elements(InPlace(cards)) = Elements(cards)
           /\ OneId(cards) => OneId(InPlace(cards))
           /\ InTurn(InPlace(cards))
<1> DEFINE N == Len(cards)
           nameKey == [i \in DOMAIN cards |-> NameRank[cards[i].name]]
           byName == SortedBy(cards, nameKey)
           key == [i \in DOMAIN byName |-> AgentPriority(byName[i].id)]
           t == SortedBy(byName, key)
<1>2. N \in Nat /\ DOMAIN cards = 1 .. N
  BY SequenceIs
<1>3. \A i \in DOMAIN cards : nameKey[i] = NameRank[cards[i].name] /\ nameKey[i] \in Int
  OBVIOUS
<1> HIDE DEF nameKey
<1>4. \A i \in DOMAIN cards : nameKey[i] \in Int
  BY <1>3
<1>5. PICK p : /\ Sorts(p, DOMAIN cards, nameKey)
               /\ Cardinality(DOMAIN cards) = N
               /\ byName = [k \in 1 .. N |-> cards[p[k]]]
  BY <1>4, SortedByIs
<1>6. /\ IsSequence(byName) /\ Len(byName) = N /\ Elements(byName) = Elements(cards)
      /\ OneId(cards) => OneId(byName)
  BY <1>4, SortedKeeps
<1>7. /\ p \in [1 .. N -> 1 .. N]
      /\ \A k, l \in 1 .. N : k < l => \/ nameKey[p[k]] < nameKey[p[l]]
                                       \/ nameKey[p[k]] = nameKey[p[l]] /\ p[k] < p[l]
  BY <1>2, <1>5 DEF Sorts
<1>8. DOMAIN byName = 1 .. N /\ \A k \in 1 .. N : byName[k] = cards[p[k]]
  BY <1>5
<1> HIDE DEF byName, N
<1>9. \A i \in 1 .. N : key[i] = AgentPriority(byName[i].id) /\ key[i] \in Int
  <2>1. \A i \in 1 .. N : key[i] = AgentPriority(byName[i].id)
    BY <1>8
  <2>2. \A i \in 1 .. N : AgentPriority(byName[i].id) \in 1 .. 7
    BY AgentPriorityIs
  <2> HIDE DEF key
  <2> QED
    BY <2>1, <2>2
<1> HIDE DEF key
<1>10. \A i \in DOMAIN byName : key[i] \in Int
  BY <1>8, <1>9
<1>11. PICK q : /\ Sorts(q, DOMAIN byName, key)
                /\ Cardinality(DOMAIN byName) = Len(byName)
                /\ t = [k \in 1 .. Len(byName) |-> byName[q[k]]]
  <2>1. IsSequence(byName)
    BY <1>6
  <2> QED
    BY <1>10, <2>1, SortedByIs
<1>12. /\ IsSequence(t) /\ Elements(t) = Elements(byName)
       /\ OneId(byName) => OneId(t)
  BY <1>6, <1>10, SortedKeeps
<1>13. /\ q \in [1 .. N -> 1 .. N]
       /\ \A k, l \in 1 .. N : k < l => \/ key[q[k]] < key[q[l]]
                                        \/ key[q[k]] = key[q[l]] /\ q[k] < q[l]
       /\ t = [k \in 1 .. N |-> byName[q[k]]]
  BY <1>6, <1>8, <1>11 DEF Sorts
<1>14. DOMAIN t = 1 .. N /\ \A k \in 1 .. N : t[k] = byName[q[k]]
  BY <1>13
<1> HIDE DEF t
<1>15. ASSUME NEW k \in 1 .. N, NEW l \in 1 .. N, k < l
       PROVE  \/ AgentPriority(t[k].id) < AgentPriority(t[l].id)
              \/ /\ AgentPriority(t[k].id) = AgentPriority(t[l].id)
                 /\ NameRank[t[k].name] <= NameRank[t[l].name]
  <2>1. q[k] \in 1 .. N /\ q[l] \in 1 .. N
    BY <1>13
  <2>2. key[q[k]] = AgentPriority(t[k].id) /\ key[q[l]] = AgentPriority(t[l].id)
    BY <1>9, <1>14, <2>1
  <2>3. CASE key[q[k]] < key[q[l]]
    BY <2>2, <2>3
  <2>4. CASE key[q[k]] = key[q[l]] /\ q[k] < q[l]
    <3>1. \/ nameKey[p[q[k]]] < nameKey[p[q[l]]]
          \/ nameKey[p[q[k]]] = nameKey[p[q[l]]]
      BY <1>7, <2>1, <2>4
    <3>2. p[q[k]] \in DOMAIN cards /\ p[q[l]] \in DOMAIN cards
      BY <1>2, <1>7, <2>1
    <3>3. nameKey[p[q[k]]] <= nameKey[p[q[l]]]
      BY <1>4, <3>1, <3>2
    <3>4. t[k] = cards[p[q[k]]] /\ t[l] = cards[p[q[l]]]
      BY <1>8, <1>14, <2>1
    <3>5. NameRank[t[k].name] <= NameRank[t[l].name]
      BY <1>3, <3>2, <3>3, <3>4
    <3> QED
      BY <2>2, <2>4, <3>5
  <2> QED
    BY <1>13, <1>15, <2>3, <2>4
<1>16. InTurn(t)
  BY <1>14, <1>15 DEF InTurn
<1>1. InPlace(cards) = t
  BY DEF InPlace, t, key, byName, nameKey
<1>17. IsSequence(InPlace(cards)) /\ InTurn(InPlace(cards))
  BY <1>1, <1>12, <1>16
<1>18. Elements(InPlace(cards)) = Elements(cards)
  BY <1>1, <1>6, <1>12
<1>19. OneId(cards) => OneId(InPlace(cards))
  BY <1>1, <1>6, <1>12
<1> QED
  BY <1>17, <1>18, <1>19

\* A card that may be shown, under a name that some answer gave its agent.
Known(card) ==
    card.id \notin NoCard /\ \E a \in Named : a.id = card.id /\ a.name = card.name

\* What stands before what follows from the agents alone.
Before(a, b) ==
    \/ AgentPriority(a) < AgentPriority(b)
    \/ /\ AgentPriority(a) = 7 /\ AgentPriority(b) = 7
       /\ \E x, y \in Named : x.id = a /\ y.id = b /\ NameRank[x.name] < NameRank[y.name]

LEMMA NamesAre ==
    ASSUME NEW a \in Named, a.id \notin NoCard
    PROVE  /\ NameRank[a.name] \in Nat
           /\ \A b \in Named : /\ b.id \notin NoCard
                               /\ AgentPriority(a.id) = 7 /\ AgentPriority(b.id) = 7
                               => (NameRank[a.name] = NameRank[b.name] <=> a.id = b.id)
<1> DEFINE others == {x \in Named : x.id \notin NoCard /\ AgentPriority(x.id) = 7}
<1>1. /\ \A x \in Named : x.id \notin NoCard => NameRank[x.name] \in Nat
      /\ \A x, y \in others : NameRank[x.name] = NameRank[y.name] <=> x.id = y.id
  BY CardsAssumption, Zenon DEF CardsAssumption, NamesDiffer
<1>2. NameRank[a.name] \in Nat
  BY <1>1
<1>3. ASSUME NEW b \in Named, b.id \notin NoCard,
             AgentPriority(a.id) = 7, AgentPriority(b.id) = 7
      PROVE  NameRank[a.name] = NameRank[b.name] <=> a.id = b.id
  <2>1. a \in others /\ b \in others
    BY <1>3
  <2> HIDE DEF others
  <2> QED
    BY <1>1, <2>1, Zenon
<1> QED
  BY <1>2, <1>3

\* No agent stands both before and after another.
LEMMA BeforeIsStrict ==
    ASSUME NEW a, NEW b, a \notin NoCard, b \notin NoCard, Before(a, b)
    PROVE  ~Before(b, a)
<1>1. AgentPriority(a) \in 1 .. 7 /\ AgentPriority(b) \in 1 .. 7
  BY AgentPriorityIs
<1>2. ASSUME NEW x \in Named, NEW y \in Named, NEW v \in Named, NEW w \in Named,
             AgentPriority(a) = 7, AgentPriority(b) = 7,
             x.id = a, y.id = b, v.id = b, w.id = a,
             NameRank[x.name] < NameRank[y.name], NameRank[v.name] < NameRank[w.name]
      PROVE  FALSE
  <2>1. NameRank[x.name] = NameRank[w.name] /\ NameRank[y.name] = NameRank[v.name]
    BY <1>2, NamesAre
  <2>2. /\ NameRank[x.name] \in Nat /\ NameRank[y.name] \in Nat
    BY <1>2, NamesAre
  <2> QED
    BY <1>2, <2>1, <2>2
<1> QED
  BY <1>1, <1>2 DEF Before

LEMMA StandingIs ==
    ASSUME NEW s, IsSequence(s), OneId(s), InTurn(s), \A i \in DOMAIN s : Known(s[i])
    PROVE  \A a, b \in {s[i].id : i \in DOMAIN s} :
              <<a, b>> \in StandingOf(s) <=> a # b /\ Before(a, b)
<1>1. \A i \in DOMAIN s : i \in Int
  BY SequenceIs
<1>2. ASSUME NEW i \in DOMAIN s, NEW j \in DOMAIN s, i < j
      PROVE  s[i].id # s[j].id /\ Before(s[i].id, s[j].id)
  <2>1. s[i].id # s[j].id
    BY <1>1, <1>2 DEF OneId
  <2>2. CASE AgentPriority(s[i].id) < AgentPriority(s[j].id)
    BY <2>1, <2>2 DEF Before
  <2>3. CASE /\ AgentPriority(s[i].id) = AgentPriority(s[j].id)
             /\ NameRank[s[i].name] <= NameRank[s[j].name]
    <3>1. AgentPriority(s[i].id) = 7 /\ AgentPriority(s[j].id) = 7
      BY <2>1, <2>3, AgentPriorityIs
    <3>2. PICK x \in Named : x.id = s[i].id /\ x.name = s[i].name
      BY DEF Known
    <3>3. PICK y \in Named : y.id = s[j].id /\ y.name = s[j].name
      BY DEF Known
    <3>4. s[i].id \notin NoCard /\ s[j].id \notin NoCard
      BY DEF Known
    <3>5. NameRank[x.name] # NameRank[y.name]
      BY <2>1, <3>1, <3>2, <3>3, <3>4, NamesAre
    <3>6. NameRank[x.name] \in Nat /\ NameRank[y.name] \in Nat
      BY <3>2, <3>3, <3>4, NamesAre
    <3>7. NameRank[x.name] < NameRank[y.name]
      BY <2>3, <3>2, <3>3, <3>5, <3>6
    <3> QED
      BY <2>1, <3>1, <3>2, <3>3, <3>7 DEF Before
  <2> QED
    BY <1>2, <2>2, <2>3 DEF InTurn
<1>3. ASSUME NEW i \in DOMAIN s, NEW j \in DOMAIN s
      PROVE  <<s[i].id, s[j].id>> \in StandingOf(s) <=> i < j
  <2>1. <<s[i].id, s[j].id>> \in StandingOf(s)
           <=> \E k \in DOMAIN s : \E l \in {m \in DOMAIN s : k < m} :
                  <<s[i].id, s[j].id>> = <<s[k].id, s[l].id>>
    BY DEF StandingOf
  <2>2. \A k, l \in DOMAIN s : <<s[i].id, s[j].id>> = <<s[k].id, s[l].id>> => i = k /\ j = l
    BY DEF OneId
  <2> QED
    BY <2>1, <2>2
<1>4. ASSUME NEW i \in DOMAIN s, NEW j \in DOMAIN s
      PROVE  <<s[i].id, s[j].id>> \in StandingOf(s)
                <=> s[i].id # s[j].id /\ Before(s[i].id, s[j].id)
  <2>1. CASE i < j
    BY <1>2, <1>3, <2>1
  <2>2. CASE i = j
    BY <1>1, <1>3, <2>2
  <2>3. CASE j < i
    <3>1. Before(s[j].id, s[i].id)
      BY <1>2, <2>3
    <3>2. s[i].id \notin NoCard /\ s[j].id \notin NoCard
      BY DEF Known
    <3>3. ~Before(s[i].id, s[j].id)
      BY <3>1, <3>2, BeforeIsStrict
    <3>4. ~(i < j)
      BY <1>1, <2>3
    <3> QED
      BY <1>3, <3>3, <3>4
  <2> QED
    BY <1>1, <2>1, <2>2, <2>3
<1> QED
  BY <1>4

-----------------------------------------------------------------------------
(* One card.                                                               *)

\* What a sequence is mapped to is a sequence.
LEMMA MapIs ==
    ASSUME NEW s, IsSequence(s), NEW f, DOMAIN f = DOMAIN s, f = [i \in DOMAIN s |-> f[i]]
    PROVE  IsSequence(f) /\ Listed(f) = f
<1>1. Len(s) \in Nat /\ DOMAIN s = 1 .. Len(s)
  BY SequenceIs
<1>2. IsSequence(f)
  BY <1>1, ListIs
<1> QED
  BY <1>2, ListedIs

LEMMA IdsAre ==
    ASSUME NEW s, IsSequence(s)
    PROVE  IsSequence(Ids(s)) /\ Elements(Ids(s)) = {s[i].id : i \in DOMAIN s}
<1> DEFINE f == [i \in DOMAIN s |-> s[i].id]
<1>1. DOMAIN f = DOMAIN s /\ f = [i \in DOMAIN s |-> f[i]]
  OBVIOUS
<1>2. Elements(f) = {s[i].id : i \in DOMAIN s}
  BY DEF Elements
<1>3. Ids(s) = Listed(f)
  BY DEF Ids
<1> HIDE DEF f
<1> QED
  BY <1>1, <1>2, <1>3, MapIs

LEMMA VisibleIdsAre ==
    ASSUME NEW s, IsSequence(s)
    PROVE  IsSequence(VisibleIds(s)) /\ Elements(VisibleIds(s)) = Visible(s)
<1> DEFINE at == {i \in DOMAIN s : s[i].id \notin NoCard}
           t == Chosen(s, at)
<1>1. at \in SUBSET (DOMAIN s)
  OBVIOUS
<1>2. VisibleIds(s) = Ids(t)
  BY DEF VisibleIds
<1>3. \A x : x \in {s[i] : i \in at} <=> \E i \in DOMAIN s : x = s[i] /\ s[i].id \notin NoCard
  OBVIOUS
<1> HIDE DEF at
<1>4. IsSequence(t) /\ Elements(t) = {s[i] : i \in at}
  BY <1>1, ChosenIs
<1> HIDE DEF t
<1>5. IsSequence(Ids(t)) /\ Elements(Ids(t)) = {t[i].id : i \in DOMAIN t}
  BY <1>4, IdsAre
<1>6. {t[i].id : i \in DOMAIN t} = {x.id : x \in Elements(t)}
  BY DEF Elements
<1>7. {x.id : x \in Elements(t)} = Visible(s)
  <2>1. \A x \in Elements(t) : x.id \in Visible(s)
    BY <1>3, <1>4 DEF Visible
  <2>2. ASSUME NEW id \in Visible(s)
        PROVE  \E x \in Elements(t) : id = x.id
    <3>1. PICK i \in DOMAIN s : id = s[i].id /\ id \notin NoCard
      BY DEF Visible
    <3>2. s[i] \in Elements(t)
      BY <1>3, <1>4, <3>1
    <3> QED
      BY <3>1, <3>2
  <2> QED
    BY <2>1, <2>2
<1> QED
  BY <1>2, <1>5, <1>6, <1>7

\* What is known about the agents: providers of different agents, connectors and the index.
AreAnswers(providers, connectors, indexed) ==
    /\ IsSequence(providers) /\ Elements(providers) \subseteq Providers /\ OneId(providers)
    /\ connectors \in Connections \cup {<<>>}
    /\ IsSequence(indexed) /\ Elements(indexed) \subseteq Named

LEMMA NothingIs == IsSequence(<<>>) /\ DOMAIN <<>> = {} /\ Elements(<<>>) = {}
  BY DEF IsSequence, Elements

LEMMA ConnectorsAre ==
    ASSUME NEW c \in Connections \cup {<<>>}
    PROVE  /\ IsSequence(c) /\ \A i \in DOMAIN c : c[i].target \in Named
           /\ \A i, j \in DOMAIN c : c[i].target.id = c[j].target.id
                                     /\ c[i].target.domain = c[j].target.domain => i = j
<1>1. CASE c \in Connections
  <2>1. ASSUME NEW i \in DOMAIN c
        PROVE  c[i].target \in Named
    <3>1. c[i].target \in {c[n].target : n \in DOMAIN c}
      OBVIOUS
    <3>2. c[i].target \in UNION {{e[n].target : n \in DOMAIN e} : e \in Connections}
      BY <1>1, <3>1
    <3> QED
      BY <3>2 DEF Named
  <2> QED
    BY <1>1, <2>1, CardsAssumption DEF CardsAssumption, AnswersAreSets
<1>2. CASE c = <<>>
  BY <1>2, NothingIs
<1> QED
  BY <1>1, <1>2

\* The connectors that are on a card.
OnCardsOf(c) == {i \in DOMAIN c : OnACard(c[i].target.id, c[i].target.domain)}

LEMMA TargetsAre ==
    ASSUME NEW c \in Connections \cup {<<>>}
    PROVE  /\ IsSequence(TargetsOnCards(c))
           /\ Elements(TargetsOnCards(c)) = {c[i].target : i \in OnCardsOf(c)}
           /\ Elements(TargetsOnCards(c)) \subseteq Named
           /\ \A t \in Elements(TargetsOnCards(c)) : t.id \notin NoCard
<1> DEFINE f == [i \in DOMAIN c |-> c[i].target]
           at == OnCardsOf(c)
<1>1. IsSequence(c) /\ \A i \in DOMAIN c : c[i].target \in Named
  BY ConnectorsAre
<1>2. DOMAIN f = DOMAIN c /\ f = [i \in DOMAIN c |-> f[i]]
  OBVIOUS
<1>3. at \in SUBSET (DOMAIN f)
  BY DEF OnCardsOf
<1>4. {f[i] : i \in at} = {c[i].target : i \in at}
  BY <1>3
<1>5. TargetsOnCards(c) = Chosen(Listed(f), at)
  BY DEF TargetsOnCards, OnCardsOf
<1>6. \A i \in at : i \in DOMAIN c /\ c[i].target.id \notin NoCard
  BY DEF OnCardsOf, OnACard
<1> HIDE DEF f, at
<1>7. IsSequence(f) /\ Listed(f) = f
  BY <1>1, <1>2, MapIs
<1>8. IsSequence(Chosen(f, at)) /\ Elements(Chosen(f, at)) = {f[i] : i \in at}
  BY <1>3, <1>7, ChosenIs
<1> DEFINE T == TargetsOnCards(c)
<1>9. IsSequence(T) /\ Elements(T) = {c[i].target : i \in at}
  BY <1>4, <1>5, <1>7, <1>8
<1> HIDE DEF T
<1>10. \A t \in Elements(T) : t \in Named /\ t.id \notin NoCard
  BY <1>1, <1>6, <1>9
<1> QED
  BY <1>9, <1>10 DEF at, T

\* The agents that have a card.
ShownIds(providers, connectors, indexed) ==
    Firsts(VisibleIds(providers) \o Ids(TargetsOnCards(connectors)) \o VisibleIds(indexed))

LEMMA ShownIs ==
    ASSUME NEW P, NEW C, NEW X, AreAnswers(P, C, X)
    PROVE  /\ IsSequence(ShownIds(P, C, X)) /\ OneEach(ShownIds(P, C, X))
           /\ Elements(ShownIds(P, C, X)) = Visible(P) \cup Visible(X)
                                         \cup {C[i].target.id : i \in OnCardsOf(C)}
           /\ \A id \in Elements(ShownIds(P, C, X)) : id \notin NoCard
<1> DEFINE T == TargetsOnCards(C)
           a == VisibleIds(P)
           b == Ids(T)
           c == VisibleIds(X)
<1>1. IsSequence(a) /\ Elements(a) = Visible(P)
  BY VisibleIdsAre DEF AreAnswers
<1>2. IsSequence(c) /\ Elements(c) = Visible(X)
  BY VisibleIdsAre DEF AreAnswers
<1>3. /\ IsSequence(T) /\ Elements(T) = {C[i].target : i \in OnCardsOf(C)}
      /\ \A t \in Elements(T) : t.id \notin NoCard
  BY TargetsAre DEF AreAnswers
<1> HIDE DEF T
<1>4. IsSequence(b) /\ Elements(b) = {T[i].id : i \in DOMAIN T}
  BY <1>3, IdsAre
<1>5. {T[i].id : i \in DOMAIN T} = {t.id : t \in Elements(T)}
  BY DEF Elements
<1>6. {t.id : t \in Elements(T)} = {C[i].target.id : i \in OnCardsOf(C)}
  BY <1>3
<1>7. ShownIds(P, C, X) = Firsts(a \o b \o c)
  BY DEF ShownIds, T
<1> HIDE DEF a, b, c
<1>8. IsSequence(a \o b) /\ Elements(a \o b) = Elements(a) \cup Elements(b)
  BY <1>1, <1>4, JoinIs
<1>9. /\ IsSequence(a \o b \o c)
      /\ Elements(a \o b \o c) = Elements(a) \cup Elements(b) \cup Elements(c)
  BY <1>2, <1>8, JoinIs
<1>10. /\ IsSequence(ShownIds(P, C, X)) /\ OneEach(ShownIds(P, C, X))
       /\ Elements(ShownIds(P, C, X)) = Elements(a) \cup Elements(b) \cup Elements(c)
  BY <1>7, <1>9, FirstsIs
<1>11. \A id \in Visible(P) \cup Visible(X) : id \notin NoCard
  BY DEF Visible
<1>12. \A id \in Elements(b) : id \notin NoCard
  BY <1>3, <1>4, <1>5
<1> QED
  BY <1>1, <1>2, <1>4, <1>5, <1>6, <1>10, <1>11, <1>12

\* What a card is made of: domains of different identities, with windows that have labels.
IsBase(base) ==
    /\ DOMAIN base = {"id", "name", "fresh", "quotas", "domains"}
    /\ IsSequence(base.domains) /\ HasLabels(base.quotas)
    /\ \A i \in DOMAIN base.domains : HasLabels(base.domains[i].quotas)
    /\ OneId(base.domains)

LEMMA ProviderIs ==
    ASSUME NEW p \in Providers
    PROVE  IsBase(p)
<1>1. /\ DOMAIN p = {"id", "name", "fresh", "quotas", "domains"}
      /\ IsSequence(p.domains) /\ HasLabels(p.quotas)
      /\ \A i \in DOMAIN p.domains : HasLabels(p.domains[i].quotas)
      /\ \A i, j \in DOMAIN p.domains : p.domains[i].id = p.domains[j].id => i = j
  BY CardsAssumption, Zenon DEF CardsAssumption, AnswersAreSets
<1> QED
  BY <1>1 DEF IsBase, OneId

LEMMA NoQuotas == HasLabels(<<>>)
  BY NothingIs DEF HasLabels

LEMMA EmptyProviderIs ==
    ASSUME NEW id, NEW name
    PROVE  /\ IsBase(emptyProvider(id, name))
           /\ emptyProvider(id, name).id = id /\ emptyProvider(id, name).name = name
           /\ emptyProvider(id, name).domains = <<>>
<1> DEFINE base == emptyProvider(id, name)
<1>1. /\ DOMAIN base = {"id", "name", "fresh", "quotas", "domains"}
      /\ base.id = id /\ base.name = name /\ base.quotas = <<>> /\ base.domains = <<>>
  BY DEF emptyProvider
<1> HIDE DEF base
<1>2. IsSequence(base.domains) /\ HasLabels(base.quotas) /\ DOMAIN base.domains = {}
  BY <1>1, NothingIs, NoQuotas
<1>3. IsBase(base)
  BY <1>1, <1>2 DEF IsBase, OneId
<1> QED
  BY <1>1, <1>3 DEF base

LEMMA BaseIs ==
    ASSUME NEW P, NEW C, NEW X, AreAnswers(P, C, X), NEW id \in Elements(ShownIds(P, C, X))
    PROVE  LET base == BaseOf(id, P, TargetsOnCards(C), X)
           IN  /\ IsBase(base) /\ base.id = id
               /\ \E a \in Named : a.id = id /\ a.name = base.name
               /\ base.domains # <<>> => base \in Elements(P)
               /\ base \in Elements(P) \/ ~HasId(P, id)
<1> DEFINE T == TargetsOnCards(C)
           base == BaseOf(id, P, T, X)
<1>1. CASE HasId(P, id)
  <2>1. base = FindId(P, id)
    BY <1>1 DEF BaseOf
  <2>2. base \in Elements(P) /\ base.id = id
    <3>1. FindId(P, id) \in Elements(P) /\ FindId(P, id).id = id
      BY <1>1, FoundIs DEF AreAnswers
    <3> QED
      BY <2>1, <3>1
  <2> HIDE DEF base
  <2>3. base \in Providers /\ base \in Named
    BY <2>2 DEF AreAnswers, Named
  <2>4. IsBase(base)
    BY <2>3, ProviderIs
  <2>5. \E a \in Named : a.id = id /\ a.name = base.name
    BY <2>2, <2>3
  <2> QED
    BY <2>2, <2>4, <2>5 DEF base
<1>2. CASE ~HasId(P, id)
  <2> DEFINE known == X \o T
             found == FindId(known, id)
  <2>1. base = emptyProvider(id, found.name)
    BY <1>2 DEF BaseOf
  <2>2. /\ IsSequence(T) /\ Elements(T) = {C[i].target : i \in OnCardsOf(C)}
        /\ Elements(T) \subseteq Named
    BY TargetsAre DEF AreAnswers
  <2>3. IsSequence(known) /\ Elements(known) = Elements(X) \cup Elements(T)
    BY <2>2, JoinIs DEF AreAnswers
  <2>4. \E a \in Elements(known) : a.id = id
    <3>1. id \in Visible(P) \cup Visible(X) \cup {C[i].target.id : i \in OnCardsOf(C)}
      BY ShownIs
    <3>2. id \notin Visible(P)
      BY <1>2 DEF HasId, Visible
    <3>3. CASE id \in Visible(X)
      BY <2>3, <3>3 DEF Visible, Elements
    <3>4. CASE id \in {C[i].target.id : i \in OnCardsOf(C)}
      <4>1. PICK i \in OnCardsOf(C) : id = C[i].target.id
        BY <3>4
      <4>2. C[i].target \in Elements(T)
        BY <2>2
      <4> HIDE DEF known, T
      <4> QED
        BY <2>3, <4>1, <4>2
    <3> QED
      BY <3>1, <3>2, <3>3, <3>4
  <2>5. Elements(known) \subseteq Named
    BY <2>2, <2>3 DEF AreAnswers
  <2> HIDE DEF known
  <2>6. HasId(known, id)
    BY <2>4 DEF HasId, Elements
  <2>7. found \in Named /\ found.id = id
    BY <2>3, <2>5, <2>6, FoundIs
  <2> HIDE DEF found
  <2>8. IsBase(base) /\ base.id = id /\ base.name = found.name /\ base.domains = <<>>
    BY <2>1, EmptyProviderIs
  <2> QED
    BY <1>2, <2>7, <2>8
<1> QED
  BY <1>1, <1>2

\* The domains a card is given: each once, with windows that have labels.
LEMMA WithTargetsIs ==
    ASSUME NEW domains, IsSequence(domains), OneId(domains),
           \A d \in Elements(domains) : HasLabels(d.quotas),
           NEW targets, IsSequence(targets)
    PROVE  LET all == WithTargets(domains, targets)
           IN  /\ IsSequence(all) /\ OneId(all)
               /\ {d.id : d \in Elements(all)}
                     = {d.id : d \in Elements(domains)} \cup Elements(targets)
               /\ \A d \in Elements(all) : HasLabels(d.quotas)
<1> DEFINE at == {i \in DOMAIN targets : ~HasId(domains, targets[i])}
           left == Chosen(targets, at)
           new == Firsts(left)
           more == [i \in DOMAIN new |-> emptyBillingDomain(new[i])]
           all == domains \o more
<1>1. WithTargets(domains, targets) = all
  BY DEF WithTargets
<1>2. IsSequence(left) /\ Elements(left) = {targets[i] : i \in at}
  <2>1. at \in SUBSET (DOMAIN targets)
    OBVIOUS
  <2> HIDE DEF at
  <2> QED
    BY <2>1, ChosenIs
<1>3. \A x : x \in Elements(left) <=> x \in Elements(targets) /\ ~HasId(domains, x)
  <2>1. \A x : x \in {targets[i] : i \in at} <=> x \in Elements(targets) /\ ~HasId(domains, x)
    BY DEF Elements
  <2> HIDE DEF at, left
  <2> QED
    BY <1>2, <2>1
<1> HIDE DEF left
<1>4. IsSequence(new) /\ Elements(new) = Elements(left) /\ OneEach(new)
  BY <1>2, FirstsIs
<1> HIDE DEF new
<1>5. /\ DOMAIN more = DOMAIN new /\ more = [i \in DOMAIN new |-> more[i]]
      /\ \A i \in DOMAIN new : more[i].id = new[i] /\ more[i].quotas = <<>>
  BY DEF emptyBillingDomain
<1> HIDE DEF more
<1>6. IsSequence(more)
  BY <1>4, <1>5, MapIs
<1>14. Joins(all, domains, more)
  BY <1>6, JoinedIs
<1> HIDE DEF all
<1>7. /\ IsSequence(all) /\ Elements(all) = Elements(domains) \cup Elements(more)
      /\ Len(all) = Len(domains) + Len(more)
      /\ \A i \in DOMAIN domains : all[i] = domains[i]
      /\ \A i \in DOMAIN more : all[Len(domains) + i] = more[i]
  BY <1>14 DEF Joins
<1>8. {d.id : d \in Elements(more)} = Elements(left)
  <2>1. ASSUME NEW d \in Elements(more)
        PROVE  d.id \in Elements(left)
    <3>1. PICK i \in DOMAIN new : d = more[i]
      BY <1>5 DEF Elements
    <3>2. new[i] \in Elements(new)
      BY DEF Elements
    <3> QED
      BY <1>4, <1>5, <3>1, <3>2
  <2>2. \A x \in Elements(left) : \E d \in Elements(more) : x = d.id
    BY <1>4, <1>5 DEF Elements
  <2> QED
    BY <2>1, <2>2
<1>9. \A x : HasId(domains, x) <=> x \in {d.id : d \in Elements(domains)}
  BY DEF HasId, Elements
<1>10. {d.id : d \in Elements(all)} = {d.id : d \in Elements(domains)} \cup Elements(targets)
  <2>1. {d.id : d \in Elements(all)}
          = {d.id : d \in Elements(domains)} \cup {d.id : d \in Elements(more)}
    BY <1>7
  <2> QED
    BY <1>3, <1>8, <1>9, <2>1
<1>11. \A d \in Elements(all) : HasLabels(d.quotas)
  <2>1. \A d \in Elements(more) : d.quotas = <<>>
    BY <1>5 DEF Elements
  <2> QED
    BY <1>7, <2>1, NoQuotas
<1>12. OneId(all)
  <2> SUFFICES ASSUME NEW i \in DOMAIN all, NEW j \in DOMAIN all, i < j
               PROVE  all[i].id # all[j].id
    <3>1. \A i \in DOMAIN all : i \in Int
      BY <1>7, SequenceIs
    <3> QED
      BY <3>1 DEF OneId
  <2>1. /\ Len(domains) \in Nat /\ DOMAIN domains = 1 .. Len(domains)
        /\ Len(more) \in Nat /\ DOMAIN more = 1 .. Len(more)
        /\ DOMAIN all = 1 .. Len(all)
    BY <1>6, <1>7, SequenceIs
  <2>2. CASE j <= Len(domains)
    <3>1. i \in DOMAIN domains /\ j \in DOMAIN domains /\ i # j
      BY <1>7, <2>1, <2>2
    <3>2. all[i] = domains[i] /\ all[j] = domains[j]
      BY <1>7, <3>1
    <3> QED
      BY <3>1, <3>2 DEF OneId
  <2>3. CASE i <= Len(domains) /\ ~(j <= Len(domains))
    <3> DEFINE k == j - Len(domains)
    <3>1. i \in DOMAIN domains /\ k \in DOMAIN more /\ j = Len(domains) + k
      BY <1>7, <2>1, <2>3
    <3> HIDE DEF k
    <3>2. all[i] = domains[i] /\ all[j] = more[k]
      BY <1>7, <3>1
    <3>3. HasId(domains, domains[i].id) /\ domains[i].id = all[i].id
      BY <3>1, <3>2 DEF HasId
    <3>4. more[k].id \in Elements(left)
      BY <1>4, <1>5, <3>1 DEF Elements
    <3> QED
      BY <1>3, <3>2, <3>3, <3>4
  <2>4. CASE ~(i <= Len(domains))
    <3> DEFINE k == i - Len(domains)
               l == j - Len(domains)
    <3>1. /\ k \in DOMAIN more /\ i = Len(domains) + k
          /\ l \in DOMAIN more /\ j = Len(domains) + l
          /\ k # l
      BY <1>7, <2>1, <2>4
    <3> HIDE DEF k, l
    <3>2. all[i] = more[k] /\ all[j] = more[l]
      BY <1>7, <3>1
    <3>3. more[k].id = new[k] /\ more[l].id = new[l] /\ new[k] # new[l]
      BY <1>4, <1>5, <3>1 DEF OneEach
    <3> QED
      BY <3>2, <3>3
  <2> QED
    BY <2>2, <2>3, <2>4
<1>15. WithTargets(domains, targets) = all
  BY <1>1 DEF all
<1> QED
  BY <1>7, <1>10, <1>11, <1>12, <1>15

LEMMA UsageDomainsAre ==
    ASSUME NEW base, IsBase(base)
    PROVE  LET kept == usageCardBillingDomains(base)
           IN  /\ IsSequence(kept) /\ OneId(kept)
               /\ \A d : d \in Elements(kept)
                         <=> d \in Elements(base.domains) /\ OnACard(base.id, d.id)
               /\ \A d \in Elements(kept) : HasLabels(d.quotas)
<1> DEFINE s == base.domains
           at == {i \in DOMAIN s : OnACard(base.id, s[i].id)}
           kept == Chosen(s, at)
<1>1. usageCardBillingDomains(base) = kept
  BY DEF usageCardBillingDomains
<1>2. at \in SUBSET (DOMAIN s) /\ IsSequence(s) /\ OneId(s)
  BY DEF IsBase
<1>3. \A d : d \in {s[i] : i \in at} <=> d \in Elements(s) /\ OnACard(base.id, d.id)
  BY DEF Elements
<1>4. \A d \in Elements(s) : HasLabels(d.quotas)
  BY DEF IsBase, Elements
<1>5. \A i \in DOMAIN s : i \in Int
  BY <1>2, SequenceIs
<1> HIDE DEF s, at
<1>6. /\ IsSequence(kept) /\ Elements(kept) = {s[i] : i \in at}
      /\ \A k, l \in DOMAIN kept :
            k < l => \E i, j \in at : i < j /\ kept[k] = s[i] /\ kept[l] = s[j]
  BY <1>2, ChosenIs
<1> HIDE DEF kept
<1>7. OneId(kept)
  <2>1. \A k \in DOMAIN kept : k \in Int
    BY <1>6, SequenceIs
  <2>2. ASSUME NEW k \in DOMAIN kept, NEW l \in DOMAIN kept, k < l
        PROVE  kept[k].id # kept[l].id
    <3>1. PICK i \in at, j \in at : i < j /\ kept[k] = s[i] /\ kept[l] = s[j]
      BY <1>6, <2>2
    <3>2. i \in DOMAIN s /\ j \in DOMAIN s /\ i # j
      BY <1>2, <1>5, <3>1
    <3> QED
      BY <1>2, <3>1, <3>2 DEF OneId
  <2>3. \A k, l \in DOMAIN kept : k # l => k < l \/ l < k
    BY <2>1
  <2> QED
    BY <2>2, <2>3 DEF OneId
<1>8. \A d : d \in Elements(kept) <=> d \in Elements(s) /\ OnACard(base.id, d.id)
  BY <1>3, <1>6
<1>9. \A d \in Elements(kept) : HasLabels(d.quotas)
  BY <1>4, <1>8
<1>10. usageCardBillingDomains(base) = kept
  BY <1>1 DEF kept
<1> QED
  BY <1>6, <1>7, <1>8, <1>9, <1>10 DEF s

\* The domains that the connectors of an agent are set up for.
LEMMA OwnDomainsAre ==
    ASSUME NEW c \in Connections \cup {<<>>}, NEW id
    PROVE  LET T == TargetsOnCards(c)
               own == Chosen(T, {i \in DOMAIN T : T[i].id = id})
               names == Listed([i \in DOMAIN own |-> own[i].domain])
           IN  /\ IsSequence(names)
               /\ Elements(names)
                     = {c[i].target.domain : i \in {j \in OnCardsOf(c) : c[j].target.id = id}}
<1> DEFINE T == TargetsOnCards(c)
           at == {i \in DOMAIN T : T[i].id = id}
           own == Chosen(T, at)
           f == [i \in DOMAIN own |-> own[i].domain]
           mine == {j \in OnCardsOf(c) : c[j].target.id = id}
<1>1. IsSequence(T) /\ Elements(T) = {c[i].target : i \in OnCardsOf(c)}
  BY TargetsAre
<1> HIDE DEF T
<1>2. at \in SUBSET (DOMAIN T)
  OBVIOUS
<1>3. \A t : t \in {T[i] : i \in at} <=> t \in Elements(T) /\ t.id = id
  BY DEF Elements
<1> HIDE DEF at
<1>4. IsSequence(own) /\ Elements(own) = {T[i] : i \in at}
  BY <1>1, <1>2, ChosenIs
<1> HIDE DEF own
<1>5. DOMAIN f = DOMAIN own /\ f = [i \in DOMAIN own |-> f[i]]
  OBVIOUS
<1>6. Elements(f) = {t.domain : t \in Elements(own)}
  BY DEF Elements
<1>7. {t.domain : t \in Elements(own)} = {c[i].target.domain : i \in mine}
  <2>1. \A t \in Elements(own) : \E i \in mine : t.domain = c[i].target.domain
    BY <1>1, <1>3, <1>4
  <2>2. ASSUME NEW i \in mine
        PROVE  \E t \in Elements(own) : t.domain = c[i].target.domain
    <3>1. c[i].target \in Elements(own)
      BY <1>1, <1>3, <1>4
    <3> QED
      BY <3>1
  <2> HIDE DEF mine
  <2> QED
    BY <2>1, <2>2
<1> HIDE DEF f, mine
<1>8. IsSequence(f) /\ Listed(f) = f
  BY <1>4, <1>5, MapIs
<1>9. IsSequence(Listed(f)) /\ Elements(Listed(f)) = {c[i].target.domain : i \in mine}
  BY <1>6, <1>7, <1>8
<1> QED
  BY <1>9 DEF T, at, own, f, mine

DomainsOf(id, providers, c) ==
    {c[i].target.domain : i \in {j \in OnCardsOf(c) : c[j].target.id = id}}
    \cup UNION {{providers[i].domains[d].id : d \in {e \in DOMAIN providers[i].domains :
                    OnACard(id, providers[i].domains[e].id)}} :
                i \in {j \in DOMAIN providers : providers[j].id = id}}

\* A card of an agent, with every domain that it should have.
IsCard(card, id, providers, c) ==
    /\ card.id = id /\ Known(card) /\ HasLabels(card.quotas)
    /\ IsSequence(card.domains) /\ OneId(card.domains)
    /\ {d.id : d \in Elements(card.domains)} = DomainsOf(id, providers, c)
    /\ \A d \in Elements(card.domains) : HasLabels(d.quotas)

LEMMA CardIs ==
    ASSUME NEW P, NEW C, NEW X, AreAnswers(P, C, X), NEW id \in Elements(ShownIds(P, C, X))
    PROVE  IsCard(CardOf(id, P, TargetsOnCards(C), X), id, P, C)
<1> DEFINE T == TargetsOnCards(C)
           base == BaseOf(id, P, T, X)
           own == Chosen(T, {i \in DOMAIN T : T[i].id = id})
           names == Listed([i \in DOMAIN own |-> own[i].domain])
           kept == usageCardBillingDomains(base)
           all == WithTargets(kept, names)
           card == [base EXCEPT !.domains = all]
           inOverview == UNION {{P[i].domains[d].id : d \in {e \in DOMAIN P[i].domains :
                              OnACard(id, P[i].domains[e].id)}} :
                          i \in {j \in DOMAIN P : P[j].id = id}}
<1>1. CardOf(id, P, T, X) = card
  BY DEF CardOf
<1>2. /\ IsBase(base) /\ base.id = id
      /\ \E a \in Named : a.id = id /\ a.name = base.name
      /\ base.domains # <<>> => base \in Elements(P)
      /\ base \in Elements(P) \/ ~HasId(P, id)
  BY BaseIs
<1>3. /\ IsSequence(names)
      /\ Elements(names)
            = {C[i].target.domain : i \in {j \in OnCardsOf(C) : C[j].target.id = id}}
  BY OwnDomainsAre, Zenon DEF AreAnswers
<1> HIDE DEF T, base, own, names
<1>4. /\ IsSequence(kept) /\ OneId(kept)
      /\ \A d : d \in Elements(kept) <=> d \in Elements(base.domains) /\ OnACard(id, d.id)
      /\ \A d \in Elements(kept) : HasLabels(d.quotas)
  BY <1>2, UsageDomainsAre
<1> HIDE DEF kept
<1>5. /\ IsSequence(all) /\ OneId(all)
      /\ {d.id : d \in Elements(all)} = {d.id : d \in Elements(kept)} \cup Elements(names)
      /\ \A d \in Elements(all) : HasLabels(d.quotas)
  BY <1>3, <1>4, WithTargetsIs
<1> HIDE DEF all
<1>6. /\ card.id = base.id /\ card.name = base.name /\ card.quotas = base.quotas
      /\ card.domains = all
  BY <1>2 DEF IsBase
<1> HIDE DEF card
<1>7. {d.id : d \in Elements(kept)} = inOverview
  <2>1. ASSUME NEW d \in Elements(kept)
        PROVE  d.id \in inOverview
    <3>1. d \in Elements(base.domains) /\ OnACard(id, d.id)
      BY <1>4
    <3>2. base.domains # <<>>
      BY <3>1, NothingIs
    <3>3. PICK i \in DOMAIN P : base = P[i]
      BY <1>2, <3>2 DEF Elements
    <3>4. PICK e \in DOMAIN P[i].domains : d = P[i].domains[e]
      BY <3>1, <3>3 DEF Elements
    <3>5. d.id \in {P[i].domains[n].id : n \in {e1 \in DOMAIN P[i].domains :
                       OnACard(id, P[i].domains[e1].id)}}
      BY <3>1, <3>4
    <3>6. P[i].id = id
      BY <1>2, <3>3
    <3> QED
      BY <3>5, <3>6
  <2>2. ASSUME NEW x \in inOverview
        PROVE  \E d \in Elements(kept) : x = d.id
    <3>1. PICK i \in DOMAIN P : /\ P[i].id = id
                                /\ \E e \in DOMAIN P[i].domains :
                                      OnACard(id, P[i].domains[e].id) /\ x = P[i].domains[e].id
      OBVIOUS
    <3>2. PICK e \in DOMAIN P[i].domains :
             OnACard(id, P[i].domains[e].id) /\ x = P[i].domains[e].id
      BY <3>1
    <3>3. base \in Elements(P)
      BY <1>2, <3>1 DEF HasId
    <3>4. base = P[i]
      BY <1>2, <3>1, <3>3 DEF AreAnswers, OneId, Elements
    <3>5. P[i].domains[e] \in Elements(base.domains)
      BY <3>4 DEF Elements
    <3>6. P[i].domains[e] \in Elements(kept)
      BY <1>4, <3>2, <3>5
    <3> QED
      BY <3>2, <3>6
  <2> HIDE DEF inOverview
  <2> QED
    BY <2>1, <2>2
<1>8. {d.id : d \in Elements(all)} = DomainsOf(id, P, C)
  <2>1. DomainsOf(id, P, C)
          = {C[i].target.domain : i \in {j \in OnCardsOf(C) : C[j].target.id = id}} \cup inOverview
    BY DEF DomainsOf
  <2> HIDE DEF inOverview
  <2> QED
    BY <1>3, <1>5, <1>7, <2>1
<1>9. id \notin NoCard
  BY ShownIs
<1>10. Known(card)
  BY <1>2, <1>6, <1>9 DEF Known
<1>11. HasLabels(card.quotas)
  BY <1>2, <1>6 DEF IsBase
<1>12. IsCard(card, id, P, C)
  BY <1>2, <1>5, <1>6, <1>8, <1>10, <1>11 DEF IsCard
<1>13. CardOf(id, P, T, X) = card
  BY <1>1 DEF card, all, kept, names, own, base
<1> QED
  BY <1>12, <1>13 DEF T

-----------------------------------------------------------------------------
(* All cards.                                                              *)

\* One card for each agent that the answers name, in order.
AreCards(cards, P, C, X) ==
    /\ IsSequence(cards) /\ OneId(cards) /\ InTurn(cards)
    /\ \A card \in Elements(cards) : IsCard(card, card.id, P, C)
    /\ {card.id : card \in Elements(cards)}
          = Visible(P) \cup Visible(X) \cup {C[i].target.id : i \in OnCardsOf(C)}

LEMMA CardsAre ==
    ASSUME NEW P, NEW C, NEW X, AreAnswers(P, C, X)
    PROVE  AreCards(displayProviders(P, C, X), P, C, X)
<1> DEFINE T == TargetsOnCards(C)
           shownIds == ShownIds(P, C, X)
           f == [i \in DOMAIN shownIds |-> CardOf(shownIds[i], P, T, X)]
           cards == InPlace(Listed(f))
           ids == Visible(P) \cup Visible(X) \cup {C[i].target.id : i \in OnCardsOf(C)}
<1>1. displayProviders(P, C, X) = cards
  BY DEF displayProviders, ShownIds
<1>2. /\ IsSequence(shownIds) /\ OneEach(shownIds)
      /\ Elements(shownIds) = ids
  BY ShownIs
<1>3. \A id \in Elements(shownIds) : IsCard(CardOf(id, P, T, X), id, P, C)
  BY CardIs
<1> HIDE DEF shownIds, T, ids
<1>4. /\ DOMAIN f = DOMAIN shownIds /\ f = [i \in DOMAIN shownIds |-> f[i]]
      /\ \A i \in DOMAIN shownIds : f[i] = CardOf(shownIds[i], P, T, X)
  OBVIOUS
<1> HIDE DEF f
<1>5. IsSequence(f) /\ Listed(f) = f
  BY <1>2, <1>4, MapIs
<1>6. \A i \in DOMAIN f : IsCard(f[i], shownIds[i], P, C)
  <2> SUFFICES ASSUME NEW i \in DOMAIN f PROVE IsCard(f[i], shownIds[i], P, C)
    OBVIOUS
  <2>1. shownIds[i] \in Elements(shownIds)
    BY <1>4 DEF Elements
  <2> QED
    BY <1>3, <1>4, <2>1
<1>7. \A i \in DOMAIN f : f[i].id = shownIds[i] /\ Known(f[i])
  BY <1>6 DEF IsCard
<1>8. OneId(f)
  BY <1>2, <1>4, <1>7 DEF OneId, OneEach
<1>9. \A i \in DOMAIN f : NameRank[f[i].name] \in Nat
  <2> SUFFICES ASSUME NEW i \in DOMAIN f PROVE NameRank[f[i].name] \in Nat
    OBVIOUS
  <2>1. PICK a \in Named : a.id = f[i].id /\ a.name = f[i].name
    BY <1>7 DEF Known
  <2>2. a.id \notin NoCard
    BY <1>7, <2>1 DEF Known
  <2> QED
    BY <2>1, <2>2, NamesAre
<1>10. /\ IsSequence(InPlace(f)) /\ Elements(InPlace(f)) = Elements(f)
       /\ OneId(InPlace(f)) /\ InTurn(InPlace(f))
  BY <1>5, <1>8, <1>9, InPlaceIs
<1>11. \A card \in Elements(f) : IsCard(card, card.id, P, C)
  BY <1>6, <1>7 DEF Elements
<1>12. {card.id : card \in Elements(f)} = ids
  <2>1. \A card \in Elements(f) : card.id \in Elements(shownIds)
    BY <1>4, <1>7 DEF Elements
  <2>2. \A id \in Elements(shownIds) : \E card \in Elements(f) : id = card.id
    BY <1>4, <1>7 DEF Elements
  <2> QED
    BY <1>2, <2>1, <2>2
<1>13. displayProviders(P, C, X) = InPlace(f)
  BY <1>1, <1>5
<1> QED
  BY <1>10, <1>11, <1>12, <1>13 DEF ids, AreCards

\* The domain a card shows when nothing is chosen, and those of its lanes.
LEMMA LanesAre ==
    ASSUME NEW card, NEW P, NEW C, IsCard(card, card.id, P, C),
           NEW lane \in Elements(LanesOf(card))
    PROVE  GroupsStayTogether(lane.buckets)
<1> DEFINE domains == IF card.domains # <<>> THEN card.domains
                      ELSE <<activeBillingDomain(card, NotChosen)>>
           f == [i \in DOMAIN domains |->
                   [provider |-> card.id, domain |-> domains[i].id,
                    buckets |-> displayQuotaBuckets(domains[i].quotas)]]
           lanes == Listed(f)
           at == {i \in DOMAIN lanes : lanes[i].buckets # <<>>}
<1>1. LanesOf(card) = Chosen(lanes, at)
  BY DEF LanesOf
<1>2. IsSequence(domains) /\ \A i \in DOMAIN domains : HasLabels(domains[i].quotas)
  <2>1. CASE card.domains # <<>>
    BY <2>1 DEF IsCard, Elements
  <2>2. CASE card.domains = <<>>
    <3> DEFINE active == activeBillingDomain(card, NotChosen)
    <3>1. ~HasId(card.domains, NotChosen)
      BY <2>2, NothingIs DEF HasId
    <3>2. active.quotas = card.quotas
      BY <2>2, <3>1 DEF activeBillingDomain
    <3>3. domains = <<active>>
      BY <2>2
    <3> HIDE DEF active, domains
    <3>4. IsSequence(domains) /\ DOMAIN domains = 1 .. 1 /\ domains[1] = active
      <4>1. DOMAIN domains = 1 .. 1 /\ domains = [i \in 1 .. 1 |-> domains[i]]
        BY <3>3
      <4>2. IsSequence(domains)
        BY <4>1, ListIs
      <4> QED
        BY <3>3, <4>1, <4>2
    <3> QED
      BY <3>2, <3>4 DEF IsCard
  <2> QED
    BY <2>1, <2>2
<1> HIDE DEF domains
<1>3. /\ DOMAIN f = DOMAIN domains /\ f = [i \in DOMAIN domains |-> f[i]]
      /\ \A i \in DOMAIN domains : f[i].buckets = displayQuotaBuckets(domains[i].quotas)
  OBVIOUS
<1> HIDE DEF f
<1>4. IsSequence(lanes) /\ lanes = f
  BY <1>2, <1>3, MapIs
<1> HIDE DEF lanes
<1>5. at \in SUBSET (DOMAIN lanes)
  OBVIOUS
<1> HIDE DEF at
<1>6. Elements(Chosen(lanes, at)) = {lanes[i] : i \in at}
  BY <1>4, <1>5, ChosenIs
<1>7. PICK i \in DOMAIN lanes : lane = lanes[i]
  BY <1>1, <1>5, <1>6
<1>8. lane.buckets = displayQuotaBuckets(domains[i].quotas) /\ HasLabels(domains[i].quotas)
  BY <1>2, <1>3, <1>4, <1>7
<1> QED
  BY <1>8, GroupsStay

\* The connector of a domain is found, and no other.
LEMMA ConnectorIs ==
    ASSUME connections \in Connections \cup {<<>>}, NEW provider, NEW domain
    PROVE  \A c : c \in Elements(connectorForDomain(provider, domain))
                  <=> \E i \in DOMAIN connections :
                         /\ c = connections[i] /\ connections[i].target.id = provider
                         /\ connections[i].target.domain = domain
<1> DEFINE at == {i \in DOMAIN connections : /\ connections[i].target.id = provider
                                            /\ connections[i].target.domain = domain}
           those == Chosen(connections, at)
           one == connectorForDomain(provider, domain)
<1>1. /\ IsSequence(connections)
      /\ \A i, j \in DOMAIN connections :
            connections[i].target.id = connections[j].target.id
            /\ connections[i].target.domain = connections[j].target.domain => i = j
  BY ConnectorsAre
<1>2. one = IF those = <<>> THEN those ELSE <<Head(those)>>
  BY DEF connectorForDomain
<1>3. at \in SUBSET (DOMAIN connections) /\ \A i, j \in at : i = j
  BY <1>1
<1>4. \A c : c \in {connections[i] : i \in at}
             <=> \E i \in DOMAIN connections :
                    /\ c = connections[i] /\ connections[i].target.id = provider
                    /\ connections[i].target.domain = domain
  OBVIOUS
<1> HIDE DEF at
<1>5. IsSequence(those) /\ Elements(those) = {connections[i] : i \in at}
  BY <1>1, <1>3, ChosenIs
<1> HIDE DEF those, one
<1>6. Elements(one) = Elements(those)
  <2>1. CASE those = <<>>
    BY <1>2, <2>1
  <2>2. CASE those # <<>>
    <3>1. /\ Len(those) \in Nat /\ DOMAIN those = 1 .. Len(those) /\ Len(those) # 0
          /\ Head(those) = those[1]
      <4>1. those \in Seq(Elements(those))
        BY <1>5 DEF IsSequence
      <4> QED
        BY <2>2, <4>1
    <3>2. 1 \in DOMAIN those
      BY <3>1
    <3>3. Elements(one) = {those[1]}
      BY <1>2, <2>2, <3>1 DEF Elements
    <3>4. those[1] \in Elements(those)
      BY <3>2 DEF Elements
    <3>5. \A c, d \in Elements(those) : c = d
      BY <1>3, <1>5
    <3> QED
      BY <3>3, <3>4, <3>5
  <2> QED
    BY <2>1, <2>2
<1> QED
  BY <1>4, <1>5, <1>6 DEF one

-----------------------------------------------------------------------------
(* What the page shows once answers have come in any order.                *)

\* The answers held: the overview has each provider once, as some answer gave it; the index
\* names agents as some answer named them.
CardsInv == AreAnswers(overview, connections, index)

LEMMA CompleteIs ==
    ASSUME CardsInv, NEW card, IsCard(card, card.id, overview, connections)
    PROVE  CardIsComplete(card)
<1> DEFINE id == card.id
           domains == card.domains
<1>1. /\ IsSequence(domains) /\ OneId(domains)
      /\ {d.id : d \in Elements(domains)} = DomainsOf(id, overview, connections)
  BY DEF IsCard
<1>2. DomainsOf(id, overview, connections) = DomainsFor(id)
  BY DEF DomainsOf, DomainsFor, OnCardsOf, OnCards
<1>3. IdsAreDistinct(domains)
  BY <1>1, DistinctIs
<1>4. domains # <<>> => ActiveOf(card) \in Elements(domains)
  <2> SUFFICES ASSUME domains # <<>>
               PROVE  ActiveOf(card) \in Elements(domains)
    OBVIOUS
  <2> DEFINE chosen == selectedDomains[id]
  <2>1. ActiveOf(card) = IF HasId(domains, chosen) THEN FindId(domains, chosen)
                         ELSE Head(domains)
    BY DEF ActiveOf, activeBillingDomain
  <2> HIDE DEF domains, chosen
  <2>2. CASE HasId(domains, chosen)
    BY <1>1, <2>1, <2>2, FoundIs
  <2>3. CASE ~HasId(domains, chosen)
    <3>1. /\ DOMAIN domains = 1 .. Len(domains) /\ Len(domains) \in Nat /\ Len(domains) # 0
          /\ Head(domains) = domains[1]
      <4>1. domains \in Seq(Elements(domains))
        BY <1>1 DEF IsSequence
      <4> QED
        BY <4>1
    <3> QED
      BY <2>1, <2>3, <3>1 DEF Elements
  <2> QED
    BY <2>2, <2>3
<1>5. Offered(card) = {connections[i] : i \in {j \in OnCards : connections[j].target.id = id}}
  <2> DEFINE mine == {j \in OnCards : connections[j].target.id = id}
             of(d) == Elements(connectorForDomain(id, d.id))
  <2>1. connections \in Connections \cup {<<>>}
    BY DEF CardsInv, AreAnswers
  <2>2. \A d, c : c \in of(d)
                  <=> \E i \in DOMAIN connections :
                         /\ c = connections[i] /\ connections[i].target.id = id
                         /\ connections[i].target.domain = d.id
    BY <2>1, ConnectorIs
  <2>3. \A c : c \in Offered(card) <=> \E d \in Elements(domains) : c \in of(d)
    BY DEF Offered
  <2>4. \A x \in DomainsFor(id) : \A i \in DOMAIN connections :
           /\ connections[i].target.id = id /\ connections[i].target.domain = x
           => i \in mine
    <3>1. ASSUME NEW x \in DomainsFor(id)
          PROVE  OnACard(id, x)
      <4>1. CASE x \in {connections[i].target.domain : i \in mine}
        BY <4>1 DEF OnCards
      <4>2. CASE x \notin {connections[i].target.domain : i \in mine}
        BY <4>2 DEF DomainsFor
      <4> QED
        BY <4>1, <4>2
    <3> QED
      BY <3>1 DEF OnCards
  <2>5. \A i \in mine : /\ i \in DOMAIN connections /\ connections[i].target.id = id
                        /\ connections[i].target.domain \in DomainsFor(id)
    BY DEF DomainsFor, OnCards
  <2>6. \A x : x \in DomainsFor(id) <=> \E d \in Elements(domains) : d.id = x
    BY <1>1, <1>2
  <2> HIDE DEF mine, of, domains
  <2>7. \A c : c \in Offered(card) <=> \E i \in mine : c = connections[i]
    <3>1. ASSUME NEW c \in Offered(card)
          PROVE  \E i \in mine : c = connections[i]
      <4>1. PICK d \in Elements(domains) : c \in of(d)
        BY <2>3
      <4>2. PICK i \in DOMAIN connections : /\ c = connections[i]
                                            /\ connections[i].target.id = id
                                            /\ connections[i].target.domain = d.id
        BY <2>2, <4>1
      <4> QED
        BY <2>4, <2>6, <4>2
    <3>2. ASSUME NEW i \in mine
          PROVE  connections[i] \in Offered(card)
      <4>1. PICK d \in Elements(domains) : d.id = connections[i].target.domain
        BY <2>5, <2>6
      <4>2. connections[i] \in of(d)
        BY <2>2, <2>5, <4>1
      <4> QED
        BY <2>3, <4>2
    <3> QED
      BY <3>1, <3>2
  <2>8. Offered(card) = {connections[i] : i \in mine}
    BY <2>7
  <2> QED
    BY <2>8 DEF mine
<1> QED
  BY <1>1, <1>2, <1>3, <1>4, <1>5 DEF CardIsComplete

\* Nothing of the overview takes an agent off the page, or moves the cards there are.
LEMMA CompleteCards ==
    ASSUME CardsInv
    PROVE  CardsAreComplete
<1> DEFINE cards == Cards
           drawn == displayProviders(<<>>, connections, index)
           visible == Visible(overview) \cup Visible(index)
                      \cup {connections[i].target.id : i \in OnCards}
<1>1. /\ IsSequence(cards) /\ OneId(cards) /\ InTurn(cards)
      /\ \A card \in Elements(cards) : IsCard(card, card.id, overview, connections)
      /\ {card.id : card \in Elements(cards)} = visible
  <2>1. OnCardsOf(connections) = OnCards
    BY DEF OnCardsOf, OnCards
  <2> QED
    <3>1. AreCards(cards, overview, connections, index)
      BY CardsAre DEF CardsInv, Cards
    <3> HIDE DEF cards
    <3> QED
      BY <2>1, <3>1, Zenon DEF AreCards
<1>2. AreAnswers(<<>>, connections, index)
  BY NothingIs DEF CardsInv, AreAnswers, OneId
<1>3. /\ IsSequence(drawn) /\ OneId(drawn) /\ InTurn(drawn)
      /\ \A card \in Elements(drawn) : IsCard(card, card.id, <<>>, connections)
      /\ {card.id : card \in Elements(drawn)}
            = Visible(<<>>) \cup Visible(index)
              \cup {connections[i].target.id : i \in OnCardsOf(connections)}
  <2>1. AreCards(drawn, <<>>, connections, index)
    BY <1>2, CardsAre
  <2> HIDE DEF drawn
  <2> QED
    BY <2>1, Zenon DEF AreCards
<1>4. Visible(<<>>) = {} /\ OnCardsOf(connections) = OnCards
  BY NothingIs DEF Visible, OnCardsOf, OnCards
<1>5. \A i \in DOMAIN cards : Known(cards[i])
  <2>1. \A i \in DOMAIN cards : cards[i] \in Elements(cards)
    BY DEF Elements
  <2> HIDE DEF cards
  <2> QED
    BY <1>1, <2>1 DEF IsCard
<1>6. \A i \in DOMAIN drawn : Known(drawn[i])
  <2>1. \A i \in DOMAIN drawn : drawn[i] \in Elements(drawn)
    BY DEF Elements
  <2> HIDE DEF drawn
  <2> QED
    BY <1>3, <2>1 DEF IsCard
<1>7. \A lanes \in Elements(quotaTimelineProviders) : \A lane \in Elements(lanes) :
         GroupsStayTogether(lane.buckets)
  <2> SUFFICES ASSUME NEW lanes \in Elements(quotaTimelineProviders),
                      NEW lane \in Elements(lanes)
               PROVE  GroupsStayTogether(lane.buckets)
    OBVIOUS
  <2>1. quotaTimelineProviders = [i \in DOMAIN cards |-> LanesOf(cards[i])]
    BY DEF quotaTimelineProviders
  <2> HIDE DEF cards
  <2>2. PICK i \in DOMAIN cards : lanes = LanesOf(cards[i])
    BY <2>1 DEF Elements
  <2>3. IsCard(cards[i], cards[i].id, overview, connections)
    BY <1>1 DEF Elements
  <2> QED
    BY <2>2, <2>3, LanesAre
<1> HIDE DEF cards, drawn, visible
<1>8. IdsAreDistinct(cards)
  BY <1>1, DistinctIs
<1>9. \A a \in visible : a \notin NoCard
  BY <1>1, <1>5 DEF Known, Elements
<1>10. /\ {cards[i].id : i \in DOMAIN cards} = visible
       /\ {drawn[i].id : i \in DOMAIN drawn} \subseteq visible
  <2>1. /\ {cards[i].id : i \in DOMAIN cards} = {card.id : card \in Elements(cards)}
        /\ {drawn[i].id : i \in DOMAIN drawn} = {card.id : card \in Elements(drawn)}
    BY DEF Elements
  <2> QED
    BY <1>1, <1>3, <1>4, <2>1 DEF visible
<1>11. Visible(cards) = visible
  BY <1>9, <1>10 DEF Visible
<1>12. Visible(drawn) \subseteq Visible(cards)
  BY <1>9, <1>10, <1>11 DEF Visible
<1>13. \A a, b \in Visible(drawn) :
          <<a, b>> \in StandingOf(cards) <=> <<a, b>> \in StandingOf(drawn)
  <2>1. \A a, b \in {cards[i].id : i \in DOMAIN cards} :
           <<a, b>> \in StandingOf(cards) <=> a # b /\ Before(a, b)
    BY <1>1, <1>5, StandingIs
  <2>2. \A a, b \in {drawn[i].id : i \in DOMAIN drawn} :
           <<a, b>> \in StandingOf(drawn) <=> a # b /\ Before(a, b)
    BY <1>3, <1>6, StandingIs
  <2>3. \A a \in Visible(drawn) : a \in {drawn[i].id : i \in DOMAIN drawn}
    BY DEF Visible
  <2> QED
    BY <1>10, <2>1, <2>2, <2>3
<1>14. \A card \in Elements(cards) : CardIsComplete(card)
  BY <1>1, CompleteIs
<1> QED
  BY <1>7, <1>8, <1>11, <1>12, <1>13, <1>14, Zenon DEF CardsAreComplete, cards, drawn, visible

LEMMA DefaultIndexIs ==
    IsSequence(DefaultIndex) /\ Elements(DefaultIndex) \subseteq Named
<1>1. DefaultIndex \in Seq(Elements(DefaultIndex))
  BY DEF DefaultIndex, Elements
<1> QED
  BY <1>1 DEF IsSequence, Named

LEMMA InitCards == CardsInit => CardsInv
  BY DefaultIndexIs, NothingIs DEF CardsInit, CardsInv, AreAnswers, OneId

LEMMA IndexArrivesCards == CardsInv /\ IndexArrives => CardsInv'
<1> SUFFICES ASSUME CardsInv, IndexArrives PROVE CardsInv'
  OBVIOUS
<1>1. PICK answer \in Indexes :
        LET named(known) == IF HasId(answer, known.id) THEN FindId(answer, known.id) ELSE known
            more == Chosen(answer, {i \in DOMAIN answer : /\ answer[i].id \notin NoCard
                                                          /\ ~HasId(DefaultIndex, answer[i].id)})
        IN  /\ index' = [i \in DOMAIN DefaultIndex |-> named(DefaultIndex[i])] \o more
            /\ requested' = requested \cup Elements(Ids(more))
            /\ UNCHANGED <<overview, connections, selectedDomains>>
  BY Zenon DEF IndexArrives
<1> DEFINE named(known) == IF HasId(answer, known.id) THEN FindId(answer, known.id) ELSE known
           at == {i \in DOMAIN answer : /\ answer[i].id \notin NoCard
                                        /\ ~HasId(DefaultIndex, answer[i].id)}
           more == Chosen(answer, at)
           first == [i \in DOMAIN DefaultIndex |-> named(DefaultIndex[i])]
<1>2. index' = first \o more /\ UNCHANGED <<overview, connections>>
  BY <1>1
<1>3. IsSequence(answer) /\ Elements(answer) \subseteq Named
  <2>1. Elements(answer) \subseteq UNION {Elements(i) : i \in Indexes}
    OBVIOUS
  <2> QED
    BY <2>1, CardsAssumption DEF CardsAssumption, AnswersAreSets, Named
<1>4. IsSequence(more) /\ Elements(more) \subseteq Named
  <2>1. at \in SUBSET (DOMAIN answer)
    OBVIOUS
  <2> HIDE DEF at
  <2>2. IsSequence(more) /\ Elements(more) = {answer[i] : i \in at}
    BY <1>3, <2>1, ChosenIs
  <2>3. \A i \in at : answer[i] \in Elements(answer)
    BY <2>1 DEF Elements
  <2> QED
    BY <1>3, <2>2, <2>3
<1>5. IsSequence(first) /\ Elements(first) \subseteq Named
  <2>1. \A i \in DOMAIN DefaultIndex : named(DefaultIndex[i]) \in Named
    <3> SUFFICES ASSUME NEW i \in DOMAIN DefaultIndex
                 PROVE  named(DefaultIndex[i]) \in Named
      OBVIOUS
    <3>1. DefaultIndex[i] \in Named
      BY DefaultIndexIs DEF Elements
    <3>2. HasId(answer, DefaultIndex[i].id) => FindId(answer, DefaultIndex[i].id) \in Named
      BY <1>3, FoundIs
    <3> QED
      BY <3>1, <3>2
  <2>2. /\ DOMAIN first = DOMAIN DefaultIndex
        /\ first = [i \in DOMAIN DefaultIndex |-> first[i]]
        /\ \A i \in DOMAIN DefaultIndex : first[i] = named(DefaultIndex[i])
    OBVIOUS
  <2> HIDE DEF first, named
  <2>3. IsSequence(first)
    BY <2>2, DefaultIndexIs, MapIs
  <2> QED
    BY <2>1, <2>2, <2>3 DEF Elements
<1> HIDE DEF first, more
<1>6. IsSequence(first \o more) /\ Elements(first \o more) \subseteq Named
  BY <1>4, <1>5, JoinIs
<1> QED
  BY <1>2, <1>6 DEF CardsInv, AreAnswers

LEMMA AgentProviderArrivesCards == CardsInv /\ AgentProviderArrives => CardsInv'
<1> SUFFICES ASSUME CardsInv, AgentProviderArrives PROVE CardsInv'
  OBVIOUS
<1>1. PICK provider \in Providers :
        /\ overview' = IF HasId(overview, provider.id)
                       THEN [i \in DOMAIN overview |-> IF overview[i].id = provider.id
                                                       THEN provider ELSE overview[i]]
                       ELSE Append(overview, provider)
        /\ UNCHANGED <<connections, index, requested, selectedDomains>>
  BY Zenon DEF AgentProviderArrives
<1>2. /\ IsSequence(overview) /\ OneId(overview)
      /\ \A i \in DOMAIN overview : overview[i] \in Providers
  BY DEF CardsInv, AreAnswers, Elements
<1>3. IsSequence(overview') /\ Elements(overview') \subseteq Providers /\ OneId(overview')
  <2>1. CASE HasId(overview, provider.id)
    <3>1. /\ DOMAIN overview' = DOMAIN overview
          /\ overview' = [i \in DOMAIN overview |-> overview'[i]]
          /\ \A i \in DOMAIN overview :
                overview'[i] = IF overview[i].id = provider.id THEN provider ELSE overview[i]
      BY <1>1, <2>1
    <3>2. IsSequence(overview')
      BY <1>2, <3>1, MapIs
    <3>3. \A i \in DOMAIN overview : overview'[i].id = overview[i].id
      BY <3>1
    <3> QED
      BY <1>2, <3>1, <3>2, <3>3 DEF Elements, OneId
  <2>2. CASE ~HasId(overview, provider.id)
    <3> DEFINE n == Len(overview)
    <3>1. n \in Nat /\ DOMAIN overview = 1 .. n
      BY <1>2, SequenceIs
    <3>2. /\ DOMAIN overview' = 1 .. n + 1
          /\ overview' = [i \in 1 .. n + 1 |-> overview'[i]]
          /\ \A i \in 1 .. n : overview'[i] = overview[i]
          /\ overview'[n + 1] = provider
      <4>1. overview \in Seq(Elements(overview)) /\ overview' = Append(overview, provider)
        BY <1>1, <1>2, <2>2 DEF IsSequence
      <4> DEFINE S == Elements(overview) \cup {provider}
      <4>2. overview \in Seq(S) /\ provider \in S
        BY <4>1
      <4> HIDE DEF S
      <4>3. /\ overview' \in Seq(S) /\ Len(overview') = n + 1
            /\ \A i \in 1 .. n : overview'[i] = overview[i]
            /\ overview'[n + 1] = provider
        BY <3>1, <4>1, <4>2
      <4> QED
        BY <3>1, <4>3
    <3> HIDE DEF n
    <3>3. IsSequence(overview')
      BY <3>1, <3>2, ListIs
    <3>4. \A i \in 1 .. n + 1 : i \in 1 .. n \/ i = n + 1
      BY <3>1
    <3>5. \A i \in DOMAIN overview' : overview'[i] \in Providers
      BY <1>2, <3>1, <3>2, <3>4
    <3>6. \A i \in 1 .. n : overview[i].id # provider.id
      BY <2>2, <3>1 DEF HasId
    <3>7. OneId(overview')
      BY <1>2, <3>1, <3>2, <3>4, <3>6 DEF OneId
    <3> QED
      BY <3>3, <3>5, <3>7 DEF Elements
  <2> QED
    BY <2>1, <2>2
<1> QED
  BY <1>1, <1>3 DEF CardsInv, AreAnswers

LEMMA NextCards == CardsInv /\ [CardsNext]_cardVars => CardsInv'
<1> SUFFICES ASSUME CardsInv, [CardsNext]_cardVars PROVE CardsInv'
  OBVIOUS
<1>1. CASE IndexArrives
  BY <1>1, IndexArrivesCards
<1>2. CASE ConnectorsArrive
  BY <1>2 DEF ConnectorsArrive, CardsInv, AreAnswers
<1>3. CASE AgentProviderArrives
  BY <1>3, AgentProviderArrivesCards
<1>4. CASE selectBillingDomain
  <2>1. UNCHANGED <<overview, connections, index>>
    BY <1>4, Zenon DEF selectBillingDomain
  <2> QED
    BY <2>1 DEF CardsInv
<1>5. CASE UNCHANGED cardVars
  BY <1>5 DEF cardVars, CardsInv
<1> QED
  BY <1>1, <1>2, <1>3, <1>4, <1>5 DEF CardsNext

\* Whatever answers first, every agent that an answer names has one card, with every domain
\* of it that belongs there and a connector to set up for each; answers about the agents
\* move no card; and the windows of a model group stay together (+page.svelte:1243).
THEOREM CardsComplete == CardsSpec => []CardsAreComplete
<1>1. CardsInv => CardsAreComplete
  BY CompleteCards
<1> QED
  BY <1>1, InitCards, NextCards, PTL DEF CardsSpec

=============================================================================
