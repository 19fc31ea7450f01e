---------------------------- MODULE ClientSettings ----------------------------
(* The settings of one user at one client: the settings form                  *)
(* (forms/settings.rs) with the window of the colours (forms/colors.rs) or the *)
(* panels of the printer (forms/printer.rs) in front of it, which keep it and  *)
(* give it back. What is told about queues and their paper comes whenever it   *)
(* comes. A text field that is read as a number holds a set, Illegible what    *)
(* cannot be read.                                                            *)
EXTENDS Integers, FiniteSets, SequencesExt

CONSTANTS
  KeptPrefs,    \* the preferences the user may come with
  KeptProfiles, \* the printers the client may come with
  Colors,       \* the sets of colours, with the one of the program
  Cards,        \* what the fields of a card may be set to
  Filters,      \* what the filter may be set to
  Words,        \* what the words of a slip may be
  Media,        \* the width in mm CUPS reports of a queue's paper, {} for none
  MaxEdits,     \* bound: changes in all windows, after which none is opened
  MaxAsking,    \* bound: questions about queues under way
  MaxSaving     \* bound: saves under way

VARIABLES
  prefs,      \* the preferences the client uses, and the zone
  profile,    \* {} or the printer the client prints on
  window,     \* "none", "settings", "colors" or "printer"
  settings,   \* the settings form
  palette,    \* the colours as they stand in their window
  printer,    \* the printer form
  asking,     \* the queues asked about
  saving,     \* the saves the daemon has not answered, in order
  edited,     \* the preferences changed by hand since the form opened
  opened,     \* the preferences the form was opened with
  meant,      \* what the printer panels were told: queue, paper and words
  jumped,     \* a refused save has opened the advanced panel on another queue
  edits,
  stored      \* {} or what the step that led here has stored

settingsVars == <<prefs, profile, window, settings, palette, printer, asking, saving,
                  edited, opened, meant, jumped, edits, stored>>

Illegible == {-1}
NoQueue == "no printer"
BadQueue == "no, name"
Kinds == {"task", "reminder"}
MinCustom == 20
MaxCustom == 120
Widths == MinCustom..MaxCustom

DefaultColors == "default"
DefaultCard == "start"
DefaultFilter == "mine"
NoWords == ""
Foci == {"Grid", "Text", "Kind", "Back"}

Themes == {"Dark", "Custom", "Blood"}
Levels == {"Low", "High"}
AtMostOne(S) == \A a, b \in S : a = b

\* What the types of the preferences and of a profile leave to them.
IsPrefs(p) ==
  /\ p \in [theme : Themes, darkness : Levels, contrast : Levels, colors : Colors, plain : BOOLEAN,
            zone : Nat, reminder : SUBSET Nat, timeout : Nat, cards : SUBSET Cards,
            filter : SUBSET Filters]
  /\ AtMostOne(p.reminder) /\ AtMostOne(p.cards) /\ AtMostOne(p.filter)

\* The width the printer prints on a roll, {} for a width of one's own.
Printable(paper) == CASE paper = 58 -> {48} [] paper = 80 -> {72} [] OTHER -> {}

IsProfile(p) ==
  /\ p \in [queue : DOMAIN Media, paper : {58, 80, 0}, mm : SUBSET Widths, words : [Kinds -> Words]]
  /\ p.mm # {} /\ AtMostOne(p.mm)
  /\ p.paper # 0 => p.mm = Printable(p.paper)

ASSUME SettingsAssumption ==
  /\ DefaultColors \in Colors /\ DefaultCard \in Cards /\ DefaultFilter \in Filters /\ NoWords \in Words
  /\ \A p \in KeptPrefs : IsPrefs(p)
  /\ \A p \in KeptProfiles : IsProfile(p)
  /\ {NoQueue, BadQueue} \cap DOMAIN Media = {}
  /\ \A q \in DOMAIN Media : Media[q] \subseteq Nat /\ AtMostOne(Media[q])

-----------------------------------------------------------------------------
(* The settings form. Boxes without a field of their own stand together as     *)
(* plain, the fields of a card as card, those of the filter as filter.         *)

NewSettings(p) ==
  [theme |-> p.theme, darkness |-> p.darkness, contrast |-> p.contrast, colors |-> p.colors,
   plain |-> p.plain, zone |-> {p.zone}, reminder |-> p.reminder, timeout |-> {p.timeout},
   cardDefault |-> p.cards = {}, card |-> IF p.cards = {} THEN DefaultCard ELSE CHOOSE c \in p.cards : TRUE,
   filterOn |-> p.filter # {}, filter |-> IF p.filter = {} THEN DefaultFilter ELSE CHOOSE x \in p.filter : TRUE,
   error |-> FALSE, saving |-> FALSE]

\* The fields that take keys and clicks: what a theme, the default card or no
\* filter has no use for is hidden and keeps what it holds.
ShownFields(f) ==
  {"theme", "plain", "zone", "reminder", "timeout", "cardDefault", "filterOn"}
  \cup (IF f.theme = "Dark" THEN {"darkness"} ELSE {})
  \cup (IF f.theme = "Blood" THEN {"contrast"} ELSE {})
  \cup (IF f.cardDefault THEN {} ELSE {"card"})
  \cup (IF f.filterOn THEN {"filter"} ELSE {})

SettingsInputs(f, w) ==
  CASE w \in {"plain", "cardDefault", "filterOn"} -> {~f[w]}
    [] w = "theme" -> Themes
    [] w \in {"darkness", "contrast"} -> Levels
    [] w = "card" -> Cards
    [] w = "filter" -> Filters
    [] w = "zone" -> {Illegible, {2}}
    [] w \in {"reminder", "timeout"} -> {{}, Illegible, {90}}

\* The preference a field writes.
WritesTo(w) == CASE w \in {"cardDefault", "card"} -> "cards" [] w = "filterOn" -> "filter" [] OTHER -> w

\* No reminder is a blank field; no zone and no time limit are mistakes.
InvalidSettings(f) == f.reminder = Illegible \/ f.zone = Illegible \/ f.timeout \in {{}, Illegible}

\* Fields of a card although the default is chosen (a faulty variant).
SettingsValuesCard(f) ==
  [theme |-> f.theme, darkness |-> f.darkness, contrast |-> f.contrast, colors |-> f.colors,
   plain |-> f.plain, zone |-> CHOOSE z \in f.zone : TRUE, reminder |-> f.reminder,
   timeout |-> CHOOSE t \in f.timeout : TRUE, cards |-> {f.card},
   filter |-> IF f.filterOn THEN {f.filter} ELSE {}]

SettingsValues(f) ==
  [theme |-> f.theme, darkness |-> f.darkness, contrast |-> f.contrast, colors |-> f.colors,
   plain |-> f.plain, zone |-> CHOOSE z \in f.zone : TRUE, reminder |-> f.reminder,
   timeout |-> CHOOSE t \in f.timeout : TRUE,
   cards |-> IF f.cardDefault THEN {} ELSE {f.card},
   filter |-> IF f.filterOn THEN {f.filter} ELSE {}]

-----------------------------------------------------------------------------
(* The printer form. Its three panels share one profile in the making; the     *)
(* typed queue and the words of the custom line have fields of their own, which *)
(* are carried over.                                                          *)

NewPrinter(p) ==
  LET d == IF p = {} THEN [queue |-> NoQueue, paper |-> 80, mm |-> {72}, words |-> [k \in Kinds |-> NoWords]]
           ELSE CHOOSE x \in p : TRUE
  IN  [queue |-> d.queue, queueText |-> d.queue, paper |-> d.paper, mm |-> d.mm, words |-> d.words,
       kind |-> "task", text |-> NoWords, focus |-> "Grid", panel |-> "Main",
       byHand |-> FALSE, error |-> FALSE]

\* The roll for a reported width, which may be that of the roll or of what is
\* printed on it; 0 is a width of one's own, which has a field.
PaperFor(w) == CASE w \in (46..50) \cup (56..60) -> 58 [] w \in (70..74) \cup (78..82) -> 80 [] OTHER -> 0
SetPaper(f, w) ==
  [f EXCEPT !.paper = PaperFor(w), !.mm = IF PaperFor(w) = 0 THEN {w} ELSE Printable(PaperFor(w))]

\* A late answer for a queue that is no longer selected is dropped, and so is a
\* width no receipt printer has.
SetMedia(f, queue) ==
  IF queue # f.queue \/ f.byHand \/ Media[queue] \cap Widths = {} THEN f
  ELSE SetPaper(f, CHOOSE w \in Media[queue] : TRUE)

SyncTypedQueue(f) == [f EXCEPT !.queue = f.queueText]
OpenAdvanced(f) == [f EXCEPT !.queueText = f.queue, !.panel = "Advanced", !.error = FALSE]

SyncSlipText(f) == [f EXCEPT !.text = f.words[f.kind]]
StoreSlipText(f) == [f EXCEPT !.words[f.kind] = f.text]

\* Leaving the words stores them, coming to them shows what is stored.
SetSlipFocus(f, to) ==
  LET left == IF f.focus = "Text" /\ to # "Text" THEN StoreSlipText(f) ELSE f
      moved == [left EXCEPT !.focus = to]
  IN  IF to = "Text" /\ f.focus # "Text" THEN SyncSlipText(moved) ELSE moved

Other(kind) == CHOOSE k \in Kinds : k # kind
\* A switch that stores the words after it has turned (a faulty variant).
SwitchSlipKindLate(f) == SyncSlipText(StoreSlipText([f EXCEPT !.kind = Other(@)]))
SwitchSlipKind(f) == LET kept == StoreSlipText(f) IN SyncSlipText([kept EXCEPT !.kind = Other(@)])

OpenSlip(f) == [SetSlipFocus(SyncSlipText([f EXCEPT !.panel = "Slip"]), "Grid") EXCEPT !.error = FALSE]

ClosePanel(f) ==
  [(CASE f.panel = "Advanced" -> SyncTypedQueue(f) [] f.panel = "Slip" -> StoreSlipText(f) [] OTHER -> f)
     EXCEPT !.panel = "Main", !.error = FALSE]

\* The queue and the width are all that can be wrong.
InvalidPrinter(f) ==
  f.queue = BadQueue \/ (f.paper = 0 /\ ~f.mm \subseteq Widths)

PrinterValues(f) ==
  IF f.queue = NoQueue THEN {}
  ELSE {[queue |-> f.queue, paper |-> f.paper,
         mm |-> IF f.paper = 0 THEN f.mm ELSE Printable(f.paper), words |-> f.words]}

-----------------------------------------------------------------------------
Editing(w) == window = w /\ edits < MaxEdits /\ edits' = edits + 1

OpenSettings ==
  /\ window = "none" /\ edits < MaxEdits
  /\ window' = "settings" /\ settings' = NewSettings(prefs) /\ opened' = prefs /\ edited' = {}
  /\ UNCHANGED <<prefs, profile, palette, printer, asking, saving, meant, jumped, edits>>

TypeSettings ==
  /\ Editing("settings") /\ ~settings.saving
  /\ \E w \in ShownFields(settings) : \E v \in SettingsInputs(settings, w) :
       settings' = [settings EXCEPT ![w] = v] /\ edited' = edited \cup {WritesTo(w)}
  /\ UNCHANGED <<prefs, profile, window, palette, printer, asking, saving, opened, meant, jumped>>

\* What is left of a form that is closed, for the model to have something.
SettingsClosed == settings' = NewSettings(prefs) /\ opened' = prefs /\ edited' = {}

CancelSettings ==
  /\ window = "settings" /\ ~settings.saving
  /\ window' = "none" /\ SettingsClosed
  /\ UNCHANGED <<prefs, profile, palette, printer, asking, saving, meant, jumped, edits>>

\* What is saved is used at once. The zone is a request of its own, and neither used
\* nor sent if it is the one the form opened with.
SaveSettings ==
  /\ window = "settings" /\ ~settings.saving /\ Len(saving) < MaxSaving
  /\ IF InvalidSettings(settings)
     THEN settings' = [settings EXCEPT !.error = TRUE] /\ stored' = {} /\ UNCHANGED <<prefs, saving>>
     ELSE /\ settings' = [settings EXCEPT !.error = FALSE, !.saving = TRUE]
          /\ LET values == SettingsValues(settings)
                 moves == values.zone # opened.zone
             IN  /\ prefs' = [values EXCEPT !.zone = IF moves THEN @ ELSE prefs.zone]
                 /\ saving' = saving \o IF moves THEN <<"Settings", "Timezone">> ELSE <<"Settings">>
                 /\ stored' = {[prefs |-> values, edited |-> edited, opened |-> opened]}
  /\ UNCHANGED <<profile, window, palette, printer, asking, edited, opened, meant, jumped, edits>>

\* Done closes the form that is open; the answer about the zone may find another.
SaveAnswered ==
  /\ saving # <<>>
  /\ saving' = Tail(saving)
  /\ \/ Head(saving) = "Settings" /\ window = "settings" /\ window' = "none" /\ SettingsClosed
     \/ /\ Head(saving) = "Timezone" \/ window # "settings"
        /\ UNCHANGED <<window, settings, edited, opened>>
     \/ /\ settings' = IF window = "settings" THEN [settings EXCEPT !.saving = FALSE, !.error = TRUE] ELSE settings
        /\ UNCHANGED <<window, edited, opened>>
  /\ UNCHANGED <<prefs, profile, palette, printer, asking, meant, jumped, edits>>

\* Another client of the user has saved. A form that is open is not told.
PrefsChanged ==
  /\ edits < MaxEdits /\ edits' = edits + 1
  /\ prefs' = [prefs EXCEPT !.plain = ~@]
  /\ UNCHANGED <<profile, window, settings, palette, printer, asking, saving, edited, opened, meant,
                 jumped>>

-----------------------------------------------------------------------------
EditColors ==
  /\ window = "settings" /\ ~settings.saving /\ settings.theme = "Custom"
  /\ window' = "colors" /\ palette' = settings.colors
  /\ UNCHANGED <<prefs, profile, settings, printer, asking, saving, edited, opened, meant, jumped,
                 edits>>

TypeColors ==
  /\ Editing("colors")
  /\ palette' \in Colors
  /\ UNCHANGED <<prefs, profile, window, settings, printer, asking, saving, edited, opened, meant,
                 jumped>>

LeaveColors ==
  /\ window = "colors"
  /\ window' = "settings" /\ palette' = DefaultColors
  /\ \/ UNCHANGED <<settings, edited>>
     \/ settings' = [settings EXCEPT !.colors = palette] /\ edited' = edited \cup {"colors"}
  /\ UNCHANGED <<prefs, profile, printer, asking, saving, opened, meant, jumped, edits>>

-----------------------------------------------------------------------------
\* What the panels mean by what they hold.
MeantBy(f) == [queue |-> f.queue, paper |-> f.paper, mm |-> f.mm, words |-> f.words]

OpenPrinter ==
  /\ window = "settings" /\ ~settings.saving /\ edits < MaxEdits
  /\ window' = "printer" /\ printer' = NewPrinter(profile)
  /\ asking' = asking \cup ({printer'.queue} \ {NoQueue, BadQueue})
  /\ meant' = MeantBy(printer') /\ jumped' = FALSE
  /\ UNCHANGED <<prefs, profile, settings, palette, saving, edited, opened, edits>>

\* A queue that is new is asked about its paper.
Asked(f) == asking \cup IF f.queue = printer.queue \/ f.queue \in {NoQueue, BadQueue} THEN {} ELSE {f.queue}

PickQueue ==
  /\ Editing("printer") /\ printer.panel = "Main"
  /\ \E q \in DOMAIN Media \cup {NoQueue} :
       printer' = [printer EXCEPT !.queue = q] /\ meant' = [meant EXCEPT !.queue = q]
  /\ asking' = Asked(printer') /\ Cardinality(asking') <= MaxAsking
  /\ UNCHANGED <<prefs, profile, window, settings, palette, saving, edited, opened, jumped>>

\* Whatever is done in the advanced panel carries the typed queue over.
TypeAdvanced ==
  /\ Editing("printer") /\ printer.panel = "Advanced"
  /\ \/ \E q \in DOMAIN Media \cup {NoQueue, BadQueue} :
          /\ printer' = SyncTypedQueue([printer EXCEPT !.queueText = q])
          /\ meant' = [meant EXCEPT !.queue = q]
     \/ \E k \in {58, 80, 0}, w \in {printer.mm, {60}, Illegible} :
          /\ w # printer.mm => printer.paper = 0 /\ k = 0
          /\ printer' = [SyncTypedQueue(printer) EXCEPT !.paper = k, !.mm = w,
                           !.byHand = @ \/ <<k, w>> # <<printer.paper, printer.mm>>]
          /\ meant' = [meant EXCEPT !.paper = printer'.paper, !.mm = printer'.mm]
  /\ asking' = Asked(printer') /\ Cardinality(asking') <= MaxAsking
  /\ UNCHANGED <<prefs, profile, window, settings, palette, saving, edited, opened, jumped>>

TypeWords ==
  /\ Editing("printer") /\ printer.panel = "Slip" /\ printer.focus = "Text"
  /\ \E w \in Words :
       /\ printer' = StoreSlipText([printer EXCEPT !.text = w])
       /\ meant' = [meant EXCEPT !.words[printer.kind] = w]
  /\ UNCHANGED <<prefs, profile, window, settings, palette, asking, saving, edited, opened, jumped>>

\* Keys, clicks and the buttons that move about in the panels.
Move ==
  /\ window = "printer"
  /\ \/ printer.panel = "Main" /\ printer' \in {OpenAdvanced(printer), OpenSlip(printer)}
     \/ printer.panel # "Main" /\ printer' = ClosePanel(printer)
     \/ /\ printer.panel = "Slip"
        /\ \/ \E to \in Foci : printer' = SetSlipFocus(printer, to)
           \/ printer' = SwitchSlipKind(SetSlipFocus(printer, "Kind"))
           \/ printer' = ClosePanel(SetSlipFocus(printer, "Back"))
  /\ UNCHANGED <<prefs, profile, window, settings, palette, asking, saving, edited, opened, meant, jumped,
                 edits>>

\* The answers about queues come in any order, to the form that is open then.
MediaDetected ==
  /\ \E q \in asking :
       /\ asking' = asking \ {q}
       /\ printer' = IF window = "printer" THEN SetMedia(printer, q) ELSE printer
       /\ meant' = IF window = "printer" /\ q = meant.queue /\ ~printer.byHand
                   THEN [meant EXCEPT !.paper = printer'.paper, !.mm = printer'.mm] ELSE meant
  /\ UNCHANGED <<prefs, profile, window, settings, palette, saving, edited, opened, jumped, edits>>

\* What is left of the printer form, as for the settings.
Left == printer' = NewPrinter({}) /\ meant' = MeantBy(printer') /\ jumped' = FALSE

CancelPrinter ==
  /\ window = "printer" /\ printer.panel = "Main"
  /\ window' = "settings" /\ Left
  /\ UNCHANGED <<prefs, profile, settings, palette, asking, saving, edited, opened, edits>>

\* F2 in any panel. A mistake opens the advanced panel, where it may be.
SavePrinter ==
  /\ window = "printer"
  /\ IF InvalidPrinter(printer)
     THEN /\ printer' = [printer EXCEPT !.panel = "Advanced", !.error = TRUE]
          /\ jumped' = (jumped \/ printer.queueText # printer.queue)
          /\ stored' = {} /\ UNCHANGED <<profile, window, meant>>
     ELSE /\ profile' = PrinterValues(printer)
          /\ window' = "settings"
          /\ stored' = {[profile |-> profile', meant |-> meant, jumped |-> jumped]}
          /\ Left
  /\ UNCHANGED <<prefs, settings, palette, asking, saving, edited, opened, edits>>

SettingsInit ==
  /\ prefs \in KeptPrefs
  /\ profile \in {{}} \cup {{p} : p \in KeptProfiles}
  /\ window = "settings" /\ settings = NewSettings(prefs) /\ opened = prefs
  /\ palette = DefaultColors /\ printer = NewPrinter({}) /\ meant = MeantBy(NewPrinter({}))
  /\ asking = {} /\ saving = <<>> /\ edited = {} /\ jumped = FALSE /\ edits = 0 /\ stored = {}

SettingsNext ==
  \/ SaveSettings \/ SavePrinter
  \/ /\ stored' = {}
     /\ \/ OpenSettings \/ TypeSettings \/ CancelSettings \/ SaveAnswered \/ PrefsChanged
        \/ EditColors \/ TypeColors \/ LeaveColors
        \/ OpenPrinter \/ PickQueue \/ TypeAdvanced \/ TypeWords \/ Move \/ MediaDetected
        \/ CancelPrinter

SettingsSpec == SettingsInit /\ [][SettingsNext]_settingsVars

-----------------------------------------------------------------------------
\* Saving the settings leaves what nobody touched as it was when the form opened,
\* also what is hidden, through the windows in front of it.
UntouchedPrefsSurvive ==
  \A s \in stored : "prefs" \in DOMAIN s =>
    \A x \in DOMAIN s.prefs \ s.edited : s.prefs[x] = s.opened[x]

\* The printer that is stored is the one the panels were told, whatever panels were
\* opened and left, kinds of slip switched and answers about paper late: a width
\* set by hand outranks what is detected, an answer for another queue changes
\* nothing, and words typed for one kind of slip stay with it. Only the queue is
\* not always the one picked: a save that is refused opens the advanced panel
\* with the name that stood there before, and that is carried over.
ProfileAsMeant ==
  \A s \in stored : "profile" \in DOMAIN s =>
    \A p \in s.profile :
      /\ p.words = s.meant.words /\ p.paper = s.meant.paper
      /\ p.paper = 0 => p.mm = s.meant.mm
      /\ p.queue = s.meant.queue \/ s.jumped
=============================================================================
