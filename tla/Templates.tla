------------------------------ MODULE Templates ------------------------------
(***************************************************************************)
(* Task templates of two boards: saving and deleting them, stamping out a  *)
(* template with everything it depends on (CreateFromTemplate and          *)
(* crates/taskologic-core/src/template.rs), and the one shot modes of the  *)
(* daemon that carry a template with its dependencies to a board as a file *)
(* (crates/taskologicd/src/transfer.rs).                                   *)
(*                                                                         *)
(* A request reads the board's templates in the transaction that writes,   *)
(* so each is one step.  Of a draft only the name, the prefilled start and *)
(* the dependencies are kept; names are compared trimmed and without case, *)
(* which two different Names here are not.                                 *)
(***************************************************************************)
EXTENDS Integers, Deps, SequencesExt

CONSTANTS
  MaxTemplate,  \* bound: ids are 1..MaxTemplate, AUTOINCREMENT
  TemplateName,
  Lead,         \* a start_prefill in days, or Nothing
  MaxDeps,      \* bound on the dependencies of one template
  Nothing

VARIABLES
  template,     \* the table: a row or Nothing for each id
  nextTemplate, \* the next id
  file,         \* what the last export wrote
  overwritten,  \* an import has replaced a template
  made          \* what CreateFromTemplate stamped out last

templateVars == <<template, nextTemplate, file, overwritten, made>>

Home == {1, 2}
TemplateId == 1..MaxTemplate
\* template_input is given this id for a template that is not saved yet.
NewId == 0

Live == {t \in TemplateId : template[t] # Nothing}
OnBoard(b) == {t \in Live : template[t].board = b}

TemplatesInit ==
  /\ template = [t \in TemplateId |-> Nothing] /\ nextTemplate = 1
  /\ file = Nothing /\ overwritten = FALSE /\ made = Nothing

\* template_deps_graph: a link may name a template that is gone.
GraphOf(b) ==
  [t \in TemplateId \cup {NewId} |-> IF t \in OnBoard(b) THEN ToSet(template[t].deps) ELSE {}]

-----------------------------------------------------------------------------
(* Saving.                                                                 *)

\* Faulty variant: only a template naming itself is refused.
TemplateInputSelfOnly(b, id, deps) ==
  ToSet(deps) \subseteq OnBoard(b) /\ id \notin ToSet(deps)

\* template_input: dependencies are templates of the board and close no cycle.
TemplateInput(b, id, deps) ==
  /\ ToSet(deps) \subseteq OnBoard(b)
  /\ NoFirstCycle(GraphOf(b), id, ToSet(deps))

DepLists == UNION {[1..n -> TemplateId] : n \in 0..MaxDeps}

\* create_template: a fresh short id; ids stand for the ones drawn here.
CreateTemplate ==
  /\ nextTemplate <= MaxTemplate
  /\ \E b \in Home, n \in TemplateName, lead \in Lead, deps \in DepLists :
       /\ IsInjective(deps) /\ TemplateInput(b, NewId, deps)
       /\ template' = [template EXCEPT ![nextTemplate] =
            [board |-> b, name |-> n, short |-> nextTemplate, lead |-> lead, deps |-> deps]]
  /\ nextTemplate' = nextTemplate + 1
  /\ UNCHANGED <<file, overwritten, made>>

UpdateTemplate ==
  /\ \E t \in Live, n \in TemplateName, deps \in DepLists :
       /\ IsInjective(deps) /\ TemplateInput(template[t].board, t, deps)
       /\ template' = [template EXCEPT ![t] = [@ EXCEPT !.name = n, !.deps = deps]]
  /\ UNCHANGED <<nextTemplate, file, overwritten, made>>

\* Links to the template stay behind.
DeleteTemplate ==
  /\ \E t \in Live : template' = [template EXCEPT ![t] = Nothing]
  /\ UNCHANGED <<nextTemplate, file, overwritten, made>>

-----------------------------------------------------------------------------
(* Stamping out.                                                           *)

\* walk: emits t after what it depends on, each id once; an id met again
\* while it is being walked is a broken cycle.
RECURSIVE Walk(_, _, _)
Walk(links, t, st) ==
  IF t \in st.done \cup st.onStack THEN st
  ELSE LET below == FoldLeft(LAMBDA s, d : Walk(links, d, s),
                             [st EXCEPT !.onStack = @ \cup {t}], links[t])
       IN  [done |-> below.done \cup {t}, onStack |-> below.onStack \ {t},
            out |-> Append(below.out, t)]

\* The list of every template of the board, empty for any other id.
LinksOf(b) == [t \in TemplateId |-> IF t \in OnBoard(b) THEN template[t].deps ELSE <<>>]

\* expansion_order: without the root, which comes last.
ExpansionOrder(b, root) ==
  Front(Walk(LinksOf(b), root, [done |-> {}, onStack |-> {}, out |-> <<>>]).out)

\* start_for; a template without one starts when it is needed.
StartOf(b, t, anchor) ==
  IF t \in OnBoard(b) /\ template[t].lead # Nothing THEN anchor + template[t].lead ELSE anchor

\* hand_down: the earliest of the tasks that need a template dates it.
HandDown(b, anchors, from, at) ==
  [t \in TemplateId |->
     IF t \notin ToSet(LinksOf(b)[from]) THEN anchors[t]
     ELSE IF anchors[t] = Nothing \/ at < anchors[t] THEN at ELSE anchors[t]]

\* Faulty variant: in the order in which they are made.
PrefillAnchorsForwards(b, root, start) ==
  FoldLeft(
    LAMBDA anchors, t :
      LET at == IF anchors[t] = Nothing THEN start ELSE anchors[t]
      IN  HandDown(b, [anchors EXCEPT ![t] = at], t, StartOf(b, t, at)),
    HandDown(b, [t \in TemplateId |-> Nothing], root, start),
    ExpansionOrder(b, root))

\* prefill_anchors: backwards through the expansion order, so whoever needs
\* a template has handed its start down before it is read.
PrefillAnchors(b, root, start) ==
  FoldLeft(
    LAMBDA anchors, t :
      LET at == IF anchors[t] = Nothing THEN start ELSE anchors[t]
      IN  HandDown(b, [anchors EXCEPT ![t] = at], t, StartOf(b, t, at)),
    HandDown(b, [t \in TemplateId |-> Nothing], root, start),
    Reverse(ExpansionOrder(b, root)))

\* One task for each template in the order that still exists, then the main
\* one; it is the end of a behaviour here.
CreateFromTemplate ==
  /\ \E root \in Live, start \in {0, 1} :
       LET b == template[root].board
           anchors == PrefillAnchors(b, root, start)
           stamped == SelectSeq(ExpansionOrder(b, root), LAMBDA t : t \in Live)
       IN  made' = [root |-> root, start |-> start,
                    tasks |-> [i \in DOMAIN stamped |-> <<stamped[i], anchors[stamped[i]]>>]]
  /\ UNCHANGED <<template, nextTemplate, file, overwritten>>

-----------------------------------------------------------------------------
(* Files.                                                                  *)

\* export_template: the only one of that name, what it depends on first.
ExportTemplate ==
  /\ \E root \in Live :
       LET b == template[root].board
           order == SelectSeq(Append(ExpansionOrder(b, root), root), LAMBDA t : t \in OnBoard(b))
           Entry(t) == [name |-> template[t].name, short |-> template[t].short,
                        lead |-> template[t].lead,
                        deps |-> LET kept == SelectSeq(template[t].deps, LAMBDA d : d \in OnBoard(b))
                                 IN  [i \in DOMAIN kept |-> template[kept[i]].name]]
       IN  /\ \A t \in OnBoard(b) \ {root} : template[t].name # template[root].name
           /\ file' = [i \in DOMAIN order |-> Entry(order[i])]
  /\ UNCHANGED <<template, nextTemplate, overwritten, made>>

\* What an import of one entry does to the table, the next id and the names
\* known so far; "refuse" and a cycle undo the whole import.
ImportEntry(b, clash, st, e) ==
  LET existing == {t \in TemplateId : st.rows[t] # Nothing /\ st.rows[t].short = e.short}
      known == SelectSeq(e.deps, LAMBDA n : st.ids[n] # Nothing)
      deps == [i \in DOMAIN known |-> st.ids[known[i]]]
      have == CHOOSE t \in existing : TRUE
      new == st.next
  IN  IF ~ st.ok \/ (existing # {} /\ clash = "refuse") THEN [st EXCEPT !.ok = FALSE]
      ELSE IF existing = {} /\ st.ids[e.name] # Nothing THEN st
      ELSE IF existing # {} /\ clash = "replace"
      THEN [st EXCEPT !.rows[have] = [@ EXCEPT !.name = e.name, !.lead = e.lead, !.deps = deps],
                      !.ids[e.name] = have, !.over = TRUE]
      ELSE IF new > MaxTemplate THEN [st EXCEPT !.ok = FALSE]
      ELSE [st EXCEPT !.rows[new] = [board |-> b, name |-> e.name, lead |-> e.lead, deps |-> deps,
                                     short |-> IF existing = {} THEN e.short ELSE new],
                      !.ids[e.name] = new, !.next = @ + 1]

\* import_template; of templates with one name the last in the list counts.
ImportTemplate ==
  /\ file # Nothing
  /\ \E b \in Home, clash \in {"refuse", "new", "replace"} :
       LET Named(n) == {t \in OnBoard(b) : template[t].name = n}
           ids == [n \in TemplateName |-> IF Named(n) = {} THEN Nothing ELSE Max(Named(n))]
           done == FoldLeft(LAMBDA st, e : ImportEntry(b, clash, st, e),
                            [rows |-> template, ids |-> ids, next |-> nextTemplate,
                             over |-> overwritten, ok |-> TRUE], file)
       IN  /\ done.ok
           /\ template' = done.rows /\ nextTemplate' = done.next /\ overwritten' = done.over
  /\ UNCHANGED <<file, made>>

TemplatesNext ==
  /\ made = Nothing
  /\ \/ CreateTemplate \/ UpdateTemplate \/ DeleteTemplate \/ CreateFromTemplate
     \/ ExportTemplate \/ ImportTemplate

-----------------------------------------------------------------------------
\* "Assumes the graph is a DAG, which first_cycle guarantees at save time":
\* no sequence of saves, deletions and imports closes a cycle among the
\* templates of a board, as long as no import has replaced one.  (One that
\* replaces asks about a template that does not exist yet, NewId: the cycle
\* is then reachable.)
TemplatesStayDag == overwritten \/ \A b \in Home : Acyclic(GraphOf(b))

\* CreateFromTemplate makes a task of each template the root needs, however
\* far away, and no other, each once; if the graph is a DAG, each after the
\* ones it depends on, and counted from the earliest task that needs it.
StampedRight ==
  made # Nothing =>
    LET b == template[made.root].board
        links == [t \in TemplateId |-> ToSet(LinksOf(b)[t])]
        needed == {t \in TemplateId \ {made.root} : Reaches(links, made.root, t)}
        n == Len(made.tasks)
        Tpl(i) == made.tasks[i][1]
        Anchor(i) == made.tasks[i][2]
        Needs(i, j) == Tpl(j) \in links[Tpl(i)]
        Starts(j) == (IF Tpl(j) \in links[made.root] THEN {made.start} ELSE {}) \cup
                     {StartOf(b, Tpl(i), Anchor(i)) : i \in {i \in 1..n : Needs(i, j)}}
    IN  /\ {Tpl(i) : i \in 1..n} = needed \cap Live /\ n = Cardinality(needed \cap Live)
        /\ Acyclic(GraphOf(b)) =>
             \A j \in 1..n : /\ \A i \in 1..n : Needs(i, j) => j < i
                             /\ Anchor(j) = Min(Starts(j))
=============================================================================
