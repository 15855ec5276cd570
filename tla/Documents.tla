------------------------------ MODULE Documents ------------------------------
(***************************************************************************)
(* The text of window-switcher.ini and what the program does with it:      *)
(* completing it from the shipped template without touching a value of the *)
(* user, editing the one assignment that is in force, and reading a        *)
(* configuration from it (config/document.rs, config/schema.rs,            *)
(* config/bindings.rs).  A document is a sequence of blocks, the lines     *)
(* under one section header; the first block has no header.  The same      *)
(* section may be opened again.  An assignment whose quote or continuation *)
(* runs over more lines has them in "rest".                                *)
(***************************************************************************)
EXTENDS Naturals, Sequences, SequencesExt

CONSTANTS Template,  \* the shipped document
          Domain,    \* entry -> the values its parser accepts
          Bindings,  \* the hotkeys: an entry and the entries that switch it on
          None

Block(s, lines) == [section |-> s, lines |-> lines]
Note(e) == [kind |-> "note", entry |-> e]    \* the comment that names an entry
Assign(k, v) == [kind |-> "assign", key |-> k, value |-> v, rest |-> <<>>]
Junk == [kind |-> "junk"]                    \* a line no parser accepts

Entry(s, k) == [section |-> s, key |-> k]
Tray == Entry("", "trayicon")
Paused == Entry("input", "paused")
PauseKey == Entry("input", "pause_hotkey")

Is(line, key) == line.kind = "assign" /\ line.key = key
Lines(doc) == UNION {Range(doc[b].lines) : b \in DOMAIN doc}
Parses(doc) == Junk \notin Lines(doc)

AssignedIn(block) ==
  {Entry(block.section, line.key) : line \in {l \in Range(block.lines) : l.kind = "assign"}}
Written(doc) == UNION {AssignedIn(doc[b]) : b \in DOMAIN doc}
Blank(doc) == Written(doc) = {}
Empty == <<Block("", <<>>)>>

Assignments(block, e) ==
  IF block.section = e.section THEN SelectSeq(block.lines, LAMBDA line : Is(line, e.key)) ELSE <<>>

\* Every assignment of an entry, in order, duplicates too.
Values(doc, e) == FlattenSeq([b \in DOMAIN doc |-> Assignments(doc[b], e)])

(***************************************************************************)
(* The configuration in a document.  The first block of a section is in    *)
(* force; an entry written only in a later one keeps the last value that   *)
(* was validated.                                                          *)
(***************************************************************************)
TemplateEntries ==
  FlattenSeq([b \in DOMAIN Template |->
    LET assigned == SelectSeq(Template[b].lines, LAMBDA line : line.kind = "assign")
    IN [n \in DOMAIN assigned |-> Entry(Template[b].section, assigned[n].key)]])
Settings == Range(TemplateEntries)
Default == [e \in Settings |-> Values(Template, e)[1].value]

Opens(doc, s) == {b \in DOMAIN doc : doc[b].section = s}
InForce(doc, e) ==
  LET first == Assignments(doc[Min(Opens(doc, e.section))], e)
  IN IF first # <<>> THEN Head(first) ELSE Last(Values(doc, e))

Config(doc) ==
  [e \in Settings |-> IF e \in Written(doc) THEN InForce(doc, e).value ELSE Default[e]]

\* Features that are on and their hotkeys; an empty hotkey is none at all.
Bound(config) ==
  {b \in Bindings : config[b.key] # "" /\ \A e \in b.when : config[e] = "yes"}

\* Config::load: every value is validated, the duplicates too.
Valid(config) ==
  /\ \A a, b \in Bound(config) : config[a.key] = config[b.key] => a = b
  /\ config[Paused] = "yes" => config[Tray] = "yes" \/ config[PauseKey] # ""
Loads(doc) ==
  /\ Parses(doc)
  /\ \A e \in Settings \cap Written(doc) :
       \A line \in Range(Values(doc, e)) : line.rest = <<>> /\ line.value \in Domain[e]
  /\ Valid(Config(doc))

\* reload::load_snapshot
Usable(doc) == Parses(doc) /\ ~Blank(doc) /\ Loads(doc)

(***************************************************************************)
(* merge_missing.  What is missing of an entry goes before its first       *)
(* assignment, to the end of its section, or to a new one at the end of    *)
(* the text.                                                               *)
(***************************************************************************)
NeverDocumented(doc, e) == FALSE \* a mutant: a note of before is not recognised
Documented(doc, e) == Note(e) \in Lines(doc)

Missing(doc, e) ==
  (IF Documented(doc, e) THEN <<>> ELSE <<Note(e)>>)
    \o (IF e \in Written(doc) THEN <<>> ELSE <<Assign(e.key, Default[e])>>)
MissingOf(doc, entries) == FlattenSeq([n \in DOMAIN entries |-> Missing(doc, entries[n])])

First(S, default) == IF S = {} THEN default ELSE Min(S)
BlockOf(doc, e) ==
  First({b \in DOMAIN doc : e \in AssignedIn(doc[b])}, First(Opens(doc, e.section), Len(doc) + 1))

\* What is inserted in block b before line i, or at its end.
Inserted(doc, b, i) ==
  LET block == doc[b]
      here(e) == /\ BlockOf(doc, e) = b
                 /\ i = First({n \in DOMAIN block.lines : Is(block.lines[n], e.key)}, Len(block.lines) + 1)
  IN MissingOf(doc, SelectSeq(TemplateEntries, here))

CompletedBlock(doc, b) ==
  LET lines == doc[b].lines
  IN Block(doc[b].section,
           FlattenSeq([i \in 1..Len(lines) |-> Inserted(doc, b, i) \o <<lines[i]>>])
             \o Inserted(doc, b, Len(lines) + 1))

NewBlocks(doc) ==
  LET new == SelectSeq(Template, LAMBDA block : Opens(doc, block.section) = {})
  IN [n \in DOMAIN new |->
        Block(new[n].section,
              MissingOf(doc, SelectSeq(TemplateEntries, LAMBDA e : e.section = new[n].section)))]

Completed(doc) == [b \in DOMAIN doc |-> CompletedBlock(doc, b)] \o NewBlocks(doc)

Keeps(before, after, entries) == \A e \in entries : Values(after, e) = Values(before, e)

\* The completed document, or None: the completion would change a value.
Checked(doc, merged) ==
  IF /\ Parses(doc) /\ Parses(merged)
     /\ Settings \subseteq Written(merged) /\ Keeps(doc, merged, Written(doc))
  THEN merged ELSE None
Merge(doc) == Checked(doc, Completed(doc))

(***************************************************************************)
(* set_value: the document with the first assignment of one entry replaced *)
(* and everything else as it was, or None.                                 *)
(***************************************************************************)
Opposite(v) == IF v = "yes" THEN "no" ELSE "yes"

Replaced(doc, e, v) ==
  LET b == BlockOf(doc, e)
      i == Min({n \in DOMAIN doc[b].lines : Is(doc[b].lines[n], e.key)})
  IN [doc EXCEPT ![b].lines[i] = Assign(e.key, v)]

\* Only this entry has changed, in the first assignment, and is in force.
Verified(doc, updated, e, v) ==
  IF /\ Keeps(doc, updated, Written(doc) \ {e})
     /\ e \in Written(doc) => Tail(Values(updated, e)) = Tail(Values(doc, e))
     /\ Assign(e.key, v) \in Range(Assignments(updated[Min(Opens(updated, e.section))], e))
     /\ InForce(updated, e) = Assign(e.key, v)
  THEN updated ELSE None
SetIn(doc, merged, e, v) ==
  IF merged = None THEN None ELSE Verified(doc, Replaced(merged, e, v), e, v)
SetValue(doc, e, v) == SetIn(doc, Merge(doc), e, v)
=============================================================================
