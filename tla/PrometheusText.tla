--------------------------- MODULE PrometheusText ---------------------------
(***************************************************************************)
(* The text that grafanaMetricGenerator_t::generateMetric appends for one  *)
(* metric, and a reference definition of what the exposition format of     *)
(* Prometheus asks of it.                                                  *)
(*                                                                         *)
(* The text is a sequence of tokens.  The help text and the values of the  *)
(* labels are given character by character, as escaping is what can go     *)
(* wrong; the rest (names, data, time, punctuation) is one token each.     *)
(***************************************************************************)
EXTENDS Integers, Sequences, SequencesExt

CONSTANTS
  Characters,  \* the characters of the configured texts
  Helps,       \* the help texts considered
  LabelLists,  \* the lists of label values considered
  MaxLength    \* bound on the length of a text

Quote == "quote"
Backslash == "backslash"
NewLine == "newline"

ASSUME TextAssumption ==
  /\ {Quote, Backslash, NewLine} \subseteq Characters
  /\ Helps \subseteq Seq(Characters)
  /\ LabelLists \subseteq Seq(Seq(Characters))
  /\ MaxLength \in Nat
  /\ \A text \in Helps : Len(text) <= MaxLength
  /\ \A values \in LabelLists :
       \A k \in DOMAIN values : Len(values[k]) <= MaxLength

VARIABLES
  help,    \* helpStr
  labels,  \* the values of labels
  pc,      \* where generateMetric is
  nth,     \* the label that generateLabel writes
  work,    \* workStr of the escaping function
  pos,     \* its index, from 1
  out      \* outStr

inputs == <<help, labels>>
vars == <<inputs, pc, nth, work, pos, out>>

Init ==
  /\ help \in Helps
  /\ labels \in LabelLists
  /\ pc = "help"
  /\ nth = 1
  /\ work = <<>>
  /\ pos = 1
  /\ out = <<>>

Emit(tokens) == out' = out \o tokens

-----------------------------------------------------------------------------
(* escapeLabelStr and escapeHelpStr: one round of the loop. *)

(* Mistakes: backslashes are forgotten; quotes are escaped as in labels. *)
MustEscapeQuote == {Quote}
MustEscapeAsInLabel == {Quote, Backslash}

MustEscapeInLabel == {Quote, Backslash}
MustEscapeInHelp == {Backslash}

(* Mistake: the index is not moved behind the character that was escaped. *)
EscapeAgain(special) ==
  /\ pos <= Len(work)
  /\ IF work[pos] \in special
     THEN work' = InsertAt(work, pos, Backslash)
     ELSE UNCHANGED work
  /\ pos' = pos + 1
  /\ UNCHANGED <<inputs, pc, nth, out>>

(* After an insertion the index moves on by two, and by the increment of   *)
(* the loop.                                                               *)
Escape(special) ==
  /\ pos <= Len(work)
  /\ IF work[pos] \in special
     THEN /\ work' = InsertAt(work, pos, Backslash)
          /\ pos' = pos + 3
     ELSE /\ pos' = pos + 1
          /\ UNCHANGED work
  /\ UNCHANGED <<inputs, pc, nth, out>>

StartEscape(text) == work' = text /\ pos' = 1

-----------------------------------------------------------------------------
(* generateHelp, generateType, generateDataLine and generateLabel. *)

SkipHelp ==
  /\ pc = "help"
  /\ help = <<>>
  /\ pc' = "type"
  /\ UNCHANGED <<inputs, nth, work, pos, out>>

StartHelp ==
  /\ pc = "help"
  /\ help # <<>>
  /\ StartEscape(help)
  /\ pc' = "escapeHelp"
  /\ Emit(<<"# HELP ", "name", " ">>)
  /\ UNCHANGED <<inputs, nth>>

EscapeHelpStr == pc = "escapeHelp" /\ Escape(MustEscapeInHelp)

EndHelp ==
  /\ pc = "escapeHelp"
  /\ pos > Len(work)
  /\ Emit(work \o <<NewLine>>)
  /\ pc' = "type"
  /\ UNCHANGED <<inputs, nth, work, pos>>

GenerateType ==
  /\ pc = "type"
  /\ Emit(<<"# TYPE ", "name", NewLine, "type", NewLine>>)
  /\ pc' = "line"
  /\ UNCHANGED <<inputs, nth, work, pos>>

GenerateDataLine ==
  /\ pc = "line"
  /\ Emit(IF labels = <<>> THEN <<"name">> ELSE <<"name", "{">>)
  /\ pc' = IF labels = <<>> THEN "data" ELSE "label"
  /\ UNCHANGED <<inputs, nth, work, pos>>

StartLabel ==
  /\ pc = "label"
  /\ nth \in DOMAIN labels
  /\ Emit(<<"label", "=", Quote>>)
  /\ StartEscape(labels[nth])
  /\ pc' = "escapeLabel"
  /\ UNCHANGED <<inputs, nth>>

EscapeLabelStr == pc = "escapeLabel" /\ Escape(MustEscapeInLabel)

EndLabel ==
  /\ pc = "escapeLabel"
  /\ pos > Len(work)
  /\ Emit(work \o <<Quote, ",">>)
  /\ nth' = nth + 1
  /\ pc' = "label"
  /\ UNCHANGED <<inputs, work, pos>>

(* The last comma is taken back. *)
EndLabels ==
  /\ pc = "label"
  /\ nth \notin DOMAIN labels
  /\ out' = (IF Last(out) = "," THEN Front(out) ELSE out) \o <<"}">>
  /\ pc' = "data"
  /\ UNCHANGED <<inputs, nth, work, pos>>

AppendData ==
  /\ pc = "data"
  /\ Emit(<<" ", "data", " ", "time", NewLine>>)
  /\ pc' = "done"
  /\ UNCHANGED <<inputs, nth, work, pos>>

Next ==
  \/ SkipHelp \/ StartHelp \/ EscapeHelpStr \/ EndHelp
  \/ GenerateType
  \/ GenerateDataLine \/ StartLabel \/ EscapeLabelStr \/ EndLabel
  \/ EndLabels \/ AppendData

Spec == Init /\ [][Next]_vars

-----------------------------------------------------------------------------
(* Reference: the lines that the format asks for. *)

Escaped(text, special) ==
  FlattenSeq([k \in DOMAIN text |->
    IF text[k] = NewLine THEN <<Backslash, "n">>
    ELSE IF text[k] \in special THEN <<Backslash, text[k]>>
    ELSE <<text[k]>>])

Pair(value) ==
  <<"label", "=", Quote>> \o Escaped(value, {Quote, Backslash}) \o <<Quote>>

(* The pairs of a list of values, each after the first behind a comma. *)
Pairs ==
  FlattenSeq([k \in DOMAIN labels |->
    (IF k = 1 THEN <<>> ELSE <<",">>) \o Pair(labels[k])])

DataLine ==
  <<"name">> \o (IF labels = <<>> THEN <<>> ELSE <<"{">> \o Pairs \o <<"}">>)
    \o <<" ", "data", " ", "time", NewLine>>

HelpLine ==
  IF help = <<>> THEN <<>>
  ELSE <<"# HELP ", "name", " ">> \o Escaped(help, {Backslash}) \o <<NewLine>>

(* Texts that the loop escapes rightly: it does not look at the character  *)
(* after an escaped one, and knows no escape for line breaks.              *)
Simple(text, special) ==
  \A k \in DOMAIN text :
    /\ text[k] # NewLine
    /\ text[k] \in special /\ k > 1 => text[k - 1] \notin special

Done == pc = "done"

-----------------------------------------------------------------------------

(***************************************************************************)
(* Every variable holds a value of its type; the escaped text is at most   *)
(* twice as long as the text, so the loop ends.                            *)
(***************************************************************************)
TypeOK ==
  /\ help \in Helps
  /\ labels \in LabelLists
  /\ pc \in {"help", "escapeHelp", "type", "line", "label", "escapeLabel",
             "data", "done"}
  /\ nth \in 1 .. Len(labels) + 1
  /\ work \in Seq(Characters)
  /\ Len(work) <= 2 * MaxLength
  /\ pos \in Nat \ {0}

(***************************************************************************)
(* The line of the data reads back to the label values, any number of      *)
(* them, if no value has a line break or two neighbours to be escaped.     *)
(***************************************************************************)
LabelsReadBack ==
  Done /\ (\A k \in DOMAIN labels : Simple(labels[k], {Quote, Backslash}))
    => IsSuffix(DataLine, out)

(***************************************************************************)
(* The help line reads back to the help text, if that has no line break    *)
(* and no two neighbouring backslashes.                                    *)
(***************************************************************************)
HelpReadsBack == Done /\ Simple(help, {Backslash}) => IsPrefix(HelpLine, out)

=============================================================================
