---------------------------- MODULE WorkflowEdit ----------------------------
(***************************************************************************)
(* How the answer of the model that edits WORKFLOW.md becomes a new file:  *)
(* a unified diff is applied, a lone configuration block replaces the one  *)
(* there is, anything else is the whole file.                              *)
(*                                                                         *)
(* A file is a sequence of lines; its toml block is one of them.  A line of*)
(* a diff is its marker and its text; the header of a hunk has the old line*)
(* number it starts at in place of the text.                               *)
(***************************************************************************)
EXTENDS Integers, Sequences, SequencesExt

CONSTANTS
    GoodBlock, BadBlock,   \* toml blocks the parser accepts, and refuses
    Heading,               \* the lines that only a complete file has
    Refused                \* for a diff that does not fit the file

-----------------------------------------------------------------------------
(* Applying a unified diff to the lines of a file. *)

Hunk(start) == [marker |-> "@@", text |-> start]
OldStart(line) == line.text
Matches(original, index, text) == index < Len(original) /\ original[index + 1] = text

(* One line of the diff: at counts the lines of the original already dealt with. *)
PatchLine(original, done, line) ==
    LET start == OldStart(line) - 1
        matches == Matches(original, done.at, line.text)
        refused == [done EXCEPT !.fits = FALSE] IN
    IF ~done.fits THEN done
    ELSE CASE line.marker = "@@" ->
                IF start < done.at \/ start > Len(original) THEN refused
                ELSE [done EXCEPT !.out = @ \o SubSeq(original, done.at + 1, start),
                                  !.at = start, !.inside = TRUE]
           [] line.marker # "@@" /\ (~done.inside \/ line.marker = "\\") -> done
           [] done.inside /\ line.marker = " " /\ matches ->
                [done EXCEPT !.out = Append(@, line.text), !.at = @ + 1]
           [] done.inside /\ line.marker = "-" /\ matches -> [done EXCEPT !.at = @ + 1]
           [] done.inside /\ line.marker = "+" -> [done EXCEPT !.out = Append(@, line.text)]
           [] OTHER -> refused

Patched(original, diff) ==
    LET none == [out |-> <<>>, at |-> 0, inside |-> FALSE, fits |-> TRUE]
        done == FoldLeft(LAMBDA d, line : PatchLine(original, d, line), none, diff) IN
    IF done.fits THEN done.out \o SubSeq(original, done.at + 1, Len(original)) ELSE Refused

-----------------------------------------------------------------------------
(* Reading the model's answer: a diff, or a file. *)

BlockAt(file) == SelectInSeq(file, LAMBDA line : line \in GoodBlock \cup BadBlock)
HasBlock(file) == BlockAt(file) # 0
Valid(file) == HasBlock(file) /\ file[BlockAt(file)] \in GoodBlock
Complete(file) == \E line \in Heading : Contains(file, line)

(* The answer's block in the file there is, if both have one. *)
BlockReplaced(current, file) ==
    IF HasBlock(current) /\ HasBlock(file)
    THEN [current EXCEPT ![BlockAt(current)] = file[BlockAt(file)]]
    ELSE Refused

(* A diff that fits; else a block alone, the answer itself, or the block of an answer    *)
(* that has more, the first that is valid; else the answer as it is.                     *)
Normalized(current, answer) ==
    LET patched == IF answer.diff = <<>> THEN Refused ELSE Patched(current, answer.diff)
        replaced == BlockReplaced(current, answer.file)
        usable == replaced # Refused /\ Valid(replaced) IN
    CASE patched # Refused -> patched
      [] patched = Refused /\ usable /\ ~Complete(answer.file) -> replaced
      [] OTHER -> IF Valid(answer.file) \/ ~usable THEN answer.file ELSE replaced

\* Without a model the request becomes a note at the end of the instructions.
Noted(current, request) ==
    IF request = <<>> THEN current ELSE current \o request

(* The proposal: nothing is asked, nobody answers, the model fails, or it answers. *)
Proposed(current, request, answer) ==
    CASE request = <<>> \/ answer.kind = "error" -> current
      [] request # <<>> /\ answer.kind = "none" -> Noted(current, request)
      [] request # <<>> /\ answer.kind = "text" -> Normalized(current, answer)

Proposal(current, request, answer) ==
    LET file == Proposed(current, request, answer) IN
    [file |-> file, error |-> answer.kind = "error" \/ ~Valid(file)]
=============================================================================
