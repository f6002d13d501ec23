------------------------------ MODULE LineAssembly ------------------------------
(***************************************************************************)
(* From the bytes of a command to its lines (pty.rs: pump, LineAssembler,  *)
(* emit, strip_ansi).  A carriage return redraws the line it ends, unless  *)
(* a newline follows; escape sequences are taken out of whole lines; what  *)
(* is then empty is activity and no line.                                  *)
(*                                                                         *)
(* A command prints tokens: text, line ends and control sequences, each of *)
(* which is some bytes.  Reads may split a token anywhere, which does not  *)
(* show: feed takes one byte after the other, and those of a token that    *)
(* ends no line are all pushed.                                            *)
(* Bound: MaxTokens.                                                       *)
(***************************************************************************)
EXTENDS Integers, Sequences, FiniteSets, SequencesExt

CONSTANTS MaxTokens, Texts   \* Texts: the characters of a text

VARIABLES
  printed,  \* the tokens of the command
  asm,      \* the LineAssembler: [pending, held, some, cr]; held is last_overwritten, if some
  lines     \* the lines that are stored

assemblyVars == <<printed, asm, lines>>

ESC == "esc"
Breaks == {"CR", "LF"}
Controls == {"style", "key"}
Tokens == Texts \cup Breaks \cup Controls

(* A character is no token of another kind. *)
ASSUME TextsAssumption == Texts \cap (Breaks \cup Controls \cup {ESC}) = {}

(* style is ESC [ 1 m; key is ESC [ 3 ~, a sequence that does not end in a letter. *)
Bytes(token) ==
  CASE token = "style" -> <<ESC, "[", "1", "m">>
    [] token = "key"   -> <<ESC, "[", "3", "~">>
    [] OTHER           -> <<token>>
Letters == (Texts \cup {"m"}) \ {"1", "3", "~"}

(* strip_ansi: [at, out] after one character more. *)
StripChar(s, c) ==
  CASE s.at = "csi" -> [s EXCEPT !.at = IF c \in Letters THEN "text" ELSE "csi"]
    [] s.at = "esc" -> [s EXCEPT !.at = IF c = "[" THEN "csi" ELSE "text"]
    [] OTHER -> IF c = ESC THEN [s EXCEPT !.at = "esc"] ELSE [s EXCEPT !.out = Append(@, c)]
Stripped(line) ==
  LET after[k \in 0..Len(line)] ==
        IF k = 0 THEN [at |-> "text", out |-> <<>>] ELSE StripChar(after[k - 1], line[k])
  IN  after[Len(line)]
StripAnsi(line) == Stripped(line).out

(* emit: an empty line is not stored. *)
Emitted(line) == IF StripAnsi(line) = <<>> THEN lines ELSE Append(lines, StripAnsi(line))

AssemblyInit ==
  /\ printed = <<>> /\ lines = <<>>
  /\ asm = [pending |-> <<>>, held |-> <<>>, some |-> FALSE, cr |-> FALSE]

Write(token) == Len(printed) < MaxTokens /\ printed' = Append(printed, token)

(* What a newline completes: after a carriage return the text that the return held.
   Mutant: what came after it. *)
LineIgnoringReturn == asm.pending
CompletedLine == IF asm.cr /\ asm.some THEN asm.held ELSE asm.pending

Newline ==
  /\ Write("LF")
  /\ lines' = Emitted(CompletedLine)
  /\ asm' = [ pending |-> IF asm.cr /\ asm.some THEN asm.pending ELSE <<>>,
              held |-> <<>>, some |-> FALSE, cr |-> FALSE ]

CarriageReturn ==
  /\ Write("CR")
  /\ asm' = [pending |-> <<>>, held |-> asm.pending, some |-> TRUE, cr |-> TRUE]
  /\ UNCHANGED lines

(* Any other byte is pushed. *)
Push(token) ==
  /\ Write(token)
  /\ asm' = [asm EXCEPT !.pending = @ \o Bytes(token), !.cr = FALSE]
  /\ UNCHANGED lines

(* At the end of the output: the text without a newline, or the frame a final carriage
   return left on the screen. *)
Finished ==
  IF asm.pending # <<>> THEN asm.pending ELSE IF asm.some THEN asm.held ELSE <<>>
Stored == Emitted(Finished)

AssemblyNext == Newline \/ CarriageReturn \/ \E token \in Tokens \ Breaks : Push(token)

AssemblySpec == AssemblyInit /\ [][AssemblyNext]_assemblyVars

----------------------------------------------------------------------------
(* What a terminal would have left of each line: the text of its last frame. *)

(* The text in the last frame of the line that ends at e: nothing ends a line or draws it
   anew in between, as a return right before its end does not.  (A second one does:
   "abc\r\r\n" is an empty line, although the screen keeps abc.  So is a redraw that only
   sets a style: after "abc\r", a style and "\n", nothing of abc is stored.) *)
FrameText(tokens, e) ==
  {k \in 1..(e - 1) :
     /\ tokens[k] \in Texts
     /\ \A n \in (k + 1)..(e - 1) : tokens[n] # "LF" /\ (tokens[n] = "CR" => n = e - 1)}

(* Where lines end that have text: at newlines, and at the end of the output. *)
LineEnds(tokens) ==
  {e \in 1..(Len(tokens) + 1) :
     (e \in DOMAIN tokens => tokens[e] = "LF") /\ FrameText(tokens, e) # {}}

(* The place of k among some numbers. *)
Rank(k, numbers) == Cardinality({n \in numbers : n <= k})

(* The line has the texts that are at some places, in their order. *)
Spells(line, tokens, places) ==
  Len(line) = Cardinality(places) /\ \A k \in places : line[Rank(k, places)] = tokens[k]

(* The stored lines are the last frame of each line, styles taken out and empty lines left
   out: "Treating it as a terminator (as this code used to) stores one line per redraw
   frame" (pty.rs, LineAssembler).  Sequences that do not end in a letter are beyond
   strip_ansi: it takes the text after them for the rest of the sequence. *)
LinesAreLastFrames ==
  ~Contains(printed, "key") =>
    LET ends == LineEnds(printed)
    IN  /\ Len(Stored) = Cardinality(ends)
        /\ \A e \in ends : Spells(Stored[Rank(e, ends)], printed, FrameText(printed, e))
=============================================================================
