----------------------------- MODULE Generation -----------------------------
(***************************************************************************)
(* A research document from the model's answer (services/claude.py,        *)
(* generate_research_document): ask, parse, validate, ask once more with   *)
(* the failed checks named, format.  An answer is a sequence of blocks     *)
(* under "## " headers and the scores at its end; a line is the record of  *)
(* what the checks and the formatter look for in it: its kind, what it     *)
(* says, whether it opens with a hedge.                                    *)
(***************************************************************************)
EXTENDS Integers, Sequences, FiniteSets, SequencesExt, Picking

CONSTANTS
    Answers,    \* [blocks |-> Seq([header, lines]), scores |-> record]: what the model may answer
    Validation, \* research_validation_enabled
    TightWriting    \* research_tight_writing_enabled

VARIABLES
    writing,    \* "idle", "asked", "parsed", "repairing", "kept", "done", "failed"
    answers,    \* the answers received, in order
    markdown,   \* full_markdown
    sections,   \* as stored
    scores

generationVars == <<writing, answers, markdown, sections, scores>>

Absent == -1    \* a score or a field the answer does not hold
NoAnswer == [blocks |-> <<>>, scores |-> [pain |-> Absent, fit |-> Absent, timing |-> Absent,
                                          composite |-> Absent, evidence |-> "absent"]]

(***************************************************************************)
(* Parsing.                                                                *)
(***************************************************************************)
Sections == {"edp", "before", "problems", "points", "tech", "fit", "gaps"}
\* The headers of an answer and the section each is read as; the others end a section and open none.
SectionOf(header) ==
    CASE header = "existential data points" -> {"edp"}
      [] header = "before scenario" -> {"before"}
      [] header \in {"stated business problems", "business problems"} -> {"problems"}
      [] header \in {"recommended talking points", "talking points for them"} -> {"points"}
      [] header \in {"product fit analysis", "acme fit analysis"} -> {"fit"}
      [] header = "confirmed technology stack" -> {"tech"}
      [] header = "information gaps" -> {"gaps"}
      [] OTHER -> {}

\* The last block of a section is the one that stays.
ParseSections(answer) ==
    [s \in Sections |->
        LET own == {i \in DOMAIN answer.blocks : s \in SectionOf(answer.blocks[i].header)} IN
        IF own = {} THEN <<>> ELSE answer.blocks[Max(own)].lines]

\* round(0.4 p + 0.35 f + 0.25 t), halves to the even neighbour (at some exact halves the sum of
\* the floating-point products falls on the other side, between the same bounds).
Composite(p, f, t) ==
    LET n == 40 * p + 35 * f + 25 * t
        up == n % 100 > 50 \/ (n % 100 = 50 /\ (n \div 100) % 2 = 1)
    IN n \div 100 + (IF up THEN 1 ELSE 0)

\* An evidence field with nothing in it takes the text that follows: only a missing one is empty.
ParseScores(answer) ==
    LET raw == answer.scores
        Read(n) == IF n > 100 THEN 100 ELSE n
        pain == Read(raw.pain)
        fit == Read(raw.fit)
        timing == Read(raw.timing)
    IN [pain |-> pain, fit |-> fit, timing |-> timing,
        composite |-> IF raw.composite # Absent \/ Absent \in {pain, fit, timing} THEN Read(raw.composite)
                      ELSE Composite(pain, fit, timing),
        evidence |-> IF raw.evidence = "empty" THEN "text" ELSE raw.evidence]

(***************************************************************************)
(* The checks.                                                             *)
(***************************************************************************)
Kinds(lines) == {lines[i].kind : i \in DOMAIN lines}

\* Each unit opens with its signal, and cites before the next signal opens.
EdpSourced(edp) ==
    \/ "none found" \in Kinds(edp)
    \/ /\ "signal" \in Kinds(edp)
       /\ \A i \in DOMAIN edp : edp[i].kind = "signal" =>
            \E j \in (i + 1)..Len(edp) :
                edp[j].kind = "sources" /\ \A k \in (i + 1)..j : edp[k].kind # "signal"
    \/ /\ "signal" \notin Kinds(edp)
       /\ "sources" \in Kinds(edp) \/ Len(edp) < 2     \* neither substantial nor in bullets

ConcretePain(secs) ==
    LET kinds == Kinds(secs["edp"]) \cup Kinds(secs["problems"]) \cup Kinds(secs["tech"]) IN
    kinds = {} \/ "sources" \in kinds \/ "detected" \in kinds

ScoresCalibrated(sc) ==
    LET three == {sc.pain, sc.fit, sc.timing} IN
    Absent \in three
    \/ /\ Cardinality(three) > 1
       /\ Max(three) - Min(three) > 8 \/ \E v \in three : v \notin 55..75
       /\ sc.evidence # "absent"

GenericFiller(secs) == "filler" \in Kinds(secs["edp"]) \cup Kinds(secs["problems"])

ValidateResearch(secs, sc) ==
    EdpSourced(secs["edp"]) /\ ConcretePain(secs) /\ ScoresCalibrated(sc) /\ ~GenericFiller(secs)
IsValid(answer) == ValidateResearch(ParseSections(answer), ParseScores(answer))

(***************************************************************************)
(* The formatter: hedges are taken off, bullets made alike, and a long     *)
(* line stays where it is said first in the order of Priority.             *)
(***************************************************************************)
Priority == [edp |-> 1, before |-> 2, problems |-> 3, points |-> 4]
IsLong(line) == line.kind # "label"
Unhedged(lines) == [i \in DOMAIN lines |-> [lines[i] EXCEPT !.hedged = FALSE]]

\* The lines that are said before, in a section that goes first or above in their own.
Repeated(secs, s) ==
    {i \in DOMAIN secs[s] :
        /\ IsLong(secs[s][i])
        /\ \/ \E r \in DOMAIN Priority : Priority[r] < Priority[s] /\ secs[s][i] \in ToSet(secs[r])
           \/ i \notin FirstPlaces(secs[s])}
DeduplicateAcrossSections(secs) ==
    [s \in Sections |-> IF s \in DOMAIN Priority THEN Picked(secs[s], DOMAIN secs[s] \ Repeated(secs, s)) ELSE secs[s]]
FormatSections(secs) == DeduplicateAcrossSections([s \in Sections |-> Unhedged(secs[s])])

-----------------------------------------------------------------------------
GenerationInit ==
    /\ writing = "idle"
    /\ answers = <<>>
    /\ markdown = NoAnswer
    /\ sections = ParseSections(NoAnswer)
    /\ scores = ParseScores(NoAnswer)

AskForResearch ==
    /\ writing = "idle"
    /\ writing' = "asked"
    /\ UNCHANGED <<answers, markdown, sections, scores>>

\* An error of the call, or an answer without choices: the run of the job fails.
GenerationFails ==
    /\ writing = "asked"
    /\ writing' = "failed"
    /\ UNCHANGED <<answers, markdown, sections, scores>>

Take(answer) ==
    /\ markdown' = answer
    /\ sections' = ParseSections(answer)
    /\ scores' = ParseScores(answer)

GenerationAnswers(answer) ==
    /\ writing = "asked"
    /\ Take(answer)
    /\ answers' = <<answer>>
    /\ writing' = IF Validation /\ ~IsValid(answer) THEN "repairing" ELSE "kept"

\* Mutant: the scores are those of the first answer, as parsed before the checks.
RepairText(answer) ==
    /\ writing = "repairing"
    /\ answers' = Append(answers, answer)
    /\ IF IsValid(answer)
       THEN markdown' = answer /\ sections' = ParseSections(answer) /\ UNCHANGED scores
       ELSE UNCHANGED <<markdown, sections, scores>>
    /\ writing' = "kept"

\* The repair that fails, or is no better, leaves the first answer.
RepairAnswers(answer) ==
    /\ writing = "repairing"
    /\ answers' = Append(answers, answer)
    /\ IF IsValid(answer) THEN Take(answer) ELSE UNCHANGED <<markdown, sections, scores>>
    /\ writing' = "kept"

RepairFails ==
    /\ writing = "repairing"
    /\ writing' = "kept"
    /\ UNCHANGED <<answers, markdown, sections, scores>>

Format ==
    /\ writing = "kept"
    /\ sections' = IF TightWriting THEN FormatSections(sections) ELSE sections
    /\ writing' = "done"
    /\ UNCHANGED <<answers, markdown, scores>>

GenerationNext ==
    \/ AskForResearch \/ GenerationFails \/ RepairFails \/ Format
    \/ \E answer \in Answers : GenerationAnswers(answer) \/ RepairAnswers(answer)

GenerationSpec == GenerationInit /\ [][GenerationNext]_generationVars

-----------------------------------------------------------------------------
GenerationTypeOK ==
    /\ writing \in {"idle", "asked", "repairing", "kept", "done", "failed"}
    /\ Len(answers) <= 2
    /\ \A n \in {scores.pain, scores.fit, scores.timing, scores.composite} : n \in Absent..100

\* A document is of one answer, its text, its sections and its scores, and of
\* a valid one if one was received: a repair is taken whole or not at all.
DocumentIsOneAnswer ==
    writing = "done" =>
        /\ \E i \in DOMAIN answers : markdown = answers[i]
        /\ scores = ParseScores(markdown)
        /\ sections = (IF TightWriting THEN FormatSections(ParseSections(markdown)) ELSE ParseSections(markdown))
        /\ Validation /\ (\E i \in DOMAIN answers : IsValid(answers[i])) => IsValid(markdown)

\* What the formatter takes out of a section is said, in the same document, in
\* a section of higher priority or earlier in the same one; nothing is said
\* twice in the sections it goes through.
FactsSaidOnce ==
    writing = "done" /\ TightWriting =>
        LET told == ParseSections(markdown)
            Held(s) == {line \in ToSet(sections[s]) : IsLong(line)}
        IN /\ \A s, r \in DOMAIN Priority : s # r => Held(s) \cap Held(r) = {}
           /\ \A s \in DOMAIN Priority : \A line \in ToSet(Unhedged(told[s])) :
                \E r \in DOMAIN Priority : Priority[r] <= Priority[s] /\ line \in ToSet(sections[r])
           /\ \A s \in Sections \ DOMAIN Priority : sections[s] = Unhedged(told[s])

\* The composite that is computed is a mean of the three scores: it lies between them.
CompositeIsMean ==
    writing = "done" /\ markdown.scores.composite = Absent /\ scores.composite # Absent =>
        \E low, high \in {scores.pain, scores.fit, scores.timing} : scores.composite \in low..high
=============================================================================
