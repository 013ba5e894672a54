------------------------------ MODULE Writing -------------------------------
(***************************************************************************)
(* Outreach written from a document (services/writing): a sequence of      *)
(* three emails, or one message for LinkedIn, by calls of a model whose    *)
(* answers are parsed, repaired, shortened, rescued and validated.         *)
(*   An email is its number, its words and its subject; a message is the   *)
(* sequence of its sentences, each with its words, its width, whether it   *)
(* asks, whether it names the company before or after a cut, and whether   *)
(* it holds terms the seller should not use or phrases nobody should.      *)
(***************************************************************************)
EXTENDS Integers, Sequences, SequencesExt

CONSTANTS
    Drafts,     \* sequences of emails the model may write, with their subjects: [emails, subjects]
    Shortened,  \* words of an email it was asked to shorten
    Messages    \* messages it may write

VARIABLES
    at,         \* where the work is
    channel,    \* "email", "dm" or "connection_request"
    emails, subjects,
    message,
    resume,     \* what follows the normalization of the message: "first", "anchored", "spliced"
    pass,       \* passes of shortening
    calls       \* calls of the model

Sentences ==
    [words : Nat, wide : BOOLEAN, asks : BOOLEAN, names : {"no", "early", "late"}, blocked : BOOLEAN, banned : BOOLEAN]

(* A model writes finitely many emails, and counts of words are numbers.   *)
ASSUME WritingConstants ==
    /\ \A d \in Drafts : IsFiniteSet(d.emails) /\ \A e \in d.emails : e.words \in Nat
    /\ Shortened \subseteq Nat /\ Messages \subseteq Seq(Sentences)

writingVars == <<at, channel, emails, subjects, message, resume, pass, calls>>
emailVars == <<emails, subjects, pass>>
messageVars == <<message, resume>>

WordLimit == <<75, 100, 60>>
LinkedInLimit(mode) == IF mode = "dm" THEN 90 ELSE 45
LinkedInLeast(mode) == IF mode = "dm" THEN 40 ELSE 20
MaxChars == 300
Failed == -1    \* the words of a call that raised

Asked == calls' = calls + 1

(***************************************************************************)
(* Emails.                                                                 *)
(***************************************************************************)
\* Lower case and no exclamation are made; a length, a digit or "ai" is only found.
FixSubject(subject) == IF subject = "loud" THEN "fine" ELSE subject
WithSubject(es, subject) == {[e EXCEPT !.subject = subject] : e \in es}

ParseEmails(draft) == {[number |-> e.number, words |-> e.words, subject |-> draft.subjects[1]] : e \in draft.emails}
ValidSequence(es) ==
    /\ Cardinality(es) = 3
    /\ {e.number : e \in es} = 1..3
    /\ \A e \in es : e.subject # "blank" /\ e.words > 0

\* An email of any other number is held to a hundred words.
Limit(e) == IF e.number \in DOMAIN WordLimit THEN WordLimit[e.number] ELSE 100
OverLimit(es) == {e \in es : e.words > Limit(e)}

(***************************************************************************)
(* Messages.                                                               *)
(***************************************************************************)
Words(m) == SumFunctionOnSet([i \in DOMAIN m |-> m[i].words], DOMAIN m)
Width(sentence) == IF sentence.wide THEN 9 ELSE 6
Chars(m) == SumFunctionOnSet([i \in DOMAIN m |-> m[i].words * Width(m[i])], DOMAIN m)
Names(m) == \E i \in DOMAIN m : m[i].names # "no"
AsksLast(m) == m # <<>> /\ m[Len(m)].asks
OneQuestion(m) == AsksLast(m) /\ \A i \in 1..(Len(m) - 1) : ~m[i].asks
IsBlocked(m) == \E i \in DOMAIN m : m[i].blocked

\* The sentences that fit.
First(m, k) == SubSeq(m, 1, k)
WithinWords(m, limit) == First(m, Max({k \in 0..Len(m) : Words(First(m, k)) <= limit}))
WithinChars(m) == First(m, Max({k \in 0..Len(m) : Chars(First(m, k)) <= MaxChars}))
\* A sentence cut in the middle asks nothing and loses what it would have named late.
CutTo(s, words) == [s EXCEPT !.words = words, !.asks = FALSE, !.names = IF @ = "late" THEN "no" ELSE @]

TrimToWordLimit(m, limit) ==
    IF Words(m) <= limit THEN m
    ELSE LET kept == WithinWords(m, limit) IN
         IF kept # <<>> THEN kept ELSE <<CutTo(m[1], limit)>>

\* At the last end of a sentence after the first hundred characters, or where the limit falls.
TrimChars(m) ==
    LET kept == WithinChars(m)
        next == m[Len(kept) + 1]
        room == (MaxChars - Chars(kept)) \div Width(next)
    IN IF Chars(kept) > 100 THEN kept ELSE Append(kept, CutTo(next, room))

DeterministicAnchorInsert(m) == <<[m[1] EXCEPT !.words = @ + 2, !.names = "early"]>> \o Tail(m)

\* The first check a message fails.
Fault(m, mode) ==
    CASE ~OneQuestion(m) -> "question"
      [] OneQuestion(m) /\ Words(m) < LinkedInLeast(mode) -> "short"
      [] OneQuestion(m) /\ Words(m) > LinkedInLimit(mode) + 10 -> "long"
      [] OneQuestion(m) /\ mode = "connection_request" /\ Chars(m) > MaxChars -> "characters"
      [] OneQuestion(m) /\ \E i \in DOMAIN m : m[i].banned -> "phrase"
      [] OneQuestion(m) /\ ~Names(m) -> "anchor"
      [] OTHER -> "none"

-----------------------------------------------------------------------------
WritingInit ==
    /\ at = "idle"
    /\ channel = "email"
    /\ emails = {}
    /\ subjects = <<>>
    /\ message = <<>>
    /\ resume = "first"
    /\ pass = 0
    /\ calls = 0

StartWriting(c) ==
    /\ at = "idle"
    /\ channel' = c
    /\ at' = IF c = "email" THEN "drafting" ELSE "composing"
    /\ UNCHANGED <<emailVars, messageVars, calls>>

\* A call that is not guarded raises: nothing is written.
CallRaises ==
    /\ at \in {"drafting", "composing", "reprompting"}
    /\ Asked
    /\ at' = "failed"
    /\ UNCHANGED <<channel, emailVars, messageVars>>

\* Subjects are cleaned before the sequence is looked at.
DraftSequence(draft) ==
    /\ at = "drafting"
    /\ Asked
    /\ LET fixed == [i \in DOMAIN draft.subjects |-> FixSubject(draft.subjects[i])] IN
        /\ emails' = WithSubject(ParseEmails(draft), fixed[1])
        /\ subjects' = fixed
        /\ at' = IF "flawed" \in ToSet(fixed) THEN "rewriting" ELSE "checking"
    /\ UNCHANGED <<channel, pass, messageVars>>

\* Mutant: the new options are offered, the emails keep the old subject.
RewriteOptions(new) ==
    /\ at = "rewriting"
    /\ Asked
    /\ subjects' = [i \in DOMAIN new |-> FixSubject(new[i])]
    /\ at' = "checking"
    /\ UNCHANGED <<emails, channel, pass, messageVars>>

RewriteSubjects(new) ==
    /\ at = "rewriting"
    /\ Asked
    /\ LET fixed == [i \in DOMAIN new |-> FixSubject(new[i])] IN
        /\ subjects' = fixed
        /\ emails' = WithSubject(emails, fixed[1])
    /\ at' = "checking"
    /\ UNCHANGED <<channel, pass, messageVars>>

RewriteFails ==
    /\ at = "rewriting"
    /\ Asked
    /\ at' = "checking"
    /\ UNCHANGED <<channel, emailVars, messageVars>>

CheckSequence ==
    /\ at = "checking"
    /\ at' = IF ValidSequence(emails) THEN "measuring" ELSE "repairing"
    /\ UNCHANGED <<channel, emailVars, messageVars, calls>>

\* The one repair is parsed and checked; its subjects are taken as they are.
RepairSequence(draft) ==
    /\ at = "repairing"
    /\ Asked
    /\ emails' = ParseEmails(draft)
    /\ subjects' = draft.subjects
    /\ at' = IF ValidSequence(emails') THEN "measuring" ELSE "refused"
    /\ UNCHANGED <<channel, pass, messageVars>>

RepairRaises ==
    /\ at = "repairing"
    /\ Asked
    /\ at' = "refused"
    /\ UNCHANGED <<channel, emailVars, messageVars>>

\* One pass shortens, side by side, those over their limit; a call that fails leaves its email.
ShortenPass(words) ==
    /\ at = "measuring"
    /\ OverLimit(emails) # {} /\ pass < 2
    /\ pass' = pass + 1
    /\ calls' = calls + Cardinality(OverLimit(emails))
    /\ emails' = {IF e \in OverLimit(emails) /\ words[e.number] # Failed THEN [e EXCEPT !.words = words[e.number]] ELSE e : e \in emails}
    /\ UNCHANGED <<at, channel, subjects, messageVars>>

\* What is still over is cut, here to the limit itself: the code keeps the whole sentences that fit.
FinishSequence ==
    /\ at = "measuring"
    /\ OverLimit(emails) = {} \/ pass = 2
    /\ emails' = {IF e \in OverLimit(emails) THEN [e EXCEPT !.words = Limit(e)] ELSE e : e \in emails}
    /\ at' = IF OverLimit(emails') = {} THEN "done" ELSE "refused"
    /\ UNCHANGED <<channel, subjects, pass, messageVars, calls>>

-----------------------------------------------------------------------------
ComposeMessage(m) ==
    /\ at = "composing"
    /\ Asked
    /\ message' = m
    /\ at' = IF m = <<>> THEN "refused" ELSE IF IsBlocked(m) THEN "reprompting" ELSE "words"
    /\ UNCHANGED <<channel, resume, emailVars>>

\* The second answer to the relevance filter is not filtered.
Reprompt(m) ==
    /\ at = "reprompting"
    /\ Asked
    /\ message' = IF m = <<>> THEN message ELSE m
    /\ at' = "words"
    /\ UNCHANGED <<channel, resume, emailVars>>

\* _normalize_linkedin: words, then characters; a cut that took the question asks for a rescue.
NormalizeWords ==
    /\ at = "words"
    /\ message' = TrimToWordLimit(message, LinkedInLimit(channel))
    /\ at' = IF message' = message \/ AsksLast(message') THEN "chars" ELSE "rescuing"
    /\ UNCHANGED <<channel, resume, emailVars, calls>>

\* A rescue that is no message of the right size, or raises, leaves the cut one.
Rescue(m) ==
    /\ at = "rescuing"
    /\ Asked
    /\ message' = IF m # <<>> /\ Words(m) <= LinkedInLimit(channel) /\ AsksLast(m) THEN m ELSE message
    /\ at' = "chars"
    /\ UNCHANGED <<channel, resume, emailVars>>

NormalizeChars ==
    /\ at = "chars"
    /\ message' = IF channel = "connection_request" /\ Chars(message) > MaxChars THEN TrimChars(message) ELSE message
    /\ at' = IF message' = message \/ AsksLast(message') THEN "validating" ELSE "shortening"
    /\ UNCHANGED <<channel, resume, emailVars, calls>>

RescueChars(m) ==
    /\ at = "shortening"
    /\ Asked
    /\ message' = IF m # <<>> /\ Chars(m) <= MaxChars /\ AsksLast(m) THEN m ELSE message
    /\ at' = "validating"
    /\ UNCHANGED <<channel, resume, emailVars>>

\* A missing name is asked for once, then put in front.
Validate ==
    /\ at = "validating"
    /\ LET fault == Fault(message, channel)
           splice == fault = "anchor" /\ resume = "anchored"
       IN /\ at' = CASE fault = "none" -> "done"
                     [] fault = "anchor" /\ resume = "first" -> "anchoring"
                     [] splice -> "words"
                     [] OTHER -> "refused"
          /\ message' = IF splice THEN DeterministicAnchorInsert(message) ELSE message
          /\ resume' = IF splice THEN "spliced" ELSE resume
    /\ UNCHANGED <<channel, emailVars, calls>>

RescueAnchor(m) ==
    /\ at = "anchoring"
    /\ Asked
    /\ resume' = "anchored"
    /\ message' = IF m = <<>> THEN message ELSE m
    /\ at' = IF m = <<>> THEN "validating" ELSE "words"
    /\ UNCHANGED <<channel, emailVars>>

WritingNext ==
    \/ \E c \in {"email", "dm", "connection_request"} : StartWriting(c)
    \/ CallRaises \/ RewriteFails \/ CheckSequence \/ RepairRaises \/ FinishSequence
    \/ \E draft \in Drafts : DraftSequence(draft) \/ RepairSequence(draft) \/ RewriteSubjects(draft.subjects)
    \/ \E words \in [1..3 -> Shortened \cup {Failed}] : ShortenPass(words)
    \/ NormalizeWords \/ NormalizeChars \/ Validate
    \/ \E m \in Messages : ComposeMessage(m) \/ Reprompt(m) \/ Rescue(m) \/ RescueChars(m) \/ RescueAnchor(m)

WritingSpec == WritingInit /\ [][WritingNext]_writingVars

-----------------------------------------------------------------------------
WritingTypeOK ==
    /\ at \in {"idle", "drafting", "rewriting", "checking", "repairing", "measuring", "composing", "reprompting",
               "words", "rescuing", "chars", "shortening", "validating", "anchoring", "done", "refused", "failed"}
    /\ resume \in {"first", "anchored", "spliced"}
    /\ pass \in 0..2

\* Three emails under one subject, the first of the options offered with them,
\* none over its limit: through the cleaning, the rewriting, the repair and
\* two passes that shorten some of the emails beside the others.
SequenceIsWhole ==
    at = "done" /\ channel = "email" =>
        /\ Cardinality(emails) = 3 /\ {e.number : e \in emails} = 1..3
        /\ \A e \in emails : e.subject = subjects[1] /\ e.words <= WordLimit[e.number]

\* A message that is returned is one its reader can get: one question, at the
\* end, words and characters within the channel's bounds, and the company by
\* name, whichever rescue it went through last.
MessageFits ==
    at = "done" /\ channel # "email" =>
        /\ OneQuestion(message) /\ Names(message)
        /\ Words(message) \in LinkedInLeast(channel)..(LinkedInLimit(channel) + 10)
        /\ channel = "connection_request" => Chars(message) <= MaxChars

\* One request pays for at most nine calls: a draft, a rewrite, a repair and
\* two passes over three emails, or a draft, a second one, and an anchor, with
\* two rescues in each of three normalizations.
CallsAreBounded == calls <= 9

\* What is sent fits its channel, and costs a bounded number of calls
\* (generate_email_sequence, generate_linkedin_message).
OutreachFits == SequenceIsWhole /\ MessageFits /\ CallsAreBounded

=============================================================================
