--------------------------- MODULE OptionParsing ----------------------------
(***************************************************************************)
(* A command line of iproute2 on its way through the option parsers to a   *)
(* message for the kernel.                                                 *)
(*                                                                         *)
(* The parsers are tables (OptionForms); this module is what the tables    *)
(* mean.  The word at hand goes down the chain of branches of the running  *)
(* parser; a branch may call another parser, which then runs on the same   *)
(* line and the same message.  When the words are used up the parser       *)
(* checks what was set and adds its attributes with addattr_l, which drops *)
(* an attribute that does not fit under its bound.                         *)
(***************************************************************************)
EXTENDS OptionForms, FiniteSets

CONSTANTS
  Parsers,   \* the parser functions by name
  Pointers,  \* the functions that a function pointer may hold
  Programs,  \* the functions that the words of a command line first come to
  Reads,     \* what the printers read
  Size,      \* the length of each type of attribute
  Known,     \* the exceptions: words that another branch takes (shadows),
             \* attributes that a line may be too long for (drops), keys that a
             \* parser accepts and makes nothing of (forgets), numbers that are
             \* read in another width (narrow), functions that write past the end
             \* of their local buffer (overruns)
  MaxWords   \* bound on the words of a line that gives them in any order

VARIABLES
  stack,   \* the running parsers, innermost last
  message, \* the message: its length, what it carries and what was dropped, the
           \* local buffer that a part of it is gathered in, and the parser of
           \* which a word was repeated until there was no room, "" for none
  count,   \* how many words have been given in any order
  pc,      \* "parse", "sent" or "failed"
  over,    \* the line is used up
  met      \* what the last word met: the parser, the word, the branch

vars == <<stack, message, count, over, pc, met>>

-----------------------------------------------------------------------------
(* The words of a parser *)

\* matches() accepts any beginning of a keyword.
matches(w, keyword) == Len(w) <= Len(keyword) /\ SubSeq(keyword, 1, Len(w)) = w

Takes(b, w) ==
  \/ w \in b.exact
  \/ \E k \in b.abbrev : matches(w, k)
  \/ b.any

\* The chain comes to the branch.
Open(b, set) == b.until \cap set = {} /\ (b.since = {} \/ b.since \cap set # {})

\* A word that is no keyword: a name, an address, a number.
Value == "_"

Keywords(b) == b.exact \cup b.abbrev \cup (IF b.any THEN {Value} ELSE {})
Vocabulary(opts, set) == UNION {Keywords(opts[i]) : i \in {j \in DOMAIN opts : Open(opts[j], set)}}

\* The branches that take a word, by the words of the parser.
TakersOf(opts) ==
  [w \in UNION {Keywords(opts[i]) : i \in DOMAIN opts} \cup {Value} |-> {i \in DOMAIN opts : Takes(opts[i], w)}]
Takers == [f \in DOMAIN Parsers |-> TakersOf(Parsers[f].opts)]

\* The first branch of the chain that takes the word, 0 if none does.
Chain(opts, takers, set) ==
  LET takes == {i \in takers : Open(opts[i], set)}
  IN IF takes = {} THEN 0 ELSE CHOOSE i \in takes : \A j \in takes : i <= j

-----------------------------------------------------------------------------
(* Attributes *)

Align4(n) == ((n + 3) \div 4) * 4

\* An empty local buffer holds the header of the attribute that it becomes.
RTA_LENGTH == 4

\* The bytes that an attribute takes: a header and the data.  What has no name is
\* appended by addraw_l, or written in place, without a header.
Room(m, attr) ==
  Align4((IF attr.name = "" THEN 0 ELSE RTA_LENGTH)
         + (IF attr.place = "gathered" THEN m.part.len - RTA_LENGTH ELSE Size[attr.type]))

\* The message, or its local buffer, n times longer by the attribute.
Lengthen(m, attr, n) ==
  LET longer(len) == IF n = 0 THEN len ELSE Align4(len) + n * Room(m, attr)
      added == IF attr.place = "local" THEN [m EXCEPT !.part.len = longer(@)] ELSE [m EXCEPT !.len = longer(@)]
  IN IF n = 0 THEN added ELSE [added EXCEPT !.carries = @ \cup {[name |-> attr.name, type |-> attr.type]}]

\* How often the attribute fits under its bound.
Fit(m, attr) ==
  LET left == attr.max - Align4(IF attr.place = "local" THEN m.part.len ELSE m.len)
  IN IF left < 0 THEN 0 ELSE left \div Room(m, attr)

Dropped(m, attr) == [m EXCEPT !.dropped = @ \cup {attr.name}]

\* addattr_l and rta_addattr_l: nothing when it does not fit.  What was gathered
\* is added if there is any.
addattr_l(m, attr) ==
  IF attr.place = "gathered" /\ m.part.len <= RTA_LENGTH THEN m
  ELSE IF Fit(m, attr) = 0 THEN Dropped(m, attr)
  ELSE Lengthen(m, attr, 1)

\* The same again and again, until it does not fit any more.
addattr_l_again(m, attr) == Dropped(Lengthen(m, attr, Fit(m, attr)), attr)

Sent(attr, set, maybe) ==
  /\ attr.when = {} \/ attr.when \cap set # {}
  /\ attr.with \subseteq set
  /\ attr.bars \cap set = {}
  /\ attr.sure \/ maybe

\* The attributes of a list in order, those that are to be sent.
InOrder(Add(_, _), m, attrs, set, maybe) ==
  LET add[i \in 0..Len(attrs)] ==
        IF i = 0 THEN m
        ELSE IF Sent(attrs[i], set, maybe)
        THEN CHOOSE r \in {Add(before, attrs[i]) : before \in {add[i - 1]}} : TRUE
        ELSE add[i - 1]
  IN add[Len(attrs)]
AddAll(m, attrs, set, maybe) == InOrder(addattr_l, m, attrs, set, maybe)

\* The keys that the attributes of a list carry.
Carries(attrs, set) == UNION {attrs[i].from : i \in {j \in DOMAIN attrs : Sent(attrs[j], set, FALSE)}}

-----------------------------------------------------------------------------
(* State *)

\* The local buffer of parser f, with the header of what is gathered.
LocalBuffer(f, p) == [of |-> f, len |-> IF p.local = 0 THEN 0 ELSE RTA_LENGTH, cap |-> p.local]

\* A message of these many bytes and no attribute.
Empty(header, bytes, part) ==
  [len |-> header, cap |-> header + bytes, part |-> part, carries |-> {}, dropped |-> {}, unsent |-> {}, repeats |-> ""]

NoRequest == Empty(0, 0, [of |-> "", len |-> 0, cap |-> 0])

\* The message as a parser finds it when its loop begins: a new one, with a
\* netlink header of 16 bytes and the struct of the request, or the caller's.
Opened(f, p, m, maybe) ==
  LET begun == IF p.req # "" THEN Empty(16 + Size[p.req], p.buf, LocalBuffer(f, p))
               ELSE IF p.local # 0 THEN [m EXCEPT !.part = LocalBuffer(f, p)] ELSE m
  IN AddAll(begun, p.head, {}, maybe)

\* next   the branch that an orderly line comes to next, 0 for words in any order
\* from   where the orderly line started
\* left   how many branches it has still to come to
\* phase  "loop" over the words, "end" of it, "tail" while the tail parser runs
Frame(f, p, n) ==
  [p |-> f, set |-> {}, next |-> n, from |-> n, left |-> Len(p.opts), phase |-> "loop"]

Top == stack[Len(stack)]
Below == SubSeq(stack, 1, Len(stack) - 1)
Functions(f) == IF f \in DOMAIN Pointers THEN Pointers[f] ELSE {f}

\* An orderly line that did not start at the first branch of each of its parsers
\* takes one of the ways on, where there are several.
Turned == \E i \in DOMAIN stack : stack[i].from > 1
Ways(S) == IF Turned /\ S # {} THEN {CHOOSE x \in S : TRUE} ELSE S

\* The last word of a loop.
Ends(b) == b.then \in {"end", "return"}

\* An orderly line may start at any branch, in one parser of the line.
Starts(p, callers) ==
  IF \A i \in DOMAIN callers : callers[i].from = 1
  THEN {i \in DOMAIN p.opts : ~Ends(p.opts[i]) /\ Open(p.opts[i], {})} \cup {1}
  ELSE {1}

Init ==
  /\ \E f \in Programs : \E n \in {0, 1} : stack = <<Frame(f, Parsers[f], n)>>
  /\ message = NoRequest
  /\ count = 0
  /\ over = FALSE
  /\ pc = "parse"
  /\ met = [p |-> "", word |-> "", branch |-> 0]

-----------------------------------------------------------------------------
(* The loop over the words; p is the running parser, takers its chain *)

\* A double, a conflict or a missing predecessor.
Clashes(b, set) == b.unless \cap set # {} \/ (b.after # {} /\ b.after \cap set = {})

\* The program prints why and exits.
Fail ==
  /\ pc' = "failed"
  /\ stack' = << >>
  /\ message' = NoRequest
  /\ UNCHANGED over

\* Parser f runs on the rest of the line, then the parser of frame goes on.
Call(f, m, frame) ==
  \E p \in {Parsers[f]} : \E n \in (IF frame.next = 0 THEN {0} ELSE Starts(p, Append(Below, frame))) :
    /\ stack' = Below \o <<frame, Frame(f, p, n)>>
    /\ \E maybe \in BOOLEAN : message' = Opened(f, p, m, maybe)

\* Branch b takes the word at hand, with values in one of these forms.
Take(b, forms, frame) ==
  /\ \E form \in forms :
       LET to == [frame EXCEPT !.set = @ \cup form, !.phase = IF Ends(b) THEN "end" ELSE "loop"]
           m  == AddAll(message, b.sends, form, FALSE)
       IN IF b.calls = ""
          THEN stack' = Append(Below, to) /\ message' = m
          ELSE \E f \in Ways(Functions(b.calls)) : Call(f, m, to)
  /\ UNCHANGED <<pc, over>>

\* A word that can be given again counts.
Weight(b) == IF Ends(b) \/ b.until \cap UNION b.sets # {} THEN 0 ELSE 1

Looping == Top.phase = "loop" /\ ~over

\* A word of the parser, given in any order.  The value after it may be missing
\* or bad.
Give(p, takers) ==
  /\ Looping /\ Top.next = 0
  /\ \E w \in Vocabulary(p.opts, Top.set) : \E i \in {Chain(p.opts, takers[w], Top.set)} : \E b \in {p.opts[i]} :
       /\ count + Weight(b) <= MaxWords
       /\ count' = count + Weight(b)
       /\ met' = [p |-> Top.p, word |-> w, branch |-> i]
       /\ \/ (b.fails \/ Clashes(b, Top.set) \/ ~b.flag) /\ Fail
          \/ ~b.fails /\ ~Clashes(b, Top.set) /\ Take(b, b.sets, Top)

\* A word that no branch of the parser takes.
GiveUnknown(p, takers) ==
  /\ Looping
  /\ Top.next = 0 /\ p.rest = "reject" /\ Chain(p.opts, takers[Value], Top.set) = 0
  /\ Fail
  /\ UNCHANGED <<count, met>>

\* The parser will refuse the keys together, whatever else is set.
Refuses(p, set) == \E n \in p.need : n.oneOf = {} /\ n.given \subseteq set

\* The branch d places further on, and those that an orderly line still gives:
\* neither a branch that would fail nor one that ends the loop.
Ahead(p, d) == ((Top.next - 1 + d) % Len(p.opts)) + 1
Upcoming(p) ==
  {d \in 0 .. (Top.left - 1) :
     LET b == p.opts[Ahead(p, d)]
     IN /\ ~b.fails /\ ~Ends(b) /\ Open(b, Top.set) /\ ~Clashes(b, Top.set)
        /\ \E form \in b.sets : ~Refuses(p, Top.set \cup form)}

Longest(forms) == {f \in forms : \A g \in forms : Cardinality(g) <= Cardinality(f)}

\* With as many values as it takes, and on a repeated part of the line always
\* the same ones.
Fullest(forms) == IF message.repeats = "" THEN Longest(forms) ELSE {CHOOSE f \in Longest(forms) : TRUE}

\* The orderly line gives the word of the next of them.
GiveNext(p, takers) ==
  /\ Looping /\ Top.next # 0
  /\ \E ahead \in {Upcoming(p)} : \E d \in ahead :
       /\ \A e \in ahead : d <= e
       /\ \E w \in {CHOOSE k \in Keywords(p.opts[Ahead(p, d)]) : TRUE} : \E i \in {Chain(p.opts, takers[w], Top.set)} :
            /\ Take(p.opts[i], Fullest(p.opts[i].sets),
                    [Top EXCEPT !.next = Ahead(p, d + 1), !.left = @ - d - 1])
            /\ met' = [p |-> Top.p, word |-> w, branch |-> i]
  /\ UNCHANGED count

\* Its word is given again, as often as it takes until none of the attributes that
\* it adds fits any more.
GiveAgain(p) ==
  /\ Looping /\ Top.next # 0 /\ Top.left < Len(p.opts) /\ ~Turned
  /\ met.p = Top.p /\ message.repeats = ""
  /\ \E b \in {p.opts[met.branch]} :
       /\ b.sends # << >> /\ b.calls = "" /\ Open(b, Top.set) /\ ~Clashes(b, Top.set)
       /\ message' = [InOrder(addattr_l_again, message, b.sends, Top.set, FALSE) EXCEPT !.repeats = Top.p]
  /\ UNCHANGED <<stack, count, over, pc, met>>

\* A word that adds to a local buffer and hands the line to another parser is
\* given again, with all the words of that one, until the buffer is full.
GiveAnother(p) ==
  /\ Looping /\ Top.next # 0 /\ Top.left < Len(p.opts) /\ ~Turned
  /\ message.repeats \in {"", Top.p}
  /\ p.local # 0 /\ message.part.len <= message.part.cap
  /\ \E b \in {p.opts[Ahead(p, Len(p.opts) - 1)]} :
       /\ b.sends # << >> /\ b.calls # "" /\ Open(b, Top.set) /\ ~Clashes(b, Top.set)
       /\ \E f \in Functions(b.calls) :
            Call(f, [AddAll(message, b.sends, Top.set, FALSE) EXCEPT !.repeats = Top.p], Top)
  /\ UNCHANGED <<count, over, pc, met>>

\* Its last word is one that ends the loop.
Last(b) == Ends(b) /\ ~b.fails /\ Open(b, Top.set) /\ ~Clashes(b, Top.set)
GiveEnd(p) ==
  /\ Looping /\ Top.next # 0
  /\ Upcoming(p) = {}
  /\ \E i \in Ways({j \in DOMAIN p.opts : Last(p.opts[j])}) : Take(p.opts[i], p.opts[i].sets, Top)
  /\ UNCHANGED <<count, met>>

\* The line is used up, or the word at hand is one that a parser with rest
\* "stop" leaves to its caller.
EndOfWords(p) ==
  /\ Top.phase = "loop"
  /\ Top.next = 0 \/ over \/ Upcoming(p) = {}
  /\ stack' = Append(Below, [Top EXCEPT !.phase = "end"])
  /\ over' = (over \/ p.rest = "reject")
  /\ UNCHANGED <<message, count, pc, met>>

-----------------------------------------------------------------------------
(* After the loop *)

Missing(p, set) ==
  \E n \in p.need :
    /\ IF n.all THEN n.given \subseteq set ELSE n.given \cap set # {}
    /\ n.oneOf \cap set = {}

Return(m) ==
  /\ stack' = Below
  /\ message' = m
  /\ pc' = IF Len(stack) = 1 THEN "sent" ELSE "parse"
  /\ UNCHANGED over

\* Keys that were set and that nothing carries.
Unsent(p, set) ==
  LET sends == UNION {Carries(p.opts[i].sends, set) : i \in DOMAIN p.opts}
      carried == p.fields \cup sends \cup Carries(p.msg, set) \cup Carries(p.last, set)
  IN IF "*" \in carried THEN {} ELSE set \ carried

\* The message with a note of them, when an orderly line has given every option.
Noted(p) ==
  IF Top.from = 0 \/ Upcoming(p) # {} THEN message
  ELSE [message EXCEPT !.unsent = @ \cup {<<Top.p, k>> : k \in Unsent(p, Top.set)}]

\* An attribute did not fit and the parser looks.
Unsendable(p, m) == p.checks /\ m.dropped # {}

\* The messages that the parser may come to; none if it misses an option.
Complete(p) ==
  IF Missing(p, Top.set) THEN {} ELSE {AddAll(Noted(p), p.msg, Top.set, maybe) : maybe \in BOOLEAN}

Finish(p) ==
  /\ Top.phase = "end"
  /\ \E all \in {Complete(p)} :
       \/ (all = {} \/ \E m \in all : Unsendable(p, m)) /\ Fail
       \/ \E m \in all :
            /\ ~Unsendable(p, m)
            /\ IF p.key \in Top.set \cup {Always}
               THEN /\ \E f \in Ways(Functions(p.tail)) : Call(f, m, [Top EXCEPT !.phase = "tail"])
                    /\ UNCHANGED <<pc, over>>
               ELSE Return(m)
  /\ UNCHANGED <<count, met>>

FinishTail(p) ==
  /\ Top.phase = "tail"
  /\ \E maybe \in BOOLEAN : Return(AddAll(message, p.last, Top.set, maybe))
  /\ UNCHANGED <<count, met>>

Next ==
  /\ pc = "parse"
  /\ \E p \in {Parsers[Top.p]}, takers \in {Takers[Top.p]} :
     \/ Give(p, takers)
     \/ GiveUnknown(p, takers)
     \/ GiveNext(p, takers)
     \/ GiveAgain(p)
     \/ GiveAnother(p)
     \/ GiveEnd(p)
     \/ EndOfWords(p)
     \/ Finish(p)
     \/ FinishTail(p)

Spec == Init /\ [][Next]_vars

-----------------------------------------------------------------------------
(* Properties *)

\* A keyword written in full reaches the branch that is for it: no branch before
\* it takes the word as an abbreviation of another keyword, but for the words
\* known to be taken.
OwnWord ==
  met.branch # 0 /\ <<met.p, met.word>> \notin Known.shadows =>
    met.word \in Keywords(Parsers[met.p].opts[met.branch])

\* Every attribute fits on a line that repeats no option: addattr_l drops nothing
\* on the way to a message that is sent, but for the attributes known to be
\* dropped.  (Most options may be repeated, each time with another attribute, and
\* then most parsers do not notice when the message is full.)
Fits == pc = "sent" /\ message.repeats = "" => message.dropped \subseteq Known.drops

\* A message stays within the buffer that it is built in, however often an option
\* is repeated: the bound given to addattr_l, here and in the functions that build
\* parts of the message, is not above the length of the buffer that the command
\* has declared.  The same holds for a local buffer that an attribute is gathered
\* in, but for those known to be overrun.
Within ==
  /\ message.len <= message.cap
  /\ message.part.len <= message.part.cap \/ message.part.of \in Known.overruns

\* On a line that gives every option, what the options set goes into the
\* message: no parser accepts a word and forgets what it said, but for the keys
\* known to be forgotten.
Carried == message.unsent \subseteq Known.forgets

\* What the printers read, by the name of the attribute.
ReadsByName == [name \in {r.name : r \in Reads} |-> {r \in Reads : r.name = name}]
ReadsOf(a) == IF a.name \in DOMAIN ReadsByName THEN ReadsByName[a.name] ELSE {}

\* A printer that does not look at the length of an attribute reads no more
\* bytes of it than a parser writes into it.
\* (The contents of TCA_OPTIONS depend on the kind.  TCA_PRIO_MQ is a flag of
\* which prio and rr print a first byte that is not there.)
Readable ==
  pc = "sent" =>
    \A a \in message.carries : \A r \in ReadsOf(a) :
      r.guard # "long" /\ r.name \notin {"TCA_OPTIONS", "TCA_PRIO_MQ"}
        => Size[r.type] <= Size[a.type]

\* A number is read in the width in which a parser writes it, but for those known
\* to be read in another one.
Numbers == {"u8", "u16", "u32", "u64", "int"}
Whole ==
  pc = "sent" =>
    \A a \in message.carries : \A r \in ReadsOf(a) :
      {r.type, a.type} \subseteq Numbers /\ r.name \notin Known.narrow
        => Size[r.type] = Size[a.type]

\* A caller goes on with the word at which the parser it called has left the
\* line: the next one if that was the last word it used, else that word itself.
Aligned ==
  Len(stack) > 1 /\ Top.phase = "loop" =>
    LET caller == Parsers[stack[Len(stack) - 1].p]
    IN \A i \in DOMAIN caller.opts :
         LET b == caller.opts[i]
         IN Top.p \in Functions(b.calls) /\ b.then \in {"next", "here"} =>
              (b.then = "here") = (Parsers[Top.p].leaves = "next")
=============================================================================
