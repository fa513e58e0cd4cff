---------------------------- MODULE OptionForms -----------------------------
(***************************************************************************)
(* The forms that the option parsers of iproute2 have in common.           *)
(*                                                                         *)
(* A parser is a loop over the words of a command line.  The body of the   *)
(* loop is a chain of branches, each of which tests the word at hand with  *)
(* strcmp (an exact word) or with matches (any abbreviation of it), takes  *)
(* the values that follow and assigns variables.  A variable is a key      *)
(* here; it is set once it differs from its initial value.  After the      *)
(* loop come checks on what was set and the attributes of the message.     *)
(***************************************************************************)
EXTENDS Integers, Sequences

-----------------------------------------------------------------------------
(* Branches *)

\* exact, abbrev  words tested with strcmp, with matches
\* any            the branch takes every word (the last else)
\* flag           no value follows
\* sets           the sets of keys it may set, one per form of its values
\* unless         keys that must not be set yet: a double or a conflict
\* after          keys of which one must be set before
\* since, until   the chain comes to it only once one of these keys is set, only
\*                as long as none of them is
\* sends          attributes that it adds to the message at once
\* calls          a parser that it hands the rest of the line to
\* then           where it goes on: next word, here (where that parser stopped),
\*                end (of the loop) or return (with what that parser returns)
\* fails          it prints the usage and gives up
Branch(exact, abbrev, key) ==
  [exact |-> exact, abbrev |-> abbrev, any |-> FALSE, flag |-> FALSE, sets |-> {{key}},
   unless |-> {}, after |-> {}, since |-> {}, until |-> {},
   sends |-> << >>, calls |-> "", then |-> "next", fails |-> FALSE]

Opt(w)  == Branch({}, {w}, w)
Word(w) == Branch({w}, {}, w)
Flag(w)     == [Opt(w) EXCEPT !.flag = TRUE]
WordFlag(w) == [Word(w) EXCEPT !.flag = TRUE]
Positional(key) == [Branch({}, {}, key) EXCEPT !.any = TRUE]

Or(b, words)     == [b EXCEPT !.abbrev = @ \cup words]
OrWord(b, words) == [b EXCEPT !.exact = @ \cup words]
As(b, key)       == [b EXCEPT !.sets = {{key}}]
Sets(b, forms)   == [b EXCEPT !.sets = forms]
Unset(b)         == [b EXCEPT !.sets = {{}}]
Not(b, keys)     == [b EXCEPT !.unless = @ \cup keys]
Once(b)          == Not(b, UNION b.sets)
After(b, keys)   == [b EXCEPT !.after = keys]
Since(b, keys)   == [b EXCEPT !.since = keys]
Until(b, keys)   == [b EXCEPT !.until = @ \cup keys]
Sends(b, attrs)  == [b EXCEPT !.sends = attrs]
Calls(b, parser) == [b EXCEPT !.calls = parser]
Goes(b, then)    == [b EXCEPT !.then = then]

\* Options that are looked for before a word of the next stage has set its keys.
Stage(opts, keys) == [i \in DOMAIN opts |-> Until(opts[i], keys)]

\* Options that the first word of the line, a name, opens.
Named(name, opts) ==
  <<Until(As(Flag(name), "name"), {"name"})>>
    \o [i \in DOMAIN opts |-> IF opts[i].since = {} THEN Since(opts[i], {"name"}) ELSE opts[i]]

Refused(b) == [b EXCEPT !.fails = TRUE]
Help     == Refused(Unset(Flag("help")))
WordHelp == Refused(Unset(WordFlag("help")))

\* A help that prints the usage and goes on with the line.
Usage == Unset(Flag("help"))

-----------------------------------------------------------------------------
(* Attributes *)

\* max    the bound given to addattr_l
\* type   what it carries, a key of Size
\* from   keys whose values it carries; Every stands for all of them
\* when   keys of which one must be set for it to be sent; {} for always
\* with   keys that must all be set for it
\* bars   keys of which none may be set
\* sure   FALSE if it also depends on the values
\* place  where it goes: into the message, or into the local buffer of a function
\*        that gathers attributes there; gathered stands for an attribute of the
\*        message whose data are what that buffer holds
Every == {"*"}

Put(max, name, type, from) ==
  [max |-> max, name |-> name, type |-> type, from |-> from, when |-> {}, with |-> {}, bars |-> {}, sure |-> TRUE,
   place |-> "message"]
PutIf(max, name, type, from) == [Put(max, name, type, from) EXCEPT !.when = from]
PutWhen(max, name, type, from, when) == [Put(max, name, type, from) EXCEPT !.when = when]
Given(attr, keys)   == [attr EXCEPT !.with = keys]
Lacking(attr, keys) == [attr EXCEPT !.bars = keys]
Maybe(attr) == [attr EXCEPT !.sure = FALSE]
Local(attr) == [attr EXCEPT !.place = "local"]
Gathered(max, name) == [Put(max, name, "nested", {}) EXCEPT !.place = "gathered"]
Nest(max, name) == Put(max, name, "nested", {})
U32(max, name, key) == PutIf(max, name, "u32", {key})

\* A branch that adds its value to the message at once.
Adds(b, max, name, type) == Sends(b, <<Put(max, name, type, UNION b.sets)>>)

\* A branch that adds its value to the local buffer.
Gathers(b, max, name, type) == Sends(b, <<Local(Put(max, name, type, UNION b.sets))>>)

\* Bytes that addraw_l appends, with no header.
Raw(max, type, from) == Put(max, "", type, from)

-----------------------------------------------------------------------------
(* Parsers *)

\* req     the struct after the netlink header, if the function begins a message
\* buf     the bytes that its buffer has for attributes
\* local   the bytes of a buffer of its own, in which it gathers an attribute
\* head    the attributes added before the loop
\* opts    the branches, in the order of the code
\* rest    what the last else does with another word: reject, or stop there
\* need    keys that other keys need
\* fields  keys that go into a fixed header, a struct for an ioctl or a filter
\* msg     the attributes added after the loop
\* checks  a failure of addattr_l makes the parser fail
\* leaves  where a parser called by another one leaves the line: on the last
\*         word it used, or on the one after
\* tail    the parser of the rest of the line, called after msg if key is set;
\*         Always stands for a key that is
\* last    the attributes added after that
Parser(opts, need, fields, msg) ==
  [req |-> "", buf |-> 0, local |-> 0, head |-> << >>, opts |-> opts, rest |-> "reject", need |-> need, fields |-> fields,
   msg |-> msg, checks |-> FALSE, leaves |-> "next", tail |-> "", key |-> "", last |-> << >>]

Requests(p, struct, bytes) == [p EXCEPT !.req = struct, !.buf = bytes]
Buffers(p, bytes) == [p EXCEPT !.local = bytes]
Begins(p, attrs) == [p EXCEPT !.head = attrs]
Hands(p, key, tail, attrs) == [p EXCEPT !.key = key, !.tail = tail, !.last = attrs]

Always == "*"

Stops(p)  == [p EXCEPT !.rest = "stop"]
LeavesLast(p) == [p EXCEPT !.leaves = "last"]

\* One key of oneOf must be set: when all of given are, when one of keys is.
\* Never refuses the keys together.
Need(given, oneOf) == [given |-> given, all |-> TRUE, oneOf |-> oneOf]
Whenever(keys, oneOf) == [given |-> keys, all |-> FALSE, oneOf |-> oneOf]
Never(keys) == Need(keys, {})

\* A command word and the function that goes on with the line.
Cmd(w, f)     == Goes(Calls(Unset(Flag(w)), f), "return")
Cmds(ws, f)   == [i \in DOMAIN ws |-> Cmd(ws[i], f)]
WordCmd(w, f) == Goes(Calls(Unset(WordFlag(w)), f), "return")

\* A command that looks at none of the words after it.
Deaf == Parser(<<Goes(Unset(Positional("other")), "end")>>, {}, {}, << >>)

\* A function that chooses among commands.
Commands(cmds) == Parser(cmds, {}, Every, << >>)

-----------------------------------------------------------------------------
(* Printers *)

\* A printer is the set of attributes it reads: as what, and what it looks at
\* before.  Read finds the attribute present, Checked also finds it long
\* enough, Must gives up when it is absent, Bare looks at nothing.
Reading(name, type, guard) == [name |-> name, type |-> type, guard |-> guard]
Read(name, type)    == Reading(name, type, "present")
Checked(name, type) == Reading(name, type, "long")
Must(name, type)    == Reading(name, type, "must")
Bare(name, type)    == Reading(name, type, "bare")
=============================================================================
