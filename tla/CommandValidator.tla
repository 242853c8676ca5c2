---------------------------- MODULE CommandValidator ---------------------------
(***************************************************************************)
(* validateCommand: tokenize() cuts a line into tokens, the registry finds *)
(* the tool, and the tool's parse() turns the other tokens into the args   *)
(* the sandbox executes, or throws.                                        *)
(*                                                                         *)
(* A line is a sequence of symbols: blanks, quotes, the characters the     *)
(* parsers look for (: @ [ ]), and words, each of which stands for a run   *)
(* of other characters.  A token is a sequence of symbols.  The loops of   *)
(* tokenize() and of the four parse() that have one go one iteration per   *)
(* step; the other four parse() are a single step.                         *)
(***************************************************************************)
EXTENDS Integers, SequencesExt, FiniteSetsExt

CONSTANTS
  Lines,     \* the command lines
  Labels,    \* words made of letters, digits and inner dashes
  Hex,       \* symbols made of hexadecimal digits
  Dashes,    \* words that start with a dash
  Urls,      \* words that are an http:// or https:// URL
  Numeral,   \* Number() of the words that are one
  Decimals,  \* words made of one to five digits
  Upper,     \* toUpperCase() of each symbol
  MaxTime,   \* String(Math.floor(config.commandTimeoutMs / 1000))
  MaxSize    \* String(config.maxOutputBytes)

Space == " "
Newline == "newline"
Quotes == {"'", "\""}
NaN == -1

W(word) == <<word>>
Words(set) == {W(word) : word \in set}

Symbols == UNION {Range(raw) : raw \in Lines}

ASSUME CommandValidatorAssumption ==
  /\ Lines \subseteq Seq(Symbols)
  /\ \A w \in DOMAIN Numeral : Numeral[w] \in Int
  /\ Decimals \subseteq DOMAIN Numeral
  /\ Dashes \cap (Labels \cup Urls \cup Hex \cup {":"}) = {}

VARIABLES
  line,    \* rawLine.trim()
  pos,     \* tokenize's i
  token,   \* the token being read
  quote,   \* quoteChar, or "" for null
  tokens,  \* the tokens read
  phase,   \* "between" tokens, in a "token", "parse", "accepted" or "rejected"
  i,       \* parse's i
  p,       \* parse's other locals: args; the host or url, the count, the flag
  result   \* the args returned

scanVars == <<pos, token, quote, tokens>>
parseVars == <<i, p, result>>
vars == <<line, scanVars, phase, parseVars>>

Trim(raw) ==
  LET kept == {k \in DOMAIN raw : raw[k] \notin {Space, Newline}}
  IN  IF kept = {} THEN <<>> ELSE SubSeq(raw, Min(kept), Max(kept))

Init ==
  /\ \E raw \in Lines : line = Trim(raw)
  /\ pos = 1 /\ token = <<>> /\ quote = "" /\ tokens = <<>>
  /\ phase = "between"
  /\ i = 1 /\ result = <<>>
  /\ p = [args |-> <<>>, target |-> <<>>, count |-> 0, flag |-> <<>>]

-----------------------------------------------------------------------------
(* tokenize *)

AtEnd == pos > Len(line)
Blank == line[pos] = Space

SkipBlank ==
  /\ phase = "between" /\ ~AtEnd /\ Blank
  /\ pos' = pos + 1
  /\ UNCHANGED <<line, token, quote, tokens, phase, parseVars>>

StartToken ==
  /\ phase = "between" /\ ~AtEnd /\ ~Blank
  /\ phase' = "token"
  /\ token' = <<>>
  /\ quote' = ""
  /\ UNCHANGED <<line, pos, tokens, parseVars>>

CloseQuote ==
  /\ phase = "token" /\ ~AtEnd
  /\ quote # "" /\ line[pos] = quote
  /\ quote' = "" /\ pos' = pos + 1
  /\ UNCHANGED <<line, token, tokens, phase, parseVars>>

OpenQuote ==
  /\ phase = "token" /\ ~AtEnd
  /\ quote = "" /\ line[pos] \in Quotes
  /\ quote' = line[pos] /\ pos' = pos + 1
  /\ UNCHANGED <<line, token, tokens, phase, parseVars>>

(* Inside quotes everything but the closing quote is the token's, outside    *)
(* everything but a quote and a blank.                                       *)
Literal == IF quote = "" THEN ~Blank /\ line[pos] \notin Quotes ELSE line[pos] # quote

TakeSymbol ==
  /\ phase = "token" /\ ~AtEnd
  /\ Literal
  /\ token' = Append(token, line[pos]) /\ pos' = pos + 1
  /\ UNCHANGED <<line, quote, tokens, phase, parseVars>>

(* (mutated form of EndToken: a blank ends the token, quoted or not) *)
EndTokenInQuotes ==
  /\ phase = "token"
  /\ (AtEnd => quote = "") /\ (~AtEnd => Blank)
  /\ tokens' = Append(tokens, token)
  /\ phase' = "between"
  /\ UNCHANGED <<line, pos, token, quote, parseVars>>

EndToken ==
  /\ phase = "token"
  /\ quote = "" /\ (~AtEnd => Blank)
  /\ tokens' = Append(tokens, token)
  /\ phase' = "between"
  /\ UNCHANGED <<line, pos, token, quote, parseVars>>

Unterminated ==
  /\ phase = "token" /\ AtEnd /\ quote # ""
  /\ phase' = "rejected"
  /\ UNCHANGED <<line, scanVars, parseVars>>

-----------------------------------------------------------------------------
(* net.js *)

IsValidHostname(t) == t # <<>> /\ Range(t) \subseteq Labels
IsValidIPv6(t) == Len(t) > 1 /\ ":" \in Range(t) /\ Range(t) \subseteq Hex \cup {":"}

(* An IPv4 address is a hostname too, for HOSTNAME_RE. *)
IsValidHost(t) == IsValidHostname(t) \/ IsValidIPv6(t)

IsValidPort(t) == Len(t) = 1 /\ t[1] \in Decimals /\ Numeral[t[1]] \in 1..65535

IsSafeHeaderValue(t) == Newline \notin Range(t)

StartsWith(t, symbols) == t # <<>> /\ t[1] \in symbols
ToUpper(t) == [k \in DOMAIN t |-> Upper[t[k]]]
Number(t) == IF t = <<>> THEN 0
             ELSE IF Len(t) = 1 /\ t[1] \in DOMAIN Numeral THEN Numeral[t[1]] ELSE NaN

-----------------------------------------------------------------------------
(* The tools whose parse() is a loop.  rest is what it has not read yet; a   *)
(* step yields how many tokens it reads and the locals after it, or nothing  *)
(* when it throws.                                                           *)

Reads(n, locals) == {[n |-> n, p |-> locals]}
Throws == {}

(* The value of the option rest[1], if it has one that satisfies Ok. *)
Given(rest, Ok(_)) == Len(rest) > 1 /\ Ok(rest[2])

Push(more) == [p EXCEPT !.args = @ \o more]

(* (mutated form of Operand: the last one counts) *)
OperandLast(t, ok) == IF ok THEN Reads(1, [p EXCEPT !.target = <<t>>]) ELSE Throws

(* The only operand, which must not come twice. *)
Operand(t, ok) ==
  IF p.target = <<>> /\ ok THEN Reads(1, [p EXCEPT !.target = <<t>>]) ELSE Throws

Methods == Words({"GET", "POST", "HEAD", "PUT", "DELETE"})
IsMethod(t) == ToUpper(t) \in Methods
IsHeader(t) ==
  /\ IsSafeHeaderValue(t)
  /\ \E k \in 2..(Len(t) - 1) : t[k] = ":" /\ Range(SubSeq(t, 1, k - 1)) \subseteq Labels \cup Dashes
IsUserAgent(t) == t # <<>> /\ IsSafeHeaderValue(t)
IsData(t) == IsSafeHeaderValue(t) /\ ~StartsWith(t, {"@"})
IsUrl(t) == StartsWith(t, Urls) /\ Range(t) \cap {Space, Newline} = {}

CurlStep(rest) ==
  LET t == Head(rest)
  IN  CASE t \in Words({"-I", "-i", "-L"}) -> Reads(1, Push(<<t>>))
        [] t = W("-X") ->
             IF Given(rest, IsMethod) THEN Reads(2, Push(<<t, ToUpper(rest[2])>>)) ELSE Throws
        [] t = W("-H") ->
             IF Given(rest, IsHeader) THEN Reads(2, Push(<<t, rest[2]>>)) ELSE Throws
        [] t \in Words({"-A", "--user-agent"}) ->
             IF Given(rest, IsUserAgent) THEN Reads(2, Push(<<W("-A"), rest[2]>>)) ELSE Throws
        [] t \in Words({"-d", "--data"}) ->
             IF Given(rest, IsData) THEN Reads(2, Push(<<W("-d"), rest[2]>>)) ELSE Throws
        [] OTHER -> IF StartsWith(t, Dashes) THEN Throws ELSE Operand(t, IsUrl(t))

CurlArgs ==
  p.args \o <<W("--max-time"), W(MaxTime), W("--max-filesize"), W(MaxSize), W("-sS")>> \o p.target

(* parseConnectTarget: [host]:port, or what the last colon separates. *)
IsConnectTarget(t) ==
  LET colons == {k \in DOMAIN t : t[k] = ":"}
      closing == {k \in DOMAIN t : t[k] = "]"}
      HostAndPort(first, colon) ==
        /\ IsValidHost(SubSeq(t, first, IF first = 2 THEN colon - 2 ELSE colon - 1))
        /\ IsValidPort(SubSeq(t, colon + 1, Len(t)))
  IN  IF StartsWith(t, {"["})
      THEN closing # {} /\ Min(closing) + 1 \in colons /\ HostAndPort(2, Min(closing) + 1)
      ELSE colons # {} /\ HostAndPort(1, Max(colons))

(* The subcommand comes first.  The target is the last -connect seen.        *)
OpensslStep(rest) ==
  LET t == Head(rest)
  IN  IF i = 1 THEN IF t = W("s_client") THEN Reads(1, Push(<<t>>)) ELSE Throws
      ELSE CASE t = W("-connect") ->
                  IF Given(rest, IsConnectTarget)
                  THEN Reads(2, [Push(<<t, rest[2]>>) EXCEPT !.target = <<rest[2]>>]) ELSE Throws
             [] t = W("-servername") ->
                  IF Given(rest, IsValidHost) THEN Reads(2, Push(<<t, rest[2]>>)) ELSE Throws
             [] t = W("-showcerts") -> Reads(1, Push(<<t>>))
             [] OTHER -> Throws

MtrDefault == 5
MtrMax == 10

MtrStep(rest) ==
  LET t == Head(rest)
      Count(v) == Number(v) \in 1..MtrMax
  IN  CASE t \in Words({"-4", "-6"}) -> Reads(1, [p EXCEPT !.flag = <<t>>])
        [] t = W("-r") -> Reads(1, p)   \* forced anyway
        [] t = W("-c") ->
             IF Given(rest, Count) THEN Reads(2, [p EXCEPT !.count = Number(rest[2])]) ELSE Throws
        [] OTHER -> IF StartsWith(t, Dashes) THEN Throws ELSE Operand(t, IsValidHost(t))

(* String(n) of a count that is within the limit. *)
Decimal(n) == W(CHOOSE w \in Decimals : Numeral[w] = n)

MtrArgs == <<W("-r"), W("-c"), Decimal(p.count)>> \o p.flag \o p.target

PingMax == 5

(* (mutated form of PingDefault: the default is above the limit) *)
PingDefaultTooHigh == PingMax + 1

PingDefault == 4

PingStep(rest) ==
  LET t == Head(rest)
      Count(v) == Number(v) \in 1..PingMax
  IN  CASE t = W("-c") ->
             IF Given(rest, Count) THEN Reads(2, [p EXCEPT !.count = Number(rest[2])]) ELSE Throws
        [] OTHER -> IF StartsWith(t, Dashes) THEN Throws ELSE Operand(t, IsValidHost(t))

PingArgs == <<W("-c"), Decimal(p.count)>> \o p.target

-----------------------------------------------------------------------------
(* The tools whose parse() looks at positions: the args, or nothing. *)

RecordTypes == Words({"A", "AAAA", "MX", "TXT", "NS", "CNAME", "SOA", "PTR"})
DigFlags == Words({"+short", "+dnssec"})

DigParse(rest) ==
  LET server == rest # <<>> /\ StartsWith(Head(rest), {"@"})
      d == IF server THEN 2 ELSE 1
      typed == Len(rest) > d /\ ToUpper(rest[d + 1]) \in RecordTypes
      f == IF typed THEN d + 2 ELSE d + 1
      typeArg == IF typed THEN <<ToUpper(rest[d + 1])>> ELSE <<>>
  IN  IF /\ server => IsValidHost(Tail(Head(rest)))
         /\ Len(rest) >= d /\ IsValidHost(rest[d])
         /\ \A k \in f..Len(rest) : rest[k] \in DigFlags
      THEN {SubSeq(rest, 1, d) \o typeArg \o SubSeq(rest, f, Len(rest))}
      ELSE Throws

WhoisParse(rest) == IF Len(rest) = 1 /\ IsValidHost(rest[1]) THEN {rest} ELSE Throws

HostParse(rest) ==
  IF Len(rest) \in 1..2 /\ \A k \in DOMAIN rest : IsValidHost(rest[k]) THEN {rest} ELSE Throws

NcParse(rest) ==
  IF /\ Len(rest) = 3 /\ rest[1] \in Words({"-zv", "-vz"})
     /\ IsValidHost(rest[2]) /\ IsValidPort(rest[3])
  THEN {<<W("-zv"), rest[2], rest[3]>>}
  ELSE Throws

-----------------------------------------------------------------------------
(* validateCommand *)

Looping == {"curl", "openssl", "mtr", "ping"}
registry == Looping \cup {"dig", "whois", "host", "nc"}

tool == Head(tokens)[1]
Rest == Tail(tokens)
Calls(tools) == tokens # <<>> /\ Head(tokens) \in Words(tools)

Reject ==
  /\ phase' = "rejected"
  /\ UNCHANGED <<line, scanVars, parseVars>>

Accept(args) ==
  /\ phase' = "accepted"
  /\ result' = args
  /\ UNCHANGED <<line, scanVars, i, p>>

(* The line is read: the registry knows the tool, or the command is refused. *)
Dispatch ==
  /\ phase = "between" /\ AtEnd
  /\ Calls(registry)
  /\ phase' = "parse"
  /\ p' = [p EXCEPT !.count = CASE tool = "mtr" -> MtrDefault [] tool = "ping" -> PingDefault
                                [] OTHER -> 0]
  /\ UNCHANGED <<line, scanVars, i, result>>

NotAllowed ==
  /\ phase = "between" /\ AtEnd
  /\ ~Calls(registry)
  /\ Reject

Unread == SubSeq(Rest, i, Len(Rest))

Step ==
  CASE tool = "curl" -> CurlStep(Unread)
    [] tool = "openssl" -> OpensslStep(Unread)
    [] tool = "mtr" -> MtrStep(Unread)
    [] tool = "ping" -> PingStep(Unread)

Iterate ==
  /\ phase = "parse" /\ tool \in Looping /\ Unread # <<>>
  /\ \E r \in Step : i' = i + r.n /\ p' = r.p
  /\ UNCHANGED <<line, scanVars, phase, result>>

IterateThrows ==
  /\ phase = "parse" /\ tool \in Looping /\ Unread # <<>>
  /\ Step = Throws
  /\ Reject

(* After the loop there must have been an operand; the args are made of what *)
(* the loop gathered and of the forced options.                              *)
EndLoop ==
  /\ phase = "parse" /\ tool \in Looping /\ Unread = <<>>
  /\ IF p.target = <<>> THEN Reject
     ELSE Accept(CASE tool = "curl" -> CurlArgs [] tool = "openssl" -> p.args
                   [] tool = "mtr" -> MtrArgs [] tool = "ping" -> PingArgs)

ParsePositions ==
  /\ phase = "parse" /\ tool \notin Looping
  /\ LET parsed == CASE tool = "dig" -> DigParse(Rest) [] tool = "whois" -> WhoisParse(Rest)
                     [] tool = "host" -> HostParse(Rest) [] tool = "nc" -> NcParse(Rest)
     IN  IF parsed = Throws THEN Reject ELSE \E args \in parsed : Accept(args)

Next ==
  \/ SkipBlank \/ StartToken \/ CloseQuote \/ OpenQuote \/ TakeSymbol \/ EndToken \/ Unterminated
  \/ Dispatch \/ NotAllowed \/ Iterate \/ IterateThrows \/ EndLoop \/ ParsePositions

Spec == Init /\ [][Next]_vars

-----------------------------------------------------------------------------
(* What a line's tokens are, from the quote in force at each of its places.  *)
QuoteAfter(q, symbol) ==
  CASE symbol = q -> ""
    [] q = "" /\ symbol \in Quotes -> symbol
    [] OTHER -> q

(* The quote in force at each place of s, and behind its last symbol. *)
QuotesIn(s) ==
  LET quoteAt[k \in 1..(Len(s) + 1)] ==
        IF k = 1 THEN "" ELSE QuoteAfter(quoteAt[k - 1], s[k - 1])
  IN  quoteAt

(* A word is a longest stretch without a blank outside quotes.  Its letters  *)
(* are its symbols but for the quotes that delimit; two quotes with nothing  *)
(* between them are a word without letters.                                  *)
Outside(s, within, k) == k \notin DOMAIN s \/ (s[k] = Space /\ within[k] = "")

Starts(s, within) == {k \in DOMAIN s : Outside(s, within, k - 1) /\ ~Outside(s, within, k)}

Letters(s, within, start) ==
  {k \in start..Len(s) : /\ \A m \in start..k : ~Outside(s, within, m)
                         /\ within[k] = within[k + 1]}

Rank(k, places) == Cardinality({m \in places : m <= k})

(* t is made of the symbols of s at these places, from left to right. *)
Spells(t, s, places) ==
  /\ Len(t) = Cardinality(places)
  /\ \A k \in places : t[Rank(k, places)] = s[k]

(* ts are the words of s that start at these places, from left to right. *)
AreWords(ts, s, within, starts) ==
  /\ Len(ts) = Cardinality(starts)
  /\ \A k \in starts : Spells(ts[Rank(k, starts)], s, Letters(s, within, k))

(* tokenize() yields the words of the line whatever the quotes do (adjacent, *)
(* empty, nested in the other kind), and throws exactly for a line that ends *)
(* inside quotes.                                                            *)
TokensAreTheWords ==
  AtEnd /\ phase \in {"between", "rejected"} =>
    LET within == QuotesIn(line)
        unterminated == within[Len(line) + 1] # ""
    IN  /\ phase = "between" => ~unterminated /\ AreWords(tokens, line, within, Starts(line, within))
        /\ phase = "rejected" => (quote # "" <=> unterminated)

(* What each tool may be given: its flags, its options with what their value *)
(* must be, and its operands.                                                *)
Flags ==
  [t \in Looping |-> CASE t = "curl" -> Words({"-I", "-i", "-L"})
                       [] t = "openssl" -> Words({"-showcerts"})
                       [] t = "mtr" -> Words({"-4", "-6", "-r"})
                       [] t = "ping" -> {}]

Options ==
  [t \in Looping |-> CASE t = "curl" -> Words({"-X", "-H", "-A", "--user-agent", "-d", "--data"})
                       [] t = "openssl" -> Words({"-connect", "-servername"})
                       [] OTHER -> Words({"-c"})]

MaxCount == [t \in {"mtr", "ping"} |-> IF t = "mtr" THEN MtrMax ELSE PingMax]

IsValue(t, option, v) ==
  CASE option = W("-X") -> IsMethod(v)
    [] option = W("-H") -> IsHeader(v)
    [] option \in Words({"-A", "--user-agent"}) -> IsUserAgent(v)
    [] option \in Words({"-d", "--data"}) -> IsData(v)
    [] option = W("-connect") -> IsConnectTarget(v)
    [] option = W("-servername") -> IsValidHost(v)
    [] option = W("-c") -> Number(v) \in 1..MaxCount[t]

(* The words above start with a dash, the methods are in capitals, and every *)
(* count within the limits has its digits.                                   *)
ASSUME AlphabetAssumption ==
  /\ \A t \in Looping : Flags[t] \cup Options[t] \subseteq Words(Dashes)
  /\ \A m \in Methods : ToUpper(m) = m
  /\ \A n \in 1..Max({MtrMax, PingMax}) : \E w \in Decimals : Numeral[w] = n

(* Where the options that come right before the k-th of args begin. *)
OptionsBefore(t, args, k) ==
  {m \in 1..k : /\ \A n \in m..(k - 1) : args[n] \in Options[t]
                /\ m = 1 \/ args[m - 1] \notin Options[t]}

(* The positions of args that are an option's value: of options in a row,    *)
(* every second one is the value of the one before it.                       *)
ValuesIn(t, args) ==
  {k \in DOMAIN args : \E m \in OptionsBefore(t, args, k) : (k - m) % 2 = 1}
OptionsIn(t, args) == {k \in DOMAIN args \ ValuesIn(t, args) : args[k] \in Options[t]}
OperandsIn(t, args) ==
  {k \in DOMAIN args \ ValuesIn(t, args) : args[k] \notin Options[t] \cup Flags[t]}

IsOperand(t, v) == IF t = "curl" THEN IsUrl(v) ELSE IsValidHost(v)

WellFormed(t, args) ==
  /\ \A k \in OptionsIn(t, args) :
       k + 1 \in ValuesIn(t, args) /\ IsValue(t, args[k], args[k + 1])
  /\ IF t = "openssl"
     THEN /\ OperandsIn(t, args) = {1} /\ args[1] = W("s_client")
          /\ \E k \in OptionsIn(t, args) : args[k] = W("-connect")
     ELSE \E k \in DOMAIN args : OperandsIn(t, args) = {k} /\ IsOperand(t, args[k])

(* The four loops accept exactly the well-formed commands: one operand, only *)
(* the tool's own options, each with its value, in any order.                *)
AcceptedIffWellFormed ==
  phase \in {"accepted", "rejected"} /\ quote = "" /\ Calls(Looping) =>
    (phase = "accepted" <=> WellFormed(tool, Rest))

(* What the user gave, without curl's forced options. *)
Asked ==
  IF tool # "curl" THEN result
  ELSE SubSeq(result, 1, Len(result) - 6) \o <<Last(result)>>

(* The args that reach the sandbox are such a command themselves: the forced *)
(* limits are there and within bounds, and no value has become an option.    *)
ArgsWellFormed ==
  phase = "accepted" /\ Calls(Looping) =>
    /\ WellFormed(tool, Asked)
    /\ tool \in {"mtr", "ping"} =>
         Cardinality({k \in DOMAIN result \ ValuesIn(tool, result) : result[k] = W("-c")}) = 1
    /\ tool = "curl" =>
         SubSeq(result, Len(result) - 5, Len(result) - 1) =
           <<W("--max-time"), W(MaxTime), W("--max-filesize"), W(MaxSize), W("-sS")>>
=============================================================================
