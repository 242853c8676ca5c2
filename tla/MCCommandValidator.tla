-------------------------- MODULE MCCommandValidator --------------------------
(* Small instances of CommandValidator for TLC.  No two words that a line    *)
(* joins make a word of the alphabet.                                        *)
EXTENDS CommandValidator

MCLabels   == {"h", "whois", "get", "GET", "mx", "MX", "X", "3", "9"}
MCHex      == {"3", "9"}
MCUrls     == {"http://h"}
MCDecimals == {"0", "1", "2", "3", "4", "5", "6", "7", "8", "9", "10", "65535", "65536"}
MCNumeral  ==
  [w \in MCDecimals \cup {"1e1", "2.5"} |->
     CASE w = "1e1" -> 10 [] w = "2.5" -> -1 [] w = "0" -> 0 [] w = "1" -> 1 [] w = "2" -> 2
       [] w = "3" -> 3 [] w = "4" -> 4 [] w = "5" -> 5 [] w = "6" -> 6 [] w = "7" -> 7
       [] w = "8" -> 8 [] w = "9" -> 9 [] w = "10" -> 10 [] w = "65535" -> 65535 [] w = "65536" -> 65536]
MCDashes   == {"-I", "-i", "-L", "-X", "-H", "-A", "--user-agent", "-d", "--data", "-o",
               "-connect", "-servername", "-showcerts", "-key",
               "-4", "-6", "-r", "-c", "-f", "-zv", "-vz", "-l"}
MCUpper    ==
  [w \in MCLabels \cup MCDecimals \cup MCDashes \cup MCUrls \cup Quotes
         \cup {Space, Newline, ":", "@", "[", "]", "1e1", "2.5", "s_client",
                "+short", "+dnssec", "+trace", "POST", "HEAD", "PUT", "DELETE"} |->
     CASE w = "get" -> "GET" [] w = "mx" -> "MX" [] OTHER -> w]

(* Every way to quote, up to six symbols. *)
QuotedLines == BoundedSeq({Space, "'", "\"", "h"}, 6)

Upto(set, n) == BoundedSeq(set, n)

(* A command line made of tokens, with a blank before each. *)
Spaced(binary, ts) == FoldLeft(LAMBDA l, t : l \o <<Space>> \o t, <<binary>>, ts)
Commands(binary, set, n) == {Spaced(binary, ts) : ts \in Upto(set, n)}

PingTokens    == Words({"-c", "-f", "h", "3", "9", "1e1"}) \cup {<<"'", "'">>}
MtrTokens     == Words({"-c", "-4", "-r", "-f", "h", "9", "2.5"})
CurlTokens    == Words({"-I", "-X", "-H", "-A", "-d", "-o", "get", "http://h"})
                   \cup {<<"X", ":", "h">>, <<"@", "h">>, <<Newline, "h">>}
OpensslTokens == Words({"-connect", "-servername", "-showcerts", "-key", "h"})
                   \cup {<<"h", ":", "9">>, <<"[", ":", ":", "3", "]", ":", "65536">>,
                         <<"[", ":", ":", "3", "]", ":", "65535">>}
DigTokens     == Words({"h", "mx", "+short", "+trace"}) \cup {<<"@", "h">>, <<"@">>}
NcTokens      == Words({"-zv", "-vz", "-l", "h", "9", "0", "65536"})

MCLines ==
  QuotedLines \cup Commands("ping", PingTokens, 4) \cup Commands("mtr", MtrTokens, 4)
    \cup Commands("curl", CurlTokens, 3)
    \cup {Spaced("openssl", <<W("s_client")>> \o ts) : ts \in Upto(OpensslTokens, 3)}
    \cup {Spaced("openssl", ts) : ts \in Upto(OpensslTokens, 1)}
    \cup Commands("dig", DigTokens, 4) \cup Commands("nc", NcTokens, 3)
    \cup Commands("host", Words({"h", "-f"}), 3) \cup Commands("rm", Words({"h"}), 1)
    \cup {<<>>}
=============================================================================
