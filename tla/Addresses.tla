------------------------------- MODULE Addresses -------------------------------
(***************************************************************************)
(* What of a client's address is stored (auth/ip_address.cc): the text of a *)
(* header is parsed strictly and cut to a /24 or a /64.  A text is a        *)
(* sequence of signs and of runs of letters and digits, and grows by a      *)
(* piece at a time; a run means what HexValue and ParseOctet make of it.    *)
(* The text arrives in one of its spellings and is parsed, an action for    *)
(* each turn of ParseIpv6's loop.  An address is a sequence of GroupCount   *)
(* groups, of which an IPv4 address fills the last two.                     *)
(***************************************************************************)
EXTENDS Integers, Sequences, FiniteSets, SequencesExt

CONSTANTS Runs,        \* runs of letters and digits
          HexOf,       \* the group each is, or NoAddress
          OctetOf,     \* the decimal octet each is, or NoAddress
          Pieces,      \* what a text is put together from
          GroupCount,  \* 8: the parser compares with it only
          MaxPieces,   \* bound
          Zone, Port, MappedMark,  \* runs: a zone, a port, and "ffff"
          NoAddress

ASSUME AddressesAssumption ==
  /\ GroupCount \in Nat /\ GroupCount >= 4
  /\ MaxPieces \in Nat
  /\ {Zone, Port, MappedMark} \subseteq Runs
  /\ HexOf[MappedMark] = 65535

ASSUME RunsAreNoSigns == \A sign \in {":", ".", "%", "[", "]"} : sign \notin Runs

ASSUME RunsAreNumbers ==
  /\ NoAddress \notin Nat /\ NoAddress \notin Seq(Nat)
  /\ \A r \in Runs : HexOf[r] = NoAddress \/ (HexOf[r] \in Nat /\ HexOf[r] < 65536)
  /\ \A r \in Runs : OctetOf[r] = NoAddress \/ (OctetOf[r] \in Nat /\ OctetOf[r] < 256)

ASSUME PiecesAreText == \A p \in Pieces : p \in Seq(Runs \cup {":", "."}) /\ p # <<>>

VARIABLES text, pieces,
          stage,       \* writing, received, walking or done
          header,      \* the text as it arrived
          host,        \* what TruncateToStoragePrefix parses of it
          pos,         \* where the next group of host should begin
          head, tail,  \* the groups so far, before and after "::"
          compressed,  \* "::" was met (seen_compression, in_tail)
          parsed       \* what ParseIpv6 returned

walkVars == <<pos, head, tail, compressed>>
addressVars == <<text, pieces, stage, header, host, walkVars, parsed>>

EndsInRun(t) == t # <<>> /\ Last(t) \in Runs

Places(t, sign) == {i \in DOMAIN t : t[i] = sign}

Earliest(set) == CHOOSE i \in set : \A j \in set : i <= j

From(t, i) == SubSeq(t, i, Len(t))

UpTo(t, sign) == IF Places(t, sign) = {} THEN t
                 ELSE SubSeq(t, 1, Earliest(Places(t, sign)) - 1)
-----------------------------------------------------------------------------
\* A decimal octet at every other place, dots between.
IsQuad(t) == /\ Len(t) = 7
             /\ \A i \in {2, 4, 6} : t[i] = "."
             /\ \A i \in {1, 3, 5, 7} : t[i] \in Runs /\ OctetOf[t[i]] # NoAddress

ParseIpv4(t) ==
  IF IsQuad(t) THEN <<OctetOf[t[1]], OctetOf[t[3]], OctetOf[t[5]], OctetOf[t[7]]>>
  ELSE NoAddress

GroupsOf(v4) == <<256 * v4[1] + v4[2], 256 * v4[3] + v4[4]>>

IsGroup(sign) == sign \in Runs /\ HexOf[sign] # NoAddress

Zeros(n) == [i \in 1..n |-> 0]

\* The groups before "::" and after it become an address.
Assemble(before, after, gap) ==
  LET total == Len(before) + Len(after) IN
  IF gap /\ total < GroupCount
  THEN before \o Zeros(GroupCount - total) \o after
  ELSE IF ~gap /\ total = GroupCount THEN before ELSE NoAddress

\* Mutant: a dot anywhere in the remainder makes a dotted tail.
DottedAnywhere(t, i) == Places(From(t, i), ".") # {}

\* A dotted tail is one when its first dot comes before any colon.
Dotted(t, i) == Places(UpTo(From(t, i), ":"), ".") # {}

\* The host without brackets, port and zone; a bracket that is not closed, or
\* nothing at all, is no host.
Bare(t) ==
  IF t = <<>> THEN <<>>
  ELSE IF t[1] = "["
  THEN IF Places(t, "]") = {} THEN <<>> ELSE UpTo(UpTo(Tail(t), "]"), "%")
  ELSE IF (\E i \in DOMAIN t : Places(t, ":") = {i}) /\ Places(t, ".") # {}
  THEN UpTo(UpTo(t, ":"), "%")
  ELSE UpTo(t, "%")

\* With brackets, a port, a zone; an IPv4 address also with a bare port, or mapped.
Bracketed(t) == {<<"[">> \o t \o <<"]">>, <<"[">> \o t \o <<"]", ":", Port>>,
                 <<"[">> \o t \o <<"%", Zone, "]">>}

Spellings(t) == {t, t \o <<"%", Zone>>} \cup Bracketed(t)
Ipv4Spellings(t) == {t \o <<":", Port>>, <<":", ":", MappedMark, ":">> \o t}
-----------------------------------------------------------------------------
AddressesInit ==
  /\ text = <<>> /\ pieces = 0
  /\ stage = "writing" /\ header = <<>> /\ host = <<>>
  /\ pos = 1 /\ head = <<>> /\ tail = <<>> /\ compressed = FALSE
  /\ parsed = NoAddress

Write(p) ==
  /\ stage = "writing" /\ pieces < MaxPieces
  /\ ~(EndsInRun(text) /\ Head(p) \in Runs)
  /\ text' = text \o p /\ pieces' = pieces + 1
  /\ UNCHANGED <<stage, header, host, walkVars, parsed>>

\* TruncateToStoragePrefix looks for the host.
Receive ==
  /\ stage = "writing"
  /\ header' \in Spellings(text) \cup IF IsQuad(text) THEN Ipv4Spellings(text) ELSE {}
  /\ host' = Bare(header')
  /\ stage' = "received"
  /\ UNCHANGED <<text, pieces, walkVars, parsed>>

\* Nothing was parsed, or what was is no address.
Fails == stage' = "done" /\ UNCHANGED <<text, pieces, header, host, walkVars, parsed>>

\* Without a colon ParseIpv4 has the host.
IsNotIpv6 == stage = "received" /\ Places(host, ":") = {} /\ Fails

DoubleColonAt(i) == i < Len(host) /\ host[i] = ":" /\ host[i + 1] = ":"

\* Only before "::" may the first group be empty.
BeginParse ==
  /\ stage = "received" /\ Places(host, ":") # {}
  /\ \/ /\ host[1] # ":"
        /\ stage' = "walking" /\ UNCHANGED <<walkVars, text, pieces, header, host, parsed>>
     \/ /\ DoubleColonAt(1)
        /\ stage' = "walking" /\ pos' = 3 /\ compressed' = TRUE
        /\ UNCHANGED <<head, tail, text, pieces, header, host, parsed>>
     \/ host[1] = ":" /\ ~DoubleColonAt(1) /\ Fails

InWalk == stage = "walking" /\ pos <= Len(host)

Take(groups) ==
  /\ head' = IF compressed THEN head ELSE head \o groups
  /\ tail' = IF compressed THEN tail \o groups ELSE tail

\* A dotted tail is the rest of the text.
DottedTail ==
  /\ InWalk /\ Dotted(host, pos)
  /\ LET rest == From(host, pos) IN
     \/ ~IsQuad(rest) /\ Fails
     \/ /\ IsQuad(rest)
        /\ Take(GroupsOf(ParseIpv4(rest))) /\ pos' = Len(host) + 1
        /\ UNCHANGED <<text, pieces, stage, header, host, compressed, parsed>>

AtGroup == InWalk /\ ~Dotted(host, pos) /\ IsGroup(host[pos])

NoGroup == InWalk /\ ~Dotted(host, pos) /\ ~IsGroup(host[pos]) /\ Fails

LastGroup ==
  /\ AtGroup /\ pos = Len(host)
  /\ Take(<<HexOf[host[pos]]>>) /\ pos' = pos + 1
  /\ UNCHANGED <<text, pieces, stage, header, host, compressed, parsed>>

NextGroup ==
  /\ AtGroup /\ pos + 1 < Len(host) /\ host[pos + 1] = ":" /\ host[pos + 2] # ":"
  /\ Take(<<HexOf[host[pos]]>>) /\ pos' = pos + 2
  /\ UNCHANGED <<text, pieces, stage, header, host, compressed, parsed>>

Compress ==
  /\ AtGroup /\ DoubleColonAt(pos + 1) /\ ~compressed
  /\ Take(<<HexOf[host[pos]]>>) /\ pos' = pos + 3 /\ compressed' = TRUE
  /\ UNCHANGED <<text, pieces, stage, header, host, parsed>>

\* Only one "::" is legal.
SecondCompression == AtGroup /\ DoubleColonAt(pos + 1) /\ compressed /\ Fails

\* More in the group than it may hold, or a colon at the end.
BadGroupEnd ==
  /\ AtGroup /\ pos < Len(host) /\ (host[pos + 1] = ":" => pos + 1 = Len(host))
  /\ Fails

EndParse ==
  /\ stage = "walking" /\ pos > Len(host)
  /\ parsed' = Assemble(head, tail, compressed)
  /\ stage' = "done"
  /\ UNCHANGED <<text, pieces, header, host, walkVars>>

Walk == \/ DottedTail \/ NoGroup \/ LastGroup \/ NextGroup
        \/ Compress \/ SecondCompression \/ BadGroupEnd

AddressesNext == \/ \E p \in Pieces : Write(p)
                 \/ Receive \/ IsNotIpv6 \/ BeginParse \/ Walk \/ EndParse

AddressesSpec == AddressesInit /\ [][AddressesNext]_addressVars

Mapped(v6) == /\ SubSeq(v6, 1, GroupCount - 3) = Zeros(GroupCount - 3)
              /\ v6[GroupCount - 2] = 65535

\* The /24 of a mapped IPv4 address, or the first half.
Prefix(v6) ==
  IF Mapped(v6)
  THEN LET high == v6[GroupCount - 1]
           low  == v6[GroupCount]
       IN <<high \div 256, high % 256, low \div 256>>
  ELSE SubSeq(v6, 1, GroupCount \div 2) \o <<"::">>

\* What TruncateToStoragePrefix returns: what is stored of the address.
StoragePrefix ==
  IF Places(host, ":") # {}
  THEN IF parsed = NoAddress THEN NoAddress ELSE Prefix(parsed)
  ELSE IF IsQuad(host) THEN SubSeq(ParseIpv4(host), 1, 3) ELSE NoAddress
-----------------------------------------------------------------------------
(* What the texts mean: groups between colons, the last two of them perhaps *)
(* as a dotted quad; one "::" stands for one zero group or more.            *)

\* From i, n groups, each before a colon.
Alternate(t, i, n) == \A k \in 1..n : IsGroup(t[i + 2 * k - 2]) /\ t[i + 2 * k - 1] = ":"

HexGroups(t, i, n) == [k \in 1..n |-> HexOf[t[i + 2 * k - 2]]]

\* The groups that t lists from i to j.
Listed(t, i, j) ==
  LET dotted == \E k \in i..j : t[k] = "."
      last   == IF dotted THEN j - 6 ELSE j
      n      == (last - i) \div 2
      ending == SubSeq(t, last, j)
  IN IF j < i THEN <<>>
     ELSE IF /\ last >= i /\ last = i + 2 * n /\ Alternate(t, i, n)
             /\ IF dotted THEN IsQuad(ending) ELSE IsGroup(t[last])
     THEN HexGroups(t, i, n)
            \o (IF dotted THEN GroupsOf(ParseIpv4(ending)) ELSE <<HexOf[t[last]]>>)
     ELSE NoAddress

DoubleColons(t) == {i \in 1..(Len(t) - 1) : t[i] = ":" /\ t[i + 1] = ":"}

Meaning(t) ==
  IF DoubleColons(t) = {}
  THEN LET all == Listed(t, 1, Len(t)) IN
       IF all # NoAddress /\ Len(all) = GroupCount THEN all ELSE NoAddress
  ELSE LET i     == Earliest(DoubleColons(t))
           left  == Listed(t, 1, i - 1)
           right == Listed(t, i + 2, Len(t))
       IN IF /\ \A k \in 1..(i - 1) : t[k] # "."
             /\ left # NoAddress /\ right # NoAddress
             /\ Len(left) + Len(right) < GroupCount
          THEN left \o Zeros(GroupCount - Len(left) - Len(right)) \o right
          ELSE NoAddress

\* Out of brackets, a quad, a colon and anything: the quad is taken, whatever
\* is behind the colon (ip_address.cc:228-234).
QuadAndPort(t, h) == /\ h \notin Bracketed(t)
                     /\ \E i \in DOMAIN t : Places(t, ":") = {i}
                     /\ IsQuad(UpTo(t, ":"))

(* The parser's walk through heads, tails, dots and colons accepts exactly   *)
(* the texts that mean an address, and finds that address (ip_address.h:     *)
(* more than one "::", more groups, trailing content are rejected).  However *)
(* a proxy spells it, in brackets, with a port, with a zone, as IPv4 or      *)
(* mapped, one client has one stored prefix, that of the address it means,   *)
(* and of a text that means none nothing is stored, but for the quad of what *)
(* reads as an IPv4 address with a port.                                     *)
OnePrefix ==
  stage = "done" =>
    /\ Places(host, ":") # {} => parsed = Meaning(host)
    /\ IsQuad(text) => StoragePrefix = SubSeq(ParseIpv4(text), 1, 3)
    /\ Meaning(text) # NoAddress => StoragePrefix = Prefix(Meaning(text))
    /\ Meaning(text) = NoAddress /\ ~IsQuad(text) /\ ~QuadAndPort(text, header)
         => StoragePrefix = NoAddress
=============================================================================
