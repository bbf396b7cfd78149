------------------------------ MODULE AsLookup ------------------------------
(***************************************************************************)
(* The map from addresses to ASes of the client (do_whois, compare_as and  *)
(* the hash table under them, or/circuituse.c).  The table is loaded from  *)
(* a file of "AS prefix" lines at the first use; an address is looked up   *)
(* by clearing 1, 2, ... of its low bits and looking for that prefix; the  *)
(* answer is stored in the same table under the plain address.             *)
(*                                                                         *)
(* An address is a number below 2^W (W = 32 in the code).  The table has   *)
(* two kinds of names, "a.b.c.d/len" and "a.b.c.d": they are the domains   *)
(* of the partial functions cidr and direct.                               *)
(***************************************************************************)
EXTENDS Integers, Sequences, FiniteSets, FiniteSetsExt

CONSTANTS
    W,            \* bits of an address
    MaxSuffix,    \* most low bits the lookup clears (28 in the code)
    AS,           \* AS numbers
    DefaultAS,    \* the answer when the file cannot be opened ("1")
    NoAS,         \* the answer for an address without prefix ("-1")
    Files,        \* the maps from prefixes to ASes the file may hold
    Missing,      \* the file is not there
    Probe,        \* the prefix looked up to see if the file was loaded
    Asked         \* the addresses the client asks about

Address == 0 .. 2^W - 1
Answer == AS \cup {NoAS}

\* The addresses that share all but their last s bits.
Size(s) == 2^s

\* A line of the file: the bits behind the prefix are 0.
Prefix == {p \in [addr : Address, len : 0 .. W] : p.addr % Size(W - p.len) = 0}

ASSUME LookupAssumption ==
    /\ W \in Nat \ {0}
    /\ MaxSuffix \in 1 .. W - 1
    /\ DefaultAS \in AS
    /\ NoAS \notin AS
    /\ Asked \subseteq Address
    /\ Missing \notin Files
    /\ \A f \in Files : DOMAIN f \subseteq Prefix /\ f \in [DOMAIN f -> AS]

\* A fact of arithmetic, for the provers, which know no powers.
ASSUME PowerAssumption == \A s \in 0 .. W : Size(s) \in Nat \ {0}

VARIABLES
    file,         \* content of 0315-ip-as-map.txt, or Missing
    cidr,         \* the table: names with a length
    direct,       \* the table: plain addresses
    last          \* the last call: its addresses and its result

lookupVars == <<file, cidr, direct, last>>

-----------------------------------------------------------------------------
\* formcidrstring: the low suffix bits cleared, and the length.
Cidr(ip, suffix) ==
    [addr |-> (ip \div Size(suffix)) * Size(suffix), len |-> W - suffix]

\* install on every name of f: a name already in g is redefined.
Installed(f, g) ==
    [x \in DOMAIN f \cup DOMAIN g |-> IF x \in DOMAIN f THEN f[x] ELSE g[x]]

\* Every line of the file is installed.
Load == Installed(file, cidr)

\* The table after the test for the probe at the top of do_whois.
Loaded ==
    IF Probe \in DOMAIN cidr \/ file = Missing THEN cidr ELSE Load

\* Mutant of Hits: the suffix loop begins one too late.
HitsFromTwo(ip, table) ==
    {s \in 2 .. MaxSuffix : Cidr(ip, s) \in DOMAIN table}

\* Mutant of Hits: the suffix loop ends one too early.
HitsOneShort(ip, table) ==
    {s \in 1 .. MaxSuffix - 1 : Cidr(ip, s) \in DOMAIN table}

\* The loop over the suffixes: the first hit is the smallest suffix.
Hits(ip, table) == {s \in 1 .. MaxSuffix : Cidr(ip, s) \in DOMAIN table}

BySuffix(ip, table) ==
    IF Hits(ip, table) = {}
    THEN NoAS
    ELSE table[Cidr(ip, Min(Hits(ip, table)))]

CannotLoad == Probe \notin DOMAIN cidr /\ file = Missing

Whois(ip) ==
    IF CannotLoad THEN DefaultAS
    ELSE IF ip \in DOMAIN direct THEN direct[ip]
    ELSE BySuffix(ip, Loaded)

\* Mutant of Remember: the default answer is stored as well.
RememberDefault(ips) ==
    /\ cidr' = Loaded
    /\ direct' = Installed(direct,
                    [ip \in ips |-> IF CannotLoad THEN DefaultAS
                                    ELSE BySuffix(ip, Loaded)])

\* What the calls of do_whois for the addresses ips leave in the table: an
\* answer found there is not looked up again.
Remember(ips) ==
    IF CannotLoad
    THEN UNCHANGED <<cidr, direct>>
    ELSE /\ cidr' = Loaded
         /\ direct' = Installed(direct, [ip \in ips |-> BySuffix(ip, Loaded)])

LookupInit ==
    /\ file \in Files \cup {Missing}
    /\ cidr = << >>
    /\ direct = << >>
    /\ last = [ips |-> << >>, val |-> NoAS]

\* A call of do_whois from the circuit code.
DoWhois(ip) ==
    /\ last' = [ips |-> <<ip>>, val |-> Whois(ip)]
    /\ Remember({ip})
    /\ UNCHANGED file

\* With a file that lacks the probe the second do_whois of compare_as loads
\* the file again, and install frees the string the first one returned.
ReturnedStringFreed(ip) ==
    /\ ~ CannotLoad
    /\ Probe \notin DOMAIN Loaded
    /\ ip \notin DOMAIN direct
    /\ Hits(ip, Loaded) # {}

\* compare_as: equal names are equal ASes, the table is not looked at.
CompareSameName(a) ==
    /\ last' = [ips |-> <<a, a>>, val |-> 1]
    /\ UNCHANGED <<file, cidr, direct>>

\* compare_as: else two calls of do_whois.
CompareAs(a, b) ==
    /\ a # b
    /\ \E r \in {0, 1} :
          /\ \/ ReturnedStringFreed(a)
             \/ r = IF Whois(a) = Whois(b) THEN 1 ELSE 0
          /\ last' = [ips |-> <<a, b>>, val |-> r]
    /\ Remember({a, b})
    /\ UNCHANGED file

\* The file is put in place while the client runs.
FileAppears ==
    /\ file = Missing
    /\ file' \in Files
    /\ UNCHANGED <<cidr, direct, last>>

LookupNext ==
    \/ \E ip \in Asked : DoWhois(ip)
    \/ \E a \in Asked : CompareSameName(a)
    \/ \E a, b \in Asked : CompareAs(a, b)
    \/ FileAppears

LookupSpec == LookupInit /\ [][LookupNext]_lookupVars

-----------------------------------------------------------------------------
(* Reference: the longest prefix that covers an address *)

Covers(p, ip) == ip \in p.addr .. p.addr + Size(W - p.len) - 1

Covering(db, ip) == {p \in DOMAIN db : Covers(p, ip)}

Longest(db, ip) ==
    IF Covering(db, ip) = {}
    THEN NoAS
    ELSE db[CHOOSE p \in Covering(db, ip) :
                \A q \in Covering(db, ip) : q.len <= p.len]

\* The suffix loop tries the lengths W - 1 down to W - MaxSuffix: it decides
\* the address if no other line covers it.
Searchable(ip) ==
    \A p \in Covering(file, ip) : p.len \in W - MaxSuffix .. W - 1

(* Properties *)

\* Table and results have their types.
LookupTypeOK ==
    /\ DOMAIN cidr \subseteq [addr : Address, len : 0 .. W]
    /\ DOMAIN direct \subseteq Address
    /\ \A ip \in DOMAIN direct : direct[ip] \in Answer
    /\ last.ips \in {<< >>} \cup {<<a>> : a \in Asked} \cup (Asked \X Asked)
    /\ last.val \in Answer \cup {0, 1}

\* Whatever calls came before, the stored answer of an address is the one a
\* search of the file as it now is would give: no answer given while the file
\* was missing gets into the table, and no reload makes one stale.
CacheCoherent ==
    \A ip \in DOMAIN direct :
        file # Missing /\ direct[ip] = BySuffix(ip, file)

\* What the table answers for an address none of whose lines has a length
\* outside the suffix loop is the AS of the longest prefix of the file.
StoredIsLongest ==
    \A ip \in DOMAIN direct :
        Searchable(ip) => direct[ip] = Longest(file, ip)

\* "Now, we want to find the longest prefix match in the database"
\* (circuituse.c:533): the same of every address, whatever the file holds.
LongestMatch == \A ip \in DOMAIN direct : direct[ip] = Longest(file, ip)

\* A call of compare_as on two addresses, one of them in the map, answers 1
\* exactly if the map puts them in the same AS.  The file must be there, the
\* loop must reach the lines of both, and the string of the first lookup must
\* survive the second one: the file has the probe and is not read again, or
\* the first address was asked before and has a string of its own.
CompareExact ==
    [][\A a, b \in Asked :
          /\ file # Missing
          /\ CompareAs(a, b)
          /\ Probe \in DOMAIN file \/ a \in DOMAIN direct
          /\ Searchable(a) /\ Searchable(b)
          /\ ~ (Longest(file, a) = NoAS /\ Longest(file, b) = NoAS)
          => (last'.val = 1 <=> Longest(file, a) = Longest(file, b))]_lookupVars
=============================================================================
