--------------------------- MODULE AsLookupProofs ---------------------------
(* Proofs about the map from addresses to ASes for addresses of any number *)
(* of bits and any file: no stored answer is stale, and where the suffix   *)
(* loop reaches every line that covers an address, the stored answer is    *)
(* the one of the longest prefix and compare_as is exact.                  *)
EXTENDS AsLookup, WellFoundedInduction, TLAPS

\* The table holds the file or nothing, and no answer from before the file.
TableOK ==
    /\ file \in Files \cup {Missing}
    /\ cidr = << >> \/ (file # Missing /\ cidr = file)
    /\ DOMAIN direct \subseteq Asked
    /\ direct \in [DOMAIN direct -> Answer]

\* The inductive invariant.
LookupInv == TableOK /\ CacheCoherent

-----------------------------------------------------------------------------
(* Prefixes *)

\* A set of naturals has a least element.
LEMMA LeastOf ==
    ASSUME NEW T \in SUBSET Nat, T # {}
    PROVE  \E x \in T : \A y \in T : x <= y
<1>1. \E x \in T : \A y \in T : ~ (<<y, x>> \in OpToRel(<, Nat))
  BY NatLessThanWellFounded, WFMin
<1>2. \A x, y \in T : <<y, x>> \in OpToRel(<, Nat) <=> y < x
  BY DEF OpToRel
<1>3. PICK x \in T : \A y \in T : ~ (y < x)
  BY <1>1, <1>2
<1>4. \A y \in T : x <= y
  BY <1>3
<1> QED  BY <1>4

\* A block of P addresses that begins at a multiple of P is the one of its
\* members.
LEMMA BlockOf ==
    ASSUME NEW P \in Nat \ {0}, NEW a \in Nat, a % P = 0, NEW ip \in Nat
    PROVE  ip \in a .. a + P - 1 <=> a = (ip \div P) * P
<1>1. PICK k \in Nat : a = P * k
  <2>1. a \div P \in Nat
    OBVIOUS
  <2>2. a = (a \div P) * P
    OBVIOUS
  <2>3. a = P * (a \div P)
    BY <2>1, <2>2
  <2>4. PICK k \in Nat : k = a \div P
    BY <2>1
  <2> QED  BY <2>3, <2>4
<1>2. ASSUME ip \in a .. a + P - 1 PROVE a = (ip \div P) * P
  <2>1. ip \in P * k .. P * k + P - 1
    BY <1>1, <1>2
  <2>2. ip \div P = k
    BY <2>1
  <2> QED  BY <1>1, <2>2
<1>3. ASSUME a = (ip \div P) * P PROVE ip \in a .. a + P - 1
  BY <1>3
<1> QED  BY <1>2, <1>3

\* The only prefix of a length that covers an address is the one that
\* formcidrstring makes.
LEMMA CoveredBy ==
    ASSUME NEW p \in Prefix, NEW ip \in Address
    PROVE  Covers(p, ip) <=> p = Cidr(ip, W - p.len)
<1> DEFINE P == Size(W - p.len)
<1>1. /\ p \in [addr : Address, len : 0 .. W] /\ p.addr % P = 0
  BY DEF Prefix
<1>2. W \in Nat /\ Size(W) \in Nat
  BY LookupAssumption, PowerAssumption
<1>3. p.len \in 0 .. W /\ W - p.len \in 0 .. W /\ W - (W - p.len) = p.len
  BY <1>1, <1>2
<1>4. P \in Nat \ {0}
  BY <1>3, PowerAssumption
<1>5. p.addr \in Nat /\ ip \in Nat
  BY <1>1, <1>2 DEF Address, Size
<1>6. p.addr % P = 0
  BY <1>1
<1> HIDE DEF P
<1>7. ip \in p.addr .. p.addr + P - 1 <=> p.addr = (ip \div P) * P
  BY <1>4, <1>5, <1>6, BlockOf
<1>8. Cidr(ip, W - p.len) = [addr |-> (ip \div P) * P, len |-> p.len]
  BY <1>3 DEF Cidr, P
<1>9. p = [addr |-> p.addr, len |-> p.len]
  BY <1>1
<1>10. p = Cidr(ip, W - p.len) <=> p.addr = (ip \div P) * P
  BY <1>8, <1>9
<1> QED  BY <1>7, <1>10 DEF Covers, P

\* If the suffix loop reaches every line that covers an address, it finds the
\* longest of them.
LEMMA SuffixFindsLongest ==
    ASSUME NEW db, DOMAIN db \subseteq Prefix, NEW ip \in Address,
           \A p \in Covering(db, ip) : p.len \in W - MaxSuffix .. W - 1
    PROVE  BySuffix(ip, db) = Longest(db, ip)
<1> DEFINE H == Hits(ip, db)
           C == Covering(db, ip)
<1>1. W \in Nat /\ MaxSuffix \in 1 .. W - 1
  BY LookupAssumption
<1>2. \A p \in C : p.len \in W - MaxSuffix .. W - 1
  OBVIOUS
<1>4. \A s : Cidr(ip, s).len = W - s
  BY DEF Cidr
<1>5. H = {s \in 1 .. MaxSuffix : Cidr(ip, s) \in DOMAIN db}
  BY DEF Hits
<1>6. C = {p \in DOMAIN db : Covers(p, ip)}
  BY DEF Covering
<1> HIDE DEF H, C
<1>7. ASSUME NEW p \in C PROVE W - p.len \in H /\ p = Cidr(ip, W - p.len)
  <2>1. p \in DOMAIN db /\ p.len \in W - MaxSuffix .. W - 1 /\ Covers(p, ip)
    BY <1>2, <1>6
  <2>2. p = Cidr(ip, W - p.len)
    BY <2>1, CoveredBy
  <2>3. W - p.len \in 1 .. MaxSuffix
    BY <1>1, <2>1
  <2> QED  BY <1>5, <2>1, <2>2, <2>3
<1>8. ASSUME NEW s \in H PROVE Cidr(ip, s) \in C
  <2>1. s \in 1 .. MaxSuffix /\ Cidr(ip, s) \in DOMAIN db
    BY <1>5
  <2>2. PICK p : p = Cidr(ip, s)
    OBVIOUS
  <2>3. p \in Prefix /\ p.len = W - s
    BY <1>4, <2>1, <2>2
  <2>4. W - p.len = s
    BY <1>1, <2>1, <2>3
  <2>5. Covers(p, ip)
    BY <2>2, <2>3, <2>4, CoveredBy
  <2> QED  BY <1>6, <2>1, <2>2, <2>5
<1>9. CASE H = {}
  <2>1. C = {}
    BY <1>7, <1>9
  <2> QED  BY <1>9, <2>1 DEF BySuffix, Longest, H, C
<1>10. CASE H # {}
  <2>1. PICK m \in H : \A s \in H : m <= s
    <3>1. H \in SUBSET Nat
      BY <1>1, <1>5
    <3> QED  BY <1>10, <3>1, LeastOf
  <2>2. Min(H) = m
    <3>1. Min(H) \in H /\ \A s \in H : Min(H) <= s
      BY <2>1 DEF Min
    <3>2. m \in Int /\ Min(H) \in Int /\ Min(H) <= m /\ m <= Min(H)
      BY <1>1, <1>5, <2>1, <3>1
    <3> QED  BY <3>2
  <2>3. PICK p : p = Cidr(ip, m)
    OBVIOUS
  <2>4. p \in C /\ p.len = W - m /\ m \in 1 .. MaxSuffix
    BY <1>4, <1>5, <1>8, <2>1, <2>3
  <2>5. ASSUME NEW q \in C PROVE q.len <= p.len
    <3>1. q.len \in W - MaxSuffix .. W - 1 /\ m <= W - q.len
      BY <1>2, <1>7, <2>1
    <3> QED  BY <1>1, <2>4, <3>1
  <2>6. ASSUME NEW q \in C, \A r \in C : r.len <= q.len PROVE q = p
    <3>1. q.len \in Int /\ p.len \in Int /\ q.len <= p.len /\ p.len <= q.len
      BY <1>1, <1>2, <2>4, <2>5, <2>6
    <3>2. q.len = p.len
      BY <3>1
    <3> QED  BY <1>7, <2>4, <3>2
  <2>7. (CHOOSE q \in C : \A r \in C : r.len <= q.len) = p
    BY <2>4, <2>5, <2>6
  <2>8. Longest(db, ip) = db[p]
    BY <2>4, <2>7 DEF Longest, C
  <2>9. BySuffix(ip, db) = db[p]
    BY <1>10, <2>2, <2>3 DEF BySuffix, H
  <2> QED  BY <2>8, <2>9
<1> QED  BY <1>9, <1>10

-----------------------------------------------------------------------------
(* The table *)

\* The table that do_whois searches is the file.
LEMMA LoadedIsFile ==
    ASSUME TableOK, ~ CannotLoad
    PROVE  file \in Files /\ Loaded = file
<1>1. file # Missing
  BY DEF TableOK, CannotLoad
<1>2. file \in Files /\ file \in [DOMAIN file -> AS]
  BY <1>1, LookupAssumption DEF TableOK
<1>3. CASE Probe \in DOMAIN cidr
  <2>1. DOMAIN << >> = {}
    OBVIOUS
  <2>2. cidr = file
    BY <1>3, <2>1 DEF TableOK
  <2> QED  BY <1>2, <1>3, <2>2 DEF Loaded
<1>4. CASE Probe \notin DOMAIN cidr
  <2>1. Loaded = Load
    BY <1>1, <1>4 DEF Loaded
  <2>2. DOMAIN file \cup DOMAIN cidr = DOMAIN file
    <3>1. DOMAIN << >> = {}
      OBVIOUS
    <3> QED  BY <3>1 DEF TableOK
  <2>3. Load = [x \in DOMAIN file |-> file[x]]
    BY <2>2 DEF Load, Installed
  <2>4. file = [x \in DOMAIN file |-> file[x]]
    BY <1>2
  <2> QED  BY <1>2, <2>1, <2>3, <2>4
<1> QED  BY <1>3, <1>4

\* What is found is what a search of the file finds, and an answer.
LEMMA FoundExact ==
    ASSUME TableOK, ~ CannotLoad, NEW ip \in Asked
    PROVE  /\ BySuffix(ip, Loaded) = BySuffix(ip, file)
           /\ BySuffix(ip, Loaded) \in Answer
<1>1. file \in Files /\ Loaded = file
  BY LoadedIsFile
<1>2. DOMAIN file \subseteq Prefix /\ file \in [DOMAIN file -> AS] /\ ip \in Address
  BY <1>1, LookupAssumption
<1>4. BySuffix(ip, file) \in Answer
  <2>1. CASE Hits(ip, file) = {}
    BY <2>1 DEF BySuffix, Answer
  <2>2. CASE Hits(ip, file) # {}
    <3>1. PICK H : H = Hits(ip, file)
      OBVIOUS
    <3>2. H \in SUBSET Nat /\ H # {}
      BY <2>2, <3>1, LookupAssumption DEF Hits
    <3>3. \E m \in H : \A s \in H : m <= s
      BY <3>2, LeastOf
    <3>4. Min(H) \in H
      BY <3>3 DEF Min
    <3>5. Cidr(ip, Min(H)) \in DOMAIN file
      BY <3>1, <3>4 DEF Hits
    <3>6. BySuffix(ip, file) = file[Cidr(ip, Min(H))]
      BY <2>2, <3>1 DEF BySuffix
    <3> QED  BY <1>2, <3>5, <3>6 DEF Answer
  <2> QED  BY <2>1, <2>2
<1> QED  BY <1>1, <1>4

\* Once the file is there, do_whois answers as a search of the file does, from
\* the stored answers as well.
LEMMA WhoisExact ==
    ASSUME TableOK, CacheCoherent, file # Missing, NEW ip \in Asked
    PROVE  Whois(ip) = BySuffix(ip, file)
<1>1. ~ CannotLoad
  BY DEF CannotLoad
<1>2. CASE ip \in DOMAIN direct
  BY <1>1, <1>2 DEF Whois, CacheCoherent
<1>3. CASE ip \notin DOMAIN direct
  BY <1>1, <1>3, FoundExact DEF Whois
<1> QED  BY <1>2, <1>3

\* Where the loop reaches every line, that is the longest prefix.
LEMMA SearchableLongest ==
    ASSUME TableOK, file # Missing, NEW ip \in Asked, Searchable(ip)
    PROVE  BySuffix(ip, file) = Longest(file, ip)
<1>1. file \in Files /\ DOMAIN file \subseteq Prefix /\ ip \in Address
  BY LookupAssumption DEF TableOK
<1> QED  BY <1>1, SuffixFindsLongest DEF Searchable

\* The calls leave the table as it should be.
LEMMA Remembered ==
    ASSUME TableOK, CacheCoherent, NEW ips \in SUBSET Asked, Remember(ips),
           UNCHANGED file
    PROVE  TableOK' /\ CacheCoherent'
<1>1. CASE CannotLoad
  <2>1. UNCHANGED <<cidr, direct>>
    BY <1>1 DEF Remember
  <2> QED  BY <2>1 DEF TableOK, CacheCoherent
<1>2. CASE ~ CannotLoad
  <2> DEFINE new == [ip \in ips |-> BySuffix(ip, Loaded)]
  <2>1. file \in Files /\ cidr' = file /\ direct' = Installed(direct, new)
    BY <1>2, LoadedIsFile DEF Remember
  <2>2. file # Missing
    BY <2>1, LookupAssumption
  <2>3. \A ip \in ips : /\ new[ip] = BySuffix(ip, file)
                        /\ new[ip] \in Answer
    BY <1>2, FoundExact
  <2>4. DOMAIN new = ips
    OBVIOUS
  <2> HIDE DEF new
  <2>5. DOMAIN direct' = DOMAIN direct \cup ips
    BY <2>1, <2>4 DEF Installed
  <2>6. \A ip \in DOMAIN direct' :
            direct'[ip] = IF ip \in DOMAIN direct THEN direct[ip] ELSE new[ip]
    BY <2>1, <2>4 DEF Installed
  <2>7. ASSUME NEW ip \in DOMAIN direct'
        PROVE  direct'[ip] = BySuffix(ip, file) /\ direct'[ip] \in Answer
    <3>1. CASE ip \in DOMAIN direct
      <4>1. direct'[ip] = direct[ip]
        BY <2>6, <3>1
      <4>2. direct[ip] \in Answer
        BY <3>1 DEF TableOK
      <4> QED  BY <3>1, <4>1, <4>2 DEF CacheCoherent
    <3>2. CASE ip \notin DOMAIN direct
      <4>1. ip \in ips /\ direct'[ip] = new[ip]
        BY <2>5, <2>6, <3>2
      <4> QED  BY <2>3, <4>1
    <3> QED  BY <3>1, <3>2
  <2>8. direct' = [ip \in DOMAIN direct' |-> direct'[ip]]
    BY <2>1, <2>5 DEF Installed
  <2>9. direct' \in [DOMAIN direct' -> Answer]
    BY <2>7, <2>8
  <2>10. DOMAIN direct' \subseteq Asked
    BY <2>5 DEF TableOK
  <2>11. TableOK'
    BY <2>1, <2>2, <2>9, <2>10 DEF TableOK
  <2>12. CacheCoherent'
    BY <2>2, <2>7 DEF CacheCoherent
  <2> QED  BY <2>11, <2>12
<1> QED  BY <1>1, <1>2

-----------------------------------------------------------------------------
(* The steps *)

\* At the start the table is empty.
LEMMA LookupInitInv == LookupInit => LookupInv
<1> SUFFICES ASSUME LookupInit PROVE LookupInv
  OBVIOUS
<1>1. DOMAIN << >> = {}
  OBVIOUS
<1>2. file \in Files \cup {Missing} /\ cidr = << >> /\ direct = << >>
  BY DEF LookupInit
<1>3. direct \in [DOMAIN direct -> Answer]
  BY <1>1, <1>2
<1>4. TableOK
  BY <1>1, <1>2, <1>3 DEF TableOK
<1>5. CacheCoherent
  BY <1>1, <1>2 DEF CacheCoherent
<1> QED  BY <1>4, <1>5 DEF LookupInv

\* The file is put in place: nothing was stored without it.
LEMMA FileAppearsStep ==
    ASSUME LookupInv, FileAppears
    PROVE  LookupInv'
<1>1. file = Missing /\ file' \in Files /\ UNCHANGED <<cidr, direct>>
  BY DEF FileAppears
<1>2. cidr = << >> /\ DOMAIN direct = {}
  BY <1>1 DEF LookupInv, TableOK, CacheCoherent
<1>3. TableOK'
  BY <1>1, <1>2 DEF LookupInv, TableOK
<1>4. CacheCoherent'
  BY <1>1, <1>2 DEF CacheCoherent
<1> QED  BY <1>3, <1>4 DEF LookupInv

\* No step breaks the invariant.
LEMMA LookupStep == LookupInv /\ [LookupNext]_lookupVars => LookupInv'
<1> SUFFICES ASSUME LookupInv, [LookupNext]_lookupVars PROVE LookupInv'
  OBVIOUS
<1>1. ASSUME NEW ips \in SUBSET Asked, Remember(ips), UNCHANGED file
      PROVE  LookupInv'
  BY <1>1, Remembered DEF LookupInv
<1>2. CASE \E ip \in Asked : DoWhois(ip)
  BY <1>1, <1>2 DEF DoWhois
<1>3. CASE \E a \in Asked : CompareSameName(a)
  BY <1>3 DEF CompareSameName, LookupInv, TableOK, CacheCoherent
<1>4. CASE \E a, b \in Asked : CompareAs(a, b)
  BY <1>1, <1>4 DEF CompareAs
<1>5. CASE FileAppears
  BY <1>5, FileAppearsStep
<1>6. CASE UNCHANGED lookupVars
  BY <1>6 DEF lookupVars, LookupInv, TableOK, CacheCoherent
<1> QED  BY <1>2, <1>3, <1>4, <1>5, <1>6 DEF LookupNext

\* The invariant holds throughout every sequence of calls.
THEOREM LookupInvHolds == LookupSpec => []LookupInv
  BY LookupInitInv, LookupStep, PTL DEF LookupSpec

\* For addresses of any length and any file, no stored answer differs from
\* the one a search of the file would now give: none is stale or a default
\* (do_whois, install).
THEOREM StoredAnswersFresh == LookupSpec => []CacheCoherent
<1>1. LookupInv => CacheCoherent
  BY DEF LookupInv
<1> QED  BY <1>1, LookupInvHolds, PTL

\* The stored answer of an address is the AS of the longest prefix of the
\* file, if no line that covers it has a length the suffix loop leaves out.
THEOREM StoredAnswersLongest == LookupSpec => []StoredIsLongest
<1>1. LookupInv => StoredIsLongest
  <2> SUFFICES ASSUME LookupInv, NEW ip \in DOMAIN direct, Searchable(ip)
               PROVE  direct[ip] = Longest(file, ip)
    BY DEF StoredIsLongest
  <2>1. ip \in Asked /\ file # Missing /\ direct[ip] = BySuffix(ip, file)
    BY DEF LookupInv, TableOK, CacheCoherent
  <2> QED  BY <2>1, SearchableLongest DEF LookupInv
<1> QED  BY <1>1, LookupInvHolds, PTL

\* One call of compare_as.
LEMMA CompareStep ==
    ASSUME LookupInv, NEW a \in Asked, NEW b \in Asked, CompareAs(a, b),
           file # Missing, Probe \in DOMAIN file \/ a \in DOMAIN direct,
           Searchable(a), Searchable(b)
    PROVE  last'.val = 1 <=> Longest(file, a) = Longest(file, b)
<1>1. PICK r \in {0, 1} :
          /\ ReturnedStringFreed(a) \/ r = IF Whois(a) = Whois(b) THEN 1 ELSE 0
          /\ last'.val = r
  BY DEF CompareAs
<1>2. Loaded = file
  BY LoadedIsFile DEF LookupInv, CannotLoad
<1>3. ~ ReturnedStringFreed(a)
  BY <1>2 DEF ReturnedStringFreed
<1>4. Whois(a) = Longest(file, a) /\ Whois(b) = Longest(file, b)
  BY WhoisExact, SearchableLongest DEF LookupInv
<1> QED  BY <1>1, <1>3, <1>4

\* compare_as is exact for addresses in the map whose lines the suffix loop
\* reaches, unless the second lookup frees the string of the first.
THEOREM ComparisonExact == LookupSpec => CompareExact
<1>1. LookupInv /\ [LookupNext]_lookupVars =>
        [\A a, b \in Asked :
            /\ file # Missing
            /\ CompareAs(a, b)
            /\ Probe \in DOMAIN file \/ a \in DOMAIN direct
            /\ Searchable(a) /\ Searchable(b)
            /\ ~ (Longest(file, a) = NoAS /\ Longest(file, b) = NoAS)
            => (last'.val = 1 <=> Longest(file, a) = Longest(file, b))]_lookupVars
  BY CompareStep
<1> QED  BY <1>1, LookupInvHolds, PTL DEF LookupSpec, CompareExact

=============================================================================
