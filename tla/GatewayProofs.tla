---------------------------- MODULE GatewayProofs ----------------------------
(***************************************************************************)
(* Proofs about Gateway, for any number of sites, paths, clients and keys  *)
(* and any rules that meet DeploymentAssumption.                           *)
(***************************************************************************)
EXTENDS Gateway, TLAPS, SequenceTheorems, WellFoundedInduction

\* The base of the path a client began at.
Base(x) == publicBase(Route(x.path), x.path)

\* A client is still at the base it began at; a walk fails only at a site
\* without scopes.
WalkOK(x) ==
    /\ x.stage \notin {"idle", "failed"} => \E e \in oauthSuffixes : x.url = Base(x) \o e
    /\ x.stage \in {"register", "authorize", "callback", "token", "done"} => x.issuer = Base(x)
    /\ x.stage = "failed" => Scopes[Route(x.path)] = {}
    /\ x.stage = "done" => x.token.iss = Base(x) /\ x.token.scope = x.scope

\* A token's issuer is the base of its site and its one audience, and its key
\* is published as long as the token is accepted.
TokenOK(t) ==
    /\ t.aud = {t.iss \o <<"">>}
    /\ \E p \in Segments : t.site = Route(p) /\ t.iss = publicBase(Route(p), p)
    /\ t.nbf <= now
    /\ now <= t.exp + Skew => t.kid \in published

WalkInv == \A c \in Clients : WalkOK(session[c])

TokenInv == \A t \in minted : TokenOK(t)

GatewayInv == WalkInv /\ TokenInv /\ BackendIsolation

------------------------------------------------------------------------------
(* Paths *)

\* A set of numbers up to n has a greatest element.
LEMMA Greatest ==
    ASSUME NEW n \in Nat, NEW T, T \subseteq 0 .. n, T # {}
    PROVE  \E m \in T : \A x \in T : x <= m
<1> DEFINE D == {n - x : x \in T}
<1>1. D \subseteq Nat
  OBVIOUS
<1>2. D # {}
  OBVIOUS
<1> DEFINE R == OpToRel(<, Nat)
<1>3. IsWellFoundedOn(R, Nat)
  BY NatLessThanWellFounded
<1>4. \A x, y \in Nat : x < y => <<x, y>> \in R
  BY DEF OpToRel
<1> HIDE DEF D, R
<1>5. PICK d \in D : \A y \in D : ~ (<<y, d>> \in R)
  BY <1>1, <1>2, <1>3, WFMin
<1>6. PICK m \in T : d = n - m
  BY <1>5 DEF D
<1>7. ASSUME NEW x \in T PROVE x <= m
  <2>1. n - x \in D /\ n - x \in Nat /\ n - m \in Nat /\ m \in Nat /\ x \in Nat
    BY <1>1 DEF D
  <2>2. ~ (n - x < n - m)
    BY <1>4, <1>5, <1>6, <2>1
  <2> QED
    BY <2>1, <2>2
<1> QED
  BY <1>7

\* The last index in a set of indices, or 0.
LEMMA LastIndex ==
    ASSUME NEW n \in Nat, NEW E, E \subseteq 1 .. n
    PROVE  /\ Max({0} \cup E) \in 0 .. n
           /\ Max({0} \cup E) # 0 => Max({0} \cup E) \in E
           /\ \A i \in 1 .. n : i > Max({0} \cup E) => i \notin E
<1> DEFINE T == {0} \cup E
           m == Max(T)
<1>1. T \subseteq 0 .. n /\ T # {}
  OBVIOUS
<1>2. PICK x \in T : \A y \in T : y <= x
  BY <1>1, Greatest
<1>3. \A y \in T : x >= y
  BY <1>1, <1>2
<1>4. m \in T /\ \A y \in T : m >= y
  BY <1>3 DEF Max
<1> HIDE DEF m
<1>5. m \in 0 .. n /\ (m # 0 => m \in E) /\ \A i \in 1 .. n : i > m => i \notin E
  BY <1>1, <1>4
<1> QED
  BY <1>5 DEF m

\* What TrimRight cuts off is empty segments.
LEMMA TrimFact ==
    ASSUME NEW p \in Segments
    PROVE  /\ TrimRight(p) \in Segments /\ Len(TrimRight(p)) \in 0 .. Len(p)
           /\ \A i \in 1 .. Len(TrimRight(p)) : TrimRight(p)[i] = p[i]
           /\ \A i \in 1 .. Len(p) : i > Len(TrimRight(p)) => p[i] = ""
           /\ Len(TrimRight(p)) # 0 => p[Len(TrimRight(p))] # ""
<1> DEFINE E == {i \in 1 .. Len(p) : p[i] # ""}
           m == Max({0} \cup E)
<1>1. Len(p) \in Nat
  BY DEF Segments
<1>2. E \subseteq 1 .. Len(p) /\ \A i \in 1 .. Len(p) : i \in E <=> p[i] # ""
  BY Zenon
<1>3. TrimRight(p) = SubSeq(p, 1, m)
  BY DEF TrimRight
<1> HIDE DEF E
<1>4. m \in 0 .. Len(p) /\ (m # 0 => m \in E) /\ \A i \in 1 .. Len(p) : i > m => i \notin E
  BY <1>1, <1>2, LastIndex
<1> HIDE DEF m
<1>5. \A i \in 1 .. Len(p) : i > m => p[i] = ""
  BY <1>2, <1>4, Zenon
<1>6. m # 0 => p[m] # ""
  BY <1>2, <1>4, Zenon
<1>7. /\ SubSeq(p, 1, m) \in Segments /\ Len(SubSeq(p, 1, m)) = m
      /\ \A i \in 1 .. m : SubSeq(p, 1, m)[i] = p[i]
  BY <1>1, <1>4 DEF Segments
<1> QED
  BY <1>3, <1>4, <1>5, <1>6, <1>7, Zenon

\* The path ends in a slash.
Slashed(q) == Len(q) # 0 /\ q[Len(q)] = ""

\* The length of a path is a number, and the index of its last segment.
LEMMA LenFact ==
    ASSUME NEW q \in Segments
    PROVE  Len(q) \in Nat /\ (Len(q) # 0 => Len(q) \in 1 .. Len(q))
BY DEF Segments

\* A path that ends in no slash is left alone.
LEMMA TrimStays ==
    ASSUME NEW q \in Segments, ~Slashed(q)
    PROVE  TrimRight(q) = q
<1> DEFINE x == TrimRight(q)
<1>1. Len(q) \in Nat
  BY LenFact
<1>2. /\ x \in Segments /\ Len(x) \in 0 .. Len(q)
      /\ \A i \in 1 .. Len(x) : x[i] = q[i]
      /\ \A i \in 1 .. Len(q) : i > Len(x) => q[i] = ""
  BY TrimFact
<1> HIDE DEF x
<1>3. Len(x) \in 0 .. Len(q)
  BY <1>2
<1>4. Len(x) = Len(q)
  <2>1. CASE Len(q) = 0
    BY <1>3, <2>1
  <2>2. CASE Len(q) # 0
    <3>1. ~(Len(q) > Len(x))
      BY <1>2, <2>2, LenFact, Zenon DEF Slashed
    <3> QED
      BY <1>1, <1>3, <3>1
  <2> QED
    BY <2>1, <2>2
<1>5. x = q
  BY <1>2, <1>4, SeqEqual DEF Segments
<1> QED
  BY <1>5 DEF x

\* TrimRight is idempotent.
LEMMA TrimTwice ==
    ASSUME NEW p \in Segments
    PROVE  TrimRight(TrimRight(p)) = TrimRight(p)
<1> DEFINE q == TrimRight(p)
<1>1. /\ q \in Segments /\ \A i \in 1 .. Len(q) : q[i] = p[i]
      /\ Len(q) # 0 => p[Len(q)] # ""
  BY TrimFact
<1> HIDE DEF q
<1>2. ~Slashed(q)
  BY <1>1, LenFact, Zenon DEF Slashed
<1>3. TrimRight(q) = q
  BY <1>1, <1>2, TrimStays
<1> QED
  BY <1>3 DEF q

\* What IsPrefix says of paths.
LEMMA PrefixFact ==
    ASSUME NEW r \in Segments, NEW p \in Segments
    PROVE  IsPrefix(r, p) <=> Len(r) <= Len(p) /\ \A i \in 1 .. Len(r) : r[i] = p[i]
<1>1. ASSUME Len(r) <= Len(p)
      PROVE  SubSeq(r, 1, Len(r)) = SubSeq(p, 1, Len(r)) <=> \A i \in 1 .. Len(r) : r[i] = p[i]
  <2> DEFINE x == SubSeq(r, 1, Len(r))
             y == SubSeq(p, 1, Len(r))
  <2>1. /\ x \in Segments /\ Len(x) = Len(r) /\ \A i \in 1 .. Len(r) : x[i] = r[i]
        /\ y \in Segments /\ Len(y) = Len(r) /\ \A i \in 1 .. Len(r) : y[i] = p[i]
    BY <1>1 DEF Segments
  <2> HIDE DEF x, y
  <2>2. (\A i \in 1 .. Len(r) : r[i] = p[i]) => x = y
    BY <2>1, SeqEqual DEF Segments
  <2> QED
    BY <2>1, <2>2 DEF x, y
<1> QED
  BY <1>1 DEF IsPrefix

------------------------------------------------------------------------------
(* Routes *)

\* Segments that no rule contains.
Reserved == {"", "oauth", ".well-known"}

\* The site has the longest rule that the path starts with.
Owns(s, p) == s \in Matching(p) /\ \A x \in Matching(p) : Len(Rule[x]) <= Len(Rule[s])

\* Rules are paths without reserved segments.
LEMMA RuleFact ==
    ASSUME NEW s \in Sites
    PROVE  /\ Rule[s] \in Segments /\ Len(Rule[s]) \in Nat
           /\ \A i \in 1 .. Len(Rule[s]) : Rule[s][i] \notin Reserved
<1>1. Rule \in [Sites -> Segments] /\ \A i \in DOMAIN Rule[s] : Rule[s][i] \notin Reserved
  BY DeploymentAssumption, Zenon DEF Segments, Reserved
<1>2. Rule[s] \in Segments
  BY <1>1
<1>3. Len(Rule[s]) \in Nat /\ DOMAIN Rule[s] = 1 .. Len(Rule[s])
  BY <1>2 DEF Segments
<1> QED
  BY <1>1, <1>2, <1>3, Zenon

\* Every path has an owner, and it is the site the path is routed to.
LEMMA RouteOwns ==
    ASSUME NEW p \in Segments
    PROVE  Route(p) \in Sites /\ Owns(Route(p), p)
<1> DEFINE T == {Len(Rule[s]) : s \in Matching(p)}
<1>1. Len(p) \in Nat
  BY DEF Segments
<1>2. PICK s \in Sites : Rule[s] = <<>>
  BY DeploymentAssumption, Zenon
<1>3. s \in Matching(p)
  <2>1. Len(Rule[s]) = 0
    BY <1>2
  <2>2. IsPrefix(Rule[s], p)
    BY <1>1, <2>1, PrefixFact, RuleFact
  <2> QED
    BY <2>2 DEF Matching
<1>4. \A x \in Matching(p) : x \in Sites /\ Len(Rule[x]) \in 0 .. Len(p)
  BY <1>1, PrefixFact, RuleFact DEF Matching
<1>5. T \subseteq 0 .. Len(p)
  BY <1>4
<1>6. T # {}
  BY <1>3
<1>7. PICK m \in T : \A x \in T : x <= m
  BY <1>1, <1>5, <1>6, Greatest
<1>8. \E x \in Matching(p) : \A y \in Matching(p) : Len(Rule[y]) <= Len(Rule[x])
  BY <1>7
<1>9. Route(p) \in Matching(p) /\ \A y \in Matching(p) : Len(Rule[y]) <= Len(Rule[Route(p)])
  BY <1>8 DEF Route
<1> QED
  BY <1>4, <1>9 DEF Owns

\* Rules are distinct, so a path has one owner.
LEMMA OneOwner ==
    ASSUME NEW p \in Segments, NEW s \in Sites, NEW x \in Sites, Owns(s, p), Owns(x, p)
    PROVE  s = x
<1>1. /\ Rule[s] \in Segments /\ Rule[x] \in Segments
      /\ Len(Rule[s]) \in Nat /\ Len(Rule[x]) \in Nat
  BY RuleFact
<1>2. Len(Rule[s]) = Len(Rule[x])
  BY <1>1 DEF Owns
<1>3. IsPrefix(Rule[s], p) /\ IsPrefix(Rule[x], p)
  BY DEF Owns, Matching
<1>4. \A i \in 1 .. Len(Rule[s]) : Rule[s][i] = Rule[x][i]
  BY <1>1, <1>2, <1>3, PrefixFact
<1>5. Rule[s] = Rule[x]
  BY <1>1, <1>2, <1>4, SeqEqual DEF Segments
<1> QED
  BY <1>5, DeploymentAssumption, Zenon

\* What follows q in p begins with a segment that no rule contains.
Stem(q, p) ==
    /\ q \in Segments /\ p \in Segments /\ Len(q) <= Len(p)
    /\ \A i \in 1 .. Len(q) : q[i] = p[i]
    /\ Len(q) < Len(p) => p[Len(q) + 1] \in Reserved

\* Such a stem is routed like the path.
LEMMA StemMatches ==
    ASSUME NEW q, NEW p, Stem(q, p)
    PROVE  Matching(q) = Matching(p)
<1> SUFFICES ASSUME NEW s \in Sites PROVE IsPrefix(Rule[s], q) <=> IsPrefix(Rule[s], p)
  BY DEF Matching
<1>1. q \in Segments /\ p \in Segments
  BY DEF Stem
<1>2. Len(q) \in Nat /\ Len(p) \in Nat
  BY <1>1 DEF Segments
<1>3. ASSUME IsPrefix(Rule[s], q) PROVE IsPrefix(Rule[s], p)
  BY <1>1, <1>2, <1>3, PrefixFact, RuleFact DEF Stem
<1>4. ASSUME IsPrefix(Rule[s], p) PROVE IsPrefix(Rule[s], q)
  <2>1. Len(Rule[s]) <= Len(p) /\ \A i \in 1 .. Len(Rule[s]) : Rule[s][i] = p[i]
    BY <1>1, <1>4, PrefixFact, RuleFact
  <2>2. Len(Rule[s]) <= Len(q)
    <3> SUFFICES ASSUME Len(q) < Len(Rule[s]) PROVE FALSE
      BY <1>2, RuleFact
    <3>1. Len(q) + 1 \in 1 .. Len(Rule[s]) /\ Len(q) < Len(p)
      BY <1>2, <2>1, RuleFact
    <3> QED
      BY <2>1, <3>1, RuleFact DEF Stem
  <2> QED
    BY <1>1, <1>2, <2>1, <2>2, PrefixFact, RuleFact DEF Stem
<1> QED
  BY <1>3, <1>4

------------------------------------------------------------------------------
(* Bases *)

\* An OAuth suffix has two segments, the first of them reserved.
LEMMA SuffixesFact ==
    ASSUME NEW e \in oauthSuffixes
    PROVE  e \in Segments /\ Len(e) = 2 /\ e[1] \in Reserved
<1>1. ASSUME NEW x \in Names, NEW y \in Names PROVE <<x, y>> \in Segments /\ Len(<<x, y>>) = 2
  BY DEF Segments
<1>2. e \in Names \X Names
  BY NamesAssumption, Zenon
<1>3. e[1] \in Reserved
  <2>1. (\E y : e = <<".well-known", y>>) \/ (\E y : e = <<"oauth", y>>)
    BY Zenon DEF oauthSuffixes
  <2>2. e[1] = ".well-known" \/ e[1] = "oauth"
    BY <2>1
  <2> QED
    BY <2>2 DEF Reserved
<1> QED
  BY <1>1, <1>2, <1>3

\* A path that MatchOAuthSuffix accepts, cut before its suffix.
LEMMA MatchFact ==
    ASSUME NEW p \in Segments, MatchOAuthSuffix(p)
    PROVE  /\ Prefix(p) \in Segments /\ Len(p) >= 2 /\ Len(Prefix(p)) = Len(p) - 2
           /\ \A i \in 1 .. Len(Prefix(p)) : Prefix(p)[i] = p[i]
           /\ p[Len(p) - 1] \in Reserved
<1>1. Len(p) \in Nat /\ Len(p) >= 2 /\ Suffix(p) \in oauthSuffixes
  BY DEF MatchOAuthSuffix, Segments
<1>2. /\ Prefix(p) \in Segments /\ Len(Prefix(p)) = Len(p) - 2
      /\ \A i \in 1 .. Len(p) - 2 : Prefix(p)[i] = p[i]
  <2> DEFINE n == Len(p) - 2
  <2>1. n \in 0 .. Len(p) /\ Prefix(p) = SubSeq(p, 1, n)
    BY <1>1 DEF Prefix
  <2> HIDE DEF n
  <2>2. /\ SubSeq(p, 1, n) \in Segments /\ Len(SubSeq(p, 1, n)) = n
        /\ \A i \in 1 .. n : SubSeq(p, 1, n)[i] = p[i]
    BY <1>1, <2>1 DEF Segments
  <2> QED
    BY <2>1, <2>2 DEF n
<1>3. Suffix(p)[1] = p[Len(p) - 1]
  BY <1>1 DEF Suffix, Segments
<1> QED
  BY <1>1, <1>2, <1>3, SuffixesFact

\* The base of a request is a path without a trailing slash that is routed to
\* the site of the request.
LEMMA BaseFact ==
    ASSUME NEW p \in Segments
    PROVE  LET s == Route(p)
               b == publicBase(s, p)
           IN  /\ s \in Sites /\ b \in Segments
               /\ TrimRight(b) = b
               /\ Owns(s, b)
<1> DEFINE s == Route(p)
           b == publicBase(s, p)
<1>1. s \in Sites /\ Owns(s, p)
  BY RouteOwns
<1> HIDE DEF s
<1>2. ASSUME Stem(b, p) PROVE Owns(s, b)
  BY <1>1, <1>2, StemMatches DEF Owns
<1>3. CASE PathPrefix[s] # AutoPrefix
  <2>1. b = Rule[s]
    BY <1>1, <1>3, DeploymentAssumption, Zenon DEF publicBase
  <2>2. Rule[s] \in Segments /\ Len(Rule[s]) \in Nat
    BY <1>1, RuleFact
  <2>3. ~Slashed(Rule[s])
    <3>1. Len(Rule[s]) # 0 => Len(Rule[s]) \in 1 .. Len(Rule[s])
      BY <2>2, LenFact
    <3> QED
      BY <1>1, <3>1, RuleFact DEF Reserved, Slashed
  <2>4. TrimRight(Rule[s]) = Rule[s]
    BY <2>2, <2>3, TrimStays
  <2>5. s \in Matching(Rule[s])
    BY <1>1, <2>2, PrefixFact DEF Matching
  <2>6. \A x \in Matching(Rule[s]) : Len(Rule[x]) <= Len(Rule[s])
    BY <2>2, RuleFact, PrefixFact DEF Matching
  <2> QED
    BY <1>1, <2>1, <2>2, <2>4, <2>5, <2>6 DEF Owns, s
<1>4. CASE PathPrefix[s] = AutoPrefix /\ MatchOAuthSuffix(p)
  <2> DEFINE q == Prefix(p)
  <2>1. b = TrimRight(q)
    BY <1>4, Zenon DEF publicBase
  <2>2. /\ q \in Segments /\ Len(p) >= 2 /\ Len(q) = Len(p) - 2
        /\ \A i \in 1 .. Len(q) : q[i] = p[i]
        /\ p[Len(p) - 1] \in Reserved
    BY <1>4, MatchFact
  <2> HIDE DEF q, b
  <2>3. /\ b \in Segments /\ Len(b) \in 0 .. Len(q)
        /\ \A i \in 1 .. Len(b) : b[i] = q[i]
        /\ \A i \in 1 .. Len(q) : i > Len(b) => q[i] = ""
    BY <2>1, <2>2, TrimFact
  <2>4. Len(b) \in Nat /\ Len(q) \in Nat /\ Len(p) \in Nat
    BY <2>2, <2>3, LenFact
  <2>5. p[Len(b) + 1] \in Reserved
    <3>1. CASE Len(b) = Len(q)
      <4>1. Len(b) + 1 = Len(p) - 1
        BY <2>2, <2>4, <3>1
      <4> QED
        BY <2>2, <4>1
    <3>2. CASE Len(b) # Len(q)
      <4>1. Len(b) + 1 \in 1 .. Len(q) /\ Len(b) + 1 > Len(b)
        <5>1. Len(b) \in 0 .. Len(q)
          BY <2>3
        <5> QED
          BY <2>4, <3>2, <5>1
      <4>2. q[Len(b) + 1] = "" /\ q[Len(b) + 1] = p[Len(b) + 1]
        BY <2>2, <2>3, <4>1, Zenon
      <4> QED
        BY <4>2 DEF Reserved
    <3> QED
      BY <3>1, <3>2
  <2>6. Len(b) <= Len(p) /\ \A i \in 1 .. Len(b) : i \in 1 .. Len(q)
    <3>1. Len(b) \in 0 .. Len(q) /\ Len(q) = Len(p) - 2
      BY <2>2, <2>3
    <3> QED
      BY <2>4, <3>1
  <2>7. \A i \in 1 .. Len(b) : b[i] = p[i]
    BY <2>2, <2>3, <2>6, Zenon
  <2>8. Stem(b, p)
    BY <2>3, <2>5, <2>6, <2>7, Zenon DEF Stem
  <2>9. TrimRight(b) = b
    BY <2>1, <2>2, TrimTwice
  <2> QED
    BY <1>1, <1>2, <2>3, <2>8, <2>9 DEF s, b
<1>5. CASE PathPrefix[s] = AutoPrefix /\ ~MatchOAuthSuffix(p)
  <2>1. b = TrimRight(p)
    BY <1>5, Zenon DEF publicBase
  <2> HIDE DEF b
  <2>2. /\ b \in Segments /\ Len(b) \in 0 .. Len(p)
        /\ \A i \in 1 .. Len(b) : b[i] = p[i]
        /\ \A i \in 1 .. Len(p) : i > Len(b) => p[i] = ""
    BY <2>1, TrimFact
  <2>3. Len(b) \in 0 .. Len(p) /\ Len(b) \in Nat /\ Len(p) \in Nat
    BY <2>2, LenFact
  <2>4. Len(b) < Len(p) => p[Len(b) + 1] \in Reserved
    <3>1. Len(b) < Len(p) => Len(b) + 1 \in 1 .. Len(p) /\ Len(b) + 1 > Len(b)
      BY <2>3
    <3>2. Len(b) < Len(p) => p[Len(b) + 1] = ""
      BY <2>2, <3>1, Zenon
    <3> QED
      BY <3>2 DEF Reserved
  <2>5. Len(b) <= Len(p)
    BY <2>3
  <2>6. Stem(b, p)
    BY <2>2, <2>4, <2>5, Zenon DEF Stem
  <2>7. TrimRight(b) = b
    BY <2>1, TrimTwice
  <2> QED
    BY <1>1, <1>2, <2>2, <2>6, <2>7 DEF s, b
<1> QED
  BY <1>3, <1>4, <1>5

\* Two requests with the same base are requests of the same site.
LEMMA BaseOfOneSite ==
    ASSUME NEW p \in Segments, NEW q \in Segments,
           publicBase(Route(p), p) = publicBase(Route(q), q)
    PROVE  Route(p) = Route(q)
BY BaseFact, OneOwner

\* A hop to an OAuth endpoint of the base leads back to the site and the base.
LEMMA HopFact ==
    ASSUME NEW p \in Segments, NEW e \in oauthSuffixes
    PROVE  LET b == publicBase(Route(p), p)
               q == b \o e
           IN  /\ q \in Segments /\ MatchOAuthSuffix(q) /\ Suffix(q) = e
               /\ Route(q) = Route(p) /\ publicBase(Route(q), q) = b
<1> DEFINE s == Route(p)
           b == publicBase(s, p)
           q == b \o e
<1>1. s \in Sites /\ b \in Segments /\ TrimRight(b) = b /\ Owns(s, b)
  BY BaseFact
<1>2. e \in Segments /\ Len(e) = 2 /\ e[1] \in Reserved
  BY SuffixesFact
<1>3. PathPrefix[s] # AutoPrefix => b = TrimRight(PathPrefix[s])
  BY Zenon DEF publicBase
<1> HIDE DEF s, b
<1>4. Len(b) \in Nat
  BY <1>1 DEF Segments
<1>5. /\ q \in Segments /\ Len(q) = Len(b) + 2
      /\ \A i \in 1 .. Len(b) : q[i] = b[i]
      /\ q[Len(b) + 1] = e[1] /\ q[Len(b) + 2] = e[2]
  <2>1. /\ q \in Segments /\ Len(q) = Len(b) + Len(e)
        /\ \A i \in 1 .. Len(b) + Len(e) : q[i] = IF i <= Len(b) THEN b[i] ELSE e[i - Len(b)]
    BY <1>1, <1>2, ConcatProperties DEF Segments
  <2>2. Len(q) = Len(b) + 2
    BY <1>2, <2>1
  <2>3. \A i \in 1 .. Len(b) : i \in 1 .. Len(b) + Len(e) /\ i <= Len(b)
    BY <1>2, <1>4
  <2>4. /\ Len(b) + 1 \in 1 .. Len(b) + Len(e) /\ ~(Len(b) + 1 <= Len(b))
        /\ Len(b) + 2 \in 1 .. Len(b) + Len(e) /\ ~(Len(b) + 2 <= Len(b))
        /\ (Len(b) + 1) - Len(b) = 1 /\ (Len(b) + 2) - Len(b) = 2
    BY <1>2, <1>4
  <2>5. \A i \in 1 .. Len(b) : q[i] = b[i]
    BY <2>1, <2>3, Zenon
  <2>6. q[Len(b) + 1] = e[1] /\ q[Len(b) + 2] = e[2]
    BY <2>1, <2>4, Zenon
  <2> QED
    BY <2>1, <2>2, <2>5, <2>6
<1> HIDE DEF q
<1>6. Prefix(q) = b
  <2>1. Len(q) - 2 = Len(b)
    BY <1>4, <1>5
  <2>2. Prefix(q) = SubSeq(q, 1, Len(b))
    BY <2>1 DEF Prefix
  <2> DEFINE x == SubSeq(q, 1, Len(b))
  <2>3. x \in Segments /\ Len(x) = Len(b) /\ \A i \in 1 .. Len(b) : x[i] = q[i]
    BY <1>4, <1>5 DEF Segments
  <2> HIDE DEF x
  <2>4. x = b
    BY <1>1, <1>5, <2>3, SeqEqual DEF Segments
  <2> QED
    BY <2>2, <2>4 DEF x
<1>7. Suffix(q) = e
  <2>1. Suffix(q) = SubSeq(q, Len(b) + 1, Len(b) + 2)
    BY <1>4, <1>5 DEF Suffix
  <2> DEFINE x == SubSeq(q, Len(b) + 1, Len(b) + 2)
  <2>2. x \in Segments /\ Len(x) = 2 /\ x[1] = q[Len(b) + 1] /\ x[2] = q[Len(b) + 2]
    BY <1>4, <1>5 DEF Segments
  <2> HIDE DEF x
  <2>3. \A i \in 1 .. 2 : x[i] = e[i]
    BY <1>5, <2>2
  <2>4. x = e
    BY <1>2, <2>2, <2>3, SeqEqual DEF Segments
  <2> QED
    BY <2>1, <2>4 DEF x
<1>8. MatchOAuthSuffix(q)
  BY <1>4, <1>5, <1>7 DEF MatchOAuthSuffix
<1>9. Stem(b, q)
  BY <1>1, <1>2, <1>4, <1>5 DEF Stem
<1>10. Owns(s, q)
  BY <1>1, <1>9, StemMatches DEF Owns
<1>11. Route(q) = s
  BY <1>1, <1>5, <1>10, RouteOwns, OneOwner
<1>12. publicBase(s, q) = b
  BY <1>1, <1>3, <1>6, <1>8, Zenon DEF publicBase
<1> QED
  BY <1>5, <1>7, <1>8, <1>11, <1>12 DEF s, b, q

------------------------------------------------------------------------------
(* What the plugin refuses *)

\* A token without a ground for refusal is of the base's issuer and unexpired.
LEMMA NoGround ==
    ASSUME NEW s, NEW t, NEW base, NEW drift, checkClaims(s, t, base, drift) = {}
    PROVE  t.iss = base /\ ~(t.exp + Skew < now + drift)
<1>1. "iss" \notin checkClaims(s, t, base, drift) /\ "exp" \notin checkClaims(s, t, base, drift)
  BY Zenon
<1> QED
  BY <1>1, Zenon DEF checkClaims

\* Issuer and audience of the token are the base.
ForBase(t, base) == t.iss = base /\ base \o <<"">> \in t.aud

\* A token that the sidecar's clock finds valid is refused for its scope or
\* not at all, however the plugin's clock is off.
LEMMA ValidClaims ==
    ASSUME TypeOK, NEW s, NEW t \in AccessTokens, NEW base, NEW drift \in Drifts,
           ForBase(t, base), t.nbf <= now, now <= t.exp
    PROVE  checkClaims(s, t, base, drift) = IF RequiredScopes[s] \subseteq t.scope THEN {} ELSE {"scope"}
<1>1. now \in Int /\ t.nbf \in Int /\ t.exp \in Int
  BY ClockAssumption DEF TypeOK, AccessTokens, Time
<1>2. drift \in Int /\ drift <= Skew /\ -Skew <= drift /\ Skew \in Nat
  BY ClockAssumption DEF Drifts
<1>3. ~(t.exp + Skew < now + drift) /\ ~(t.nbf - Skew > now + drift)
  BY <1>1, <1>2
<1> DEFINE G == checkClaims(s, t, base, drift)
<1>4. /\ G \subseteq {"iss", "aud", "exp", "nbf", "scope"}
      /\ "iss" \notin G /\ "aud" \notin G /\ "exp" \notin G /\ "nbf" \notin G
      /\ "scope" \in G <=> ~(RequiredScopes[s] \subseteq t.scope)
  <2>1. /\ G \subseteq {"iss", "aud", "exp", "nbf", "scope"}
        /\ "iss" \in G <=> t.iss # base
        /\ "aud" \in G <=> base \notin t.aud /\ base \o <<"">> \notin t.aud
        /\ "exp" \in G <=> t.exp + Skew < now + drift
        /\ "nbf" \in G <=> t.nbf - Skew > now + drift
        /\ "scope" \in G <=> ~(RequiredScopes[s] \subseteq t.scope)
    BY Zenon DEF checkClaims
  <2> HIDE DEF G
  <2> QED
    BY <1>3, <2>1, Zenon DEF ForBase
<1> HIDE DEF G
<1>5. G = IF RequiredScopes[s] \subseteq t.scope THEN {} ELSE {"scope"}
  BY <1>4
<1> QED
  BY <1>5 DEF G

------------------------------------------------------------------------------
(* Walks *)

\* One client takes a step of its walk.
LEMMA GotoFact ==
    ASSUME TypeOK, NEW c \in Clients, NEW y \in Walks, Goto(c, y)
    PROVE  /\ session' \in [Clients -> Walks] /\ session'[c] = y
           /\ \A d \in Clients : d # c => session'[d] = session[d]
BY DEF TypeOK, Goto

\* A hop of a walk reaches the site of the walk, which sees the same base.
LEMMA WalkHop ==
    ASSUME NEW x \in Walks, WalkOK(x), x.stage \notin {"idle", "failed"}
    PROVE  /\ MatchOAuthSuffix(x.url)
           /\ FromRequest(x.url).site = Route(x.path)
           /\ FromRequest(x.url).PublicBase = Base(x)
           /\ FromRequest(x.url).Scopes = Scopes[Route(x.path)]
           /\ Route(x.path) \in Sites /\ Base(x) \in Segments
<1>1. PICK e \in oauthSuffixes : x.url = Base(x) \o e
  BY DEF WalkOK
<1>2. x.path \in Segments
  BY DEF Walks
<1>3. MatchOAuthSuffix(x.url) /\ Route(x.url) = Route(x.path) /\ publicBase(Route(x.url), x.url) = Base(x)
  BY <1>1, <1>2, HopFact DEF Base
<1>4. Route(x.path) \in Sites /\ Base(x) \in Segments
  BY <1>2, BaseFact DEF Base
<1> QED
  BY <1>3, <1>4 DEF FromRequest

\* The endpoints a walk passes.
LEMMA EndpointsFact ==
    /\ <<".well-known", "oauth-protected-resource">> \in oauthSuffixes
    /\ <<".well-known", "oauth-authorization-server">> \in oauthSuffixes
    /\ <<".well-known", "openid-configuration">> \in oauthSuffixes
    /\ <<"oauth", "register">> \in oauthSuffixes /\ <<"oauth", "authorize">> \in oauthSuffixes
    /\ <<"oauth", "callback">> \in oauthSuffixes /\ <<"oauth", "token">> \in oauthSuffixes
BY Zenon DEF oauthSuffixes

\* A URL made of a base and an endpoint is a path.
LEMMA UrlFact ==
    ASSUME NEW b \in Segments, NEW e \in oauthSuffixes
    PROVE  b \o e \in Segments
BY SuffixesFact, ConcatProperties DEF Segments

(* The ways in which a walk goes on *)
Moved(x, stage, url) == [x EXCEPT !.stage = stage, !.url = url]
Informed(x, issuer, url) == [x EXCEPT !.stage = "register", !.issuer = issuer, !.url = url]
Asked(x, url, scope) == [x EXCEPT !.stage = "callback", !.url = url, !.scope = scope]
Holding(x, t) == [x EXCEPT !.stage = "done", !.token = t]
Begun(p, url) == [Idle EXCEPT !.stage = "resource", !.path = p, !.url = url]

\* A walk that moves on: its stage and URL change.
LEMMA MoveFact ==
    ASSUME NEW x \in Walks, NEW stage \in Stages, NEW url \in Segments
    PROVE  LET y == Moved(x, stage, url)
           IN  /\ y \in Walks /\ y.stage = stage /\ y.url = url /\ y.path = x.path
               /\ y.issuer = x.issuer /\ y.scope = x.scope /\ y.token = x.token
<1> DEFINE z == [x EXCEPT !.stage = stage]
           y == [z EXCEPT !.url = url]
<1>1. /\ z \in Walks /\ z.stage = stage /\ z.path = x.path
      /\ z.issuer = x.issuer /\ z.scope = x.scope /\ z.token = x.token
  BY DEF Walks, Stages
<1>2. y = Moved(x, stage, url)
  BY DEF Moved
<1> HIDE DEF z
<1>3. /\ y \in Walks /\ y.stage = stage /\ y.url = url /\ y.path = x.path
      /\ y.issuer = x.issuer /\ y.scope = x.scope /\ y.token = x.token
  BY <1>1 DEF Walks
<1> HIDE DEF y
<1> QED
  BY <1>2, <1>3

\* A client that reads the server metadata learns the issuer.
LEMMA IssuerFact ==
    ASSUME NEW x \in Walks, NEW issuer \in Segments, NEW url \in Segments
    PROVE  LET y == Informed(x, issuer, url)
           IN  /\ y \in Walks /\ y.stage = "register" /\ y.url = url /\ y.path = x.path
               /\ y.issuer = issuer /\ y.scope = x.scope /\ y.token = x.token
<1> DEFINE z == [x EXCEPT !.stage = "register"]
           v == [z EXCEPT !.issuer = issuer]
           y == [v EXCEPT !.url = url]
<1>1. /\ z \in Walks /\ z.stage = "register" /\ z.path = x.path
      /\ z.scope = x.scope /\ z.token = x.token
  BY DEF Walks, Stages
<1>2. y = Informed(x, issuer, url)
  BY DEF Informed
<1> HIDE DEF z
<1>3. /\ v \in Walks /\ v.stage = "register" /\ v.path = x.path
      /\ v.issuer = issuer /\ v.scope = x.scope /\ v.token = x.token
  BY <1>1 DEF Walks
<1> HIDE DEF v
<1>4. /\ y \in Walks /\ y.stage = "register" /\ y.url = url /\ y.path = x.path
      /\ y.issuer = issuer /\ y.scope = x.scope /\ y.token = x.token
  BY <1>3 DEF Walks
<1> HIDE DEF y
<1> QED
  BY <1>2, <1>4

\* A client that is sent upstream has asked for its scope.
LEMMA ScopeFact ==
    ASSUME NEW x \in Walks, NEW url \in Segments, NEW scope \in SUBSET ScopeNames
    PROVE  LET y == Asked(x, url, scope)
           IN  /\ y \in Walks /\ y.stage = "callback" /\ y.url = url /\ y.path = x.path
               /\ y.issuer = x.issuer /\ y.scope = scope /\ y.token = x.token
<1> DEFINE z == Moved(x, "callback", url)
           y == [z EXCEPT !.scope = scope]
<1>1. "callback" \in Stages
  BY DEF Stages
<1>2. /\ z \in Walks /\ z.stage = "callback" /\ z.url = url /\ z.path = x.path
      /\ z.issuer = x.issuer /\ z.token = x.token
  BY <1>1, MoveFact
<1>3. y = Asked(x, url, scope)
  BY DEF Asked, Moved
<1> HIDE DEF z
<1>4. /\ y \in Walks /\ y.stage = "callback" /\ y.url = url /\ y.path = x.path
      /\ y.issuer = x.issuer /\ y.scope = scope /\ y.token = x.token
  BY <1>2 DEF Walks
<1> HIDE DEF y
<1> QED
  BY <1>3, <1>4

\* A client that redeems its code or refresh token holds the token.
LEMMA HolderFact ==
    ASSUME NEW x \in Walks, NEW t \in AccessTokens
    PROVE  LET y == Holding(x, t)
           IN  /\ y \in Walks /\ y.stage = "done" /\ y.url = x.url /\ y.path = x.path
               /\ y.issuer = x.issuer /\ y.scope = x.scope /\ y.token = t
<1> DEFINE z == [x EXCEPT !.stage = "done"]
           y == [z EXCEPT !.token = t]
<1>1. /\ z \in Walks /\ z.stage = "done" /\ z.url = x.url /\ z.path = x.path
      /\ z.issuer = x.issuer /\ z.scope = x.scope
  BY DEF Walks, Stages
<1>2. y = Holding(x, t)
  BY DEF Holding
<1> HIDE DEF z
<1>3. /\ y \in Walks /\ y.stage = "done" /\ y.url = x.url /\ y.path = x.path
      /\ y.issuer = x.issuer /\ y.scope = x.scope /\ y.token = t
  BY <1>1 DEF Walks
<1> HIDE DEF y
<1> QED
  BY <1>2, <1>3

\* A client without a walk.
LEMMA IdleFact == Idle \in Walks /\ Idle.stage = "idle" /\ Idle.token = None
<1>1. <<>> \in Segments
  BY DEF Segments
<1> QED
  BY <1>1 DEF Idle, Walks, Stages

\* A walk begins.
LEMMA BeginFact ==
    ASSUME NEW p \in Segments, NEW url \in Segments
    PROVE  LET y == Begun(p, url)
           IN  y \in Walks /\ y.stage = "resource" /\ y.url = url /\ y.path = p /\ y.token = None
<1> DEFINE z == [Idle EXCEPT !.stage = "resource"]
           v == [z EXCEPT !.path = p]
           y == [v EXCEPT !.url = url]
<1>1. z \in Walks /\ z.stage = "resource" /\ z.token = None
  BY IdleFact DEF Walks, Stages
<1>2. y = Begun(p, url)
  BY DEF Begun
<1> HIDE DEF z
<1>3. v \in Walks /\ v.stage = "resource" /\ v.path = p /\ v.token = None
  BY <1>1 DEF Walks
<1> HIDE DEF v
<1>4. y \in Walks /\ y.stage = "resource" /\ y.url = url /\ y.path = p /\ y.token = None
  BY <1>3 DEF Walks
<1> HIDE DEF y
<1> QED
  BY <1>2, <1>4

------------------------------------------------------------------------------
(* Steps *)

\* A client that goes on, without a token, to a walk that is in order.
LEMMA WalkMoves ==
    ASSUME TypeOK, GatewayInv, NEW c \in Clients, NEW y \in Walks, Goto(c, y), WalkOK(y),
           y.stage # "done", y.token = None,
           backend' = None, UNCHANGED <<now, active, published, minted>>
    PROVE  (TypeOK /\ GatewayInv)'
<1>1. /\ session' \in [Clients -> Walks] /\ session'[c] = y
      /\ \A d \in Clients : d # c => session'[d] = session[d]
  BY GotoFact
<1>2. TypeOK'
  BY <1>1 DEF TypeOK
<1>3. WalkInv'
  BY <1>1 DEF GatewayInv, WalkInv
<1>4. TokenInv' /\ BackendIsolation'
  BY DEF GatewayInv, TokenInv, TokenOK, BackendIsolation
<1> QED
  BY <1>2, <1>3, <1>4 DEF GatewayInv

\* A client that goes on to another endpoint of its base.
LEMMA NextHop ==
    ASSUME NEW x \in Walks, WalkOK(x), x.stage \notin {"idle", "failed"},
           NEW y \in Walks, NEW e \in oauthSuffixes, y.path = x.path, y.url = Base(x) \o e,
           y.stage = "server" \/ (/\ y.issuer = Base(x)
                                  /\ y.stage \in {"register", "authorize", "callback", "token"})
    PROVE  WalkOK(y)
<1>1. Base(y) = Base(x)
  BY DEF Base
<1> QED
  BY <1>1 DEF WalkOK

\* A request that is answered 401 begins a walk at its own path.
LEMMA UnauthorizedKeeps ==
    ASSUME TypeOK, GatewayInv, NEW c \in Clients, NEW p \in Paths, NEW t, Unauthorized(c, p, t)
    PROVE  (TypeOK /\ GatewayInv)'
<1> DEFINE b == publicBase(Route(p), p)
           e == <<".well-known", "oauth-protected-resource">>
           y == Begun(p, b \o e)
<1>1. p \in Segments
  BY DeploymentAssumption, Zenon DEF Segments
<1>2. b \in Segments
  BY <1>1, BaseFact
<1>3. e \in oauthSuffixes
  BY EndpointsFact
<1>4. b \o e \in Segments
  BY <1>2, <1>3, UrlFact
<1>5. Goto(c, y) /\ backend' = None /\ UNCHANGED <<now, active, published, minted>>
  BY DEF Unauthorized, Begun
<1>6. y \in Walks /\ y.stage = "resource" /\ y.url = b \o e /\ y.path = p /\ y.token = None
  BY <1>1, <1>4, BeginFact
<1> HIDE DEF y
<1>7. Base(y) = b
  BY <1>6 DEF Base
<1> HIDE DEF b, e
<1>8. WalkOK(y)
  BY <1>3, <1>6, <1>7 DEF WalkOK
<1>9. y.stage # "done"
  BY <1>6
<1> QED
  BY <1>5, <1>6, <1>8, <1>9, WalkMoves

\* The metadata, registration, authorization and callback endpoints send the
\* client on to another endpoint of the same base.
LEMMA HopKeeps ==
    ASSUME TypeOK, GatewayInv, NEW c \in Clients, NEW y \in Walks, NEW e \in oauthSuffixes,
           session[c].stage \notin {"idle", "failed", "done"},
           y.path = session[c].path, y.url = Base(session[c]) \o e, y.token = session[c].token,
           y.stage = "server" \/ (/\ y.issuer = Base(session[c])
                                  /\ y.stage \in {"register", "authorize", "callback", "token"}),
           Goto(c, y), backend' = None, UNCHANGED <<now, active, published, minted>>
    PROVE  (TypeOK /\ GatewayInv)'
<1>1. session[c] \in Walks /\ session[c].token = None
  BY DEF TypeOK
<1>2. WalkOK(session[c])
  BY DEF GatewayInv, WalkInv
<1>3. WalkOK(y)
  BY <1>1, <1>2, NextHop
<1>4. y.stage # "done" /\ y.token = None
  BY <1>1
<1> QED
  BY <1>3, <1>4, WalkMoves

\* What a step may use of a walk under way.
LEMMA UnderWay ==
    ASSUME TypeOK, GatewayInv, NEW c \in Clients, session[c].stage \notin {"idle", "failed"}
    PROVE  /\ session[c] \in Walks /\ WalkOK(session[c]) /\ Base(session[c]) \in Segments
           /\ Route(session[c].path) \in Sites
           /\ FromRequest(session[c].url).site = Route(session[c].path)
           /\ FromRequest(session[c].url).PublicBase = Base(session[c])
           /\ FromRequest(session[c].url).Scopes = Scopes[Route(session[c].path)]
           /\ MatchOAuthSuffix(session[c].url)
<1>1. session[c] \in Walks /\ WalkOK(session[c])
  BY DEF TypeOK, GatewayInv, WalkInv
<1> QED
  BY <1>1, WalkHop

\* A client that moves on to the endpoint e of its base.
LEMMA MoveKeeps ==
    ASSUME TypeOK, GatewayInv, NEW c \in Clients, NEW stage \in {"server", "authorize", "token"},
           NEW e \in oauthSuffixes, session[c].stage \notin {"idle", "failed", "done"},
           stage # "server" => session[c].issuer = Base(session[c]),
           Goto(c, Moved(session[c], stage, Base(session[c]) \o e)),
           backend' = None, UNCHANGED <<now, active, published, minted>>
    PROVE  (TypeOK /\ GatewayInv)'
<1> DEFINE x == session[c]
           u == Base(x) \o e
           y == Moved(x, stage, u)
<1>1. x \in Walks /\ Base(x) \in Segments
  BY UnderWay
<1>2. u \in Segments
  BY <1>1, UrlFact
<1>3. stage \in Stages
  BY DEF Stages
<1> HIDE DEF x, u
<1>4. /\ y \in Walks /\ y.stage = stage /\ y.url = u /\ y.path = x.path
      /\ y.issuer = x.issuer /\ y.token = x.token
  BY <1>1, <1>2, <1>3, MoveFact
<1>5. Goto(c, y)
  BY DEF x, u
<1> HIDE DEF y
<1> USE DEF x, u
<1>6. y.stage = "server" \/ (y.issuer = Base(x) /\ y.stage \in {"register", "authorize", "callback", "token"})
  BY <1>4
<1> QED
  BY <1>4, <1>5, <1>6, HopKeeps

\* Metadata of the protected resource.
LEMMA ProtectedResourceKeeps ==
    ASSUME TypeOK, GatewayInv, NEW c \in Clients,
           NEW w \in {"oauth-authorization-server", "openid-configuration"},
           HandleProtectedResource(c, w)
    PROVE  (TypeOK /\ GatewayInv)'
<1> DEFINE e == <<".well-known", w>>
<1>1. e \in oauthSuffixes
  BY EndpointsFact
<1>2. session[c].stage = "resource"
  BY DEF HandleProtectedResource
<1>3. FromRequest(session[c].url).PublicBase = Base(session[c])
  BY <1>2, UnderWay
<1>4. /\ Goto(c, Moved(session[c], "server", Base(session[c]) \o e))
      /\ backend' = None /\ UNCHANGED <<now, active, published, minted>>
  BY <1>3, Zenon DEF HandleProtectedResource, Moved
<1> HIDE DEF e
<1> QED
  BY <1>1, <1>2, <1>4, MoveKeeps

\* Registration.
LEMMA RegisterKeeps ==
    ASSUME TypeOK, GatewayInv, NEW c \in Clients, HandleRegister(c)
    PROVE  (TypeOK /\ GatewayInv)'
<1> DEFINE e == <<"oauth", "authorize">>
<1>1. e \in oauthSuffixes
  BY EndpointsFact
<1>2. session[c].stage = "register"
  BY DEF HandleRegister
<1>3. session[c].issuer = Base(session[c])
  BY <1>2, UnderWay DEF WalkOK
<1>4. /\ Goto(c, Moved(session[c], "authorize", Base(session[c]) \o e))
      /\ backend' = None /\ UNCHANGED <<now, active, published, minted>>
  BY <1>3, Zenon DEF HandleRegister, Moved
<1> HIDE DEF e
<1> QED
  BY <1>1, <1>2, <1>3, <1>4, MoveKeeps

\* The browser's return from the provider.
LEMMA CallbackKeeps ==
    ASSUME TypeOK, GatewayInv, NEW c \in Clients, HandleCallback(c)
    PROVE  (TypeOK /\ GatewayInv)'
<1> DEFINE e == <<"oauth", "token">>
<1>1. e \in oauthSuffixes
  BY EndpointsFact
<1>2. session[c].stage = "callback"
  BY DEF HandleCallback
<1>3. session[c].issuer = Base(session[c])
  BY <1>2, UnderWay DEF WalkOK
<1>4. /\ Goto(c, Moved(session[c], "token", Base(session[c]) \o e))
      /\ backend' = None /\ UNCHANGED <<now, active, published, minted>>
  BY <1>3, Zenon DEF HandleCallback, Moved
<1> HIDE DEF e
<1> QED
  BY <1>1, <1>2, <1>3, <1>4, MoveKeeps

\* Metadata of the authorization server.
LEMMA AuthorizationServerKeeps ==
    ASSUME TypeOK, GatewayInv, NEW c \in Clients, HandleAuthorizationServer(c)
    PROVE  (TypeOK /\ GatewayInv)'
<1> DEFINE x == session[c]
           e == <<"oauth", "register">>
           u == Base(x) \o e
           y == Informed(x, Base(x), u)
<1>1. e \in oauthSuffixes
  BY EndpointsFact
<1>2. x.stage = "server"
  BY DEF HandleAuthorizationServer
<1>3. x \in Walks /\ Base(x) \in Segments /\ FromRequest(x.url).PublicBase = Base(x)
  BY <1>2, UnderWay
<1>4. Goto(c, y) /\ backend' = None /\ UNCHANGED <<now, active, published, minted>>
  BY <1>3, Zenon DEF HandleAuthorizationServer, Informed
<1> HIDE DEF e
<1>5. u \in Segments
  BY <1>1, <1>3, UrlFact
<1>6. /\ y \in Walks /\ y.stage = "register" /\ y.url = u /\ y.path = x.path
      /\ y.issuer = Base(x) /\ y.token = x.token
  BY <1>3, <1>5, IssuerFact
<1> HIDE DEF y
<1> QED
  BY <1>1, <1>2, <1>4, <1>6, HopKeeps

\* Authorization, with the scopes of the site unless the client asks for some.
LEMMA AuthorizeKeeps ==
    ASSUME TypeOK, GatewayInv, NEW c \in Clients, NEW asked \in SUBSET ScopeNames,
           HandleAuthorize(c, asked)
    PROVE  (TypeOK /\ GatewayInv)'
<1> DEFINE x == session[c]
           e == <<"oauth", "callback">>
           u == Base(x) \o e
           scope == IF asked = {} THEN Scopes[Route(x.path)] ELSE asked
           y == Asked(x, u, scope)
<1>1. e \in oauthSuffixes
  BY EndpointsFact
<1>2. x.stage = "authorize"
  BY DEF HandleAuthorize
<1>3. /\ x \in Walks /\ Base(x) \in Segments /\ WalkOK(x) /\ Route(x.path) \in Sites
      /\ FromRequest(x.url).PublicBase = Base(x)
      /\ FromRequest(x.url).Scopes = Scopes[Route(x.path)]
  BY <1>2, UnderWay
<1>4. Goto(c, y) /\ backend' = None /\ UNCHANGED <<now, active, published, minted>>
  BY <1>3, Zenon DEF HandleAuthorize, Asked
<1>5. Scopes \in [Sites -> SUBSET ScopeNames]
  BY DeploymentAssumption, Zenon
<1>6. scope \in SUBSET ScopeNames
  BY <1>3, <1>5
<1> HIDE DEF e, scope
<1>7. u \in Segments
  BY <1>1, <1>3, UrlFact
<1> HIDE DEF x, u
<1>8. /\ y \in Walks /\ y.stage = "callback" /\ y.url = u /\ y.path = x.path
      /\ y.issuer = x.issuer /\ y.token = x.token
  BY <1>3, <1>6, <1>7, ScopeFact
<1> HIDE DEF y
<1> USE DEF x, u
<1>9. y.issuer = Base(x)
  BY <1>2, <1>3, <1>8 DEF WalkOK
<1> QED
  BY <1>1, <1>2, <1>4, <1>8, <1>9, HopKeeps

\* A hop fails only where the site has no scopes.
LEMMA HopFailsKeeps ==
    ASSUME TypeOK, GatewayInv, NEW c \in Clients, HopFails(c)
    PROVE  (TypeOK /\ GatewayInv)'
<1> DEFINE x == session[c]
           y == [x EXCEPT !.stage = "failed"]
<1>1. /\ x.stage \notin {"idle", "done", "failed"} /\ ~Served(x.url, Suffix(x.url))
      /\ Goto(c, y) /\ backend' = None /\ UNCHANGED <<now, active, published, minted>>
  BY DEF HopFails
<1>2. /\ x \in Walks /\ MatchOAuthSuffix(x.url)
      /\ FromRequest(x.url).Scopes = Scopes[Route(x.path)]
  BY <1>1, UnderWay
<1>3. Scopes[Route(x.path)] = {}
  BY <1>1, <1>2 DEF Served
<1>4. y \in Walks /\ y.stage = "failed" /\ y.path = x.path /\ y.token = x.token
  BY <1>2 DEF Walks, Stages
<1>5. x.token = None
  BY <1>1 DEF TypeOK
<1> HIDE DEF y
<1>6. WalkOK(y) /\ y.stage # "done"
  BY <1>3, <1>4 DEF WalkOK
<1> QED
  BY <1>1, <1>4, <1>5, <1>6, WalkMoves


\* A segment can be added to a path.
LEMMA SlashFact ==
    ASSUME NEW b \in Segments, NEW n \in Names
    PROVE  b \o <<n>> \in Segments
BY ConcatProperties DEF Segments

\* The audience that an issuer gives its tokens.
Audience(base) == {base \o <<"">>}

\* The claims of a new token.
LEMMA MintFact ==
    ASSUME TypeOK, NEW rc, rc.PublicBase \in Segments, rc.site \in Sites,
           NEW c \in Clients, NEW scope \in SUBSET ScopeNames
    PROVE  LET t == MintAccessToken(rc, c, scope)
           IN  /\ t \in AccessTokens /\ t.iss = rc.PublicBase /\ t.aud = Audience(t.iss)
               /\ t.scope = scope /\ t.nbf = now /\ t.exp = now + AccessTTL
               /\ t.kid = active /\ t.site = rc.site
<1> DEFINE t == MintAccessToken(rc, c, scope)
           later == now + AccessTTL
<1>1. "" \in Names
  BY NamesAssumption, Zenon
<1>2. Audience(rc.PublicBase) \in SUBSET Segments
  BY <1>1, SlashFact, Zenon DEF Audience
<1>3. now \in Time /\ later \in Nat /\ active \in Keys
  BY ClockAssumption DEF TypeOK, Time
<1>4. t = [ iss |-> rc.PublicBase, aud |-> Audience(rc.PublicBase), client_id |-> c,
            scope |-> scope, nbf |-> now, exp |-> later, kid |-> active, site |-> rc.site ]
  BY Zenon DEF MintAccessToken, Audience
<1> HIDE DEF t, later
<1>5. /\ t \in AccessTokens /\ t.iss = rc.PublicBase /\ t.aud = Audience(t.iss)
      /\ t.scope = scope /\ t.nbf = now /\ t.exp = later
      /\ t.kid = active /\ t.site = rc.site
  BY <1>2, <1>3, <1>4 DEF AccessTokens
<1> QED
  BY <1>5 DEF t, later

\* A code or a refresh token is redeemed at the site the client began at.
LEMMA TokenKeeps ==
    ASSUME TypeOK, GatewayInv, NEW c \in Clients, HandleToken(c)
    PROVE  (TypeOK /\ GatewayInv)'
<1> DEFINE x == session[c]
           rc == FromRequest(x.url)
           t == MintAccessToken(rc, c, x.scope)
           y == Holding(x, t)
<1>1. /\ x.stage \in {"token", "done"} /\ Goto(c, y) /\ minted' = minted \cup {t}
      /\ backend' = None /\ UNCHANGED <<now, active, published>>
  BY Zenon DEF HandleToken, Holding
<1>2. x.stage \notin {"idle", "failed"}
  BY <1>1
<1>3. /\ x \in Walks /\ WalkOK(x) /\ Base(x) \in Segments /\ Route(x.path) \in Sites
      /\ rc.site = Route(x.path) /\ rc.PublicBase = Base(x)
  BY <1>2, UnderWay
<1>4. x.scope \in SUBSET ScopeNames /\ x.path \in Segments
  BY <1>3 DEF Walks
<1> HIDE DEF rc, x
<1>5. /\ t \in AccessTokens /\ t.iss = Base(x) /\ t.aud = Audience(t.iss)
      /\ t.scope = x.scope /\ t.nbf = now /\ t.exp = now + AccessTTL
      /\ t.kid = active /\ t.site = Route(x.path)
  BY <1>3, <1>4, MintFact
<1> HIDE DEF t
<1>6. /\ y \in Walks /\ y.stage = "done" /\ y.url = x.url /\ y.path = x.path
      /\ y.issuer = x.issuer /\ y.scope = x.scope /\ y.token = t
  BY <1>3, <1>5, HolderFact
<1> HIDE DEF y
<1>7. /\ session' \in [Clients -> Walks] /\ session'[c] = y
      /\ \A d \in Clients : d # c => session'[d] = session[d]
  BY <1>1, <1>6, GotoFact
<1>8. TypeOK'
  BY <1>1, <1>5, <1>6, <1>7 DEF TypeOK
<1>9. WalkOK(y)
  <2>1. Base(y) = Base(x)
    BY <1>6 DEF Base
  <2> QED
    BY <1>1, <1>3, <1>5, <1>6, <2>1 DEF WalkOK
<1>10. WalkInv'
  BY <1>7, <1>9 DEF GatewayInv, WalkInv
<1>11. TokenOK(t)
  <2>1. t.aud = {t.iss \o <<"">>}
    BY <1>5, Zenon DEF Audience
  <2>2. \E p \in Segments : t.site = Route(p) /\ t.iss = publicBase(Route(p), p)
    BY <1>4, <1>5 DEF Base
  <2>3. t.nbf <= now
    BY <1>5 DEF TypeOK, Time
  <2>4. t.kid \in published
    BY <1>5 DEF TypeOK
  <2> QED
    BY <2>1, <2>2, <2>3, <2>4, Zenon DEF TokenOK
<1>12. TokenInv'
  BY <1>1, <1>11, Zenon DEF GatewayInv, TokenInv, TokenOK
<1>13. BackendIsolation'
  BY <1>1 DEF BackendIsolation
<1> QED
  BY <1>8, <1>10, <1>12, <1>13 DEF GatewayInv

\* A token that is forwarded is one of the server's own site.
LEMMA ForwardKeeps ==
    ASSUME TypeOK, GatewayInv, NEW p \in Paths, NEW t \in minted, Forward(p, t)
    PROVE  (TypeOK /\ GatewayInv)'
<1> DEFINE s == Route(p)
           base == publicBase(s, p)
<1>1. /\ {} \in Verdicts(p, t) /\ backend' = [site |-> s, token |-> t]
      /\ UNCHANGED <<now, active, published, session, minted>>
  BY DEF Forward
<1>2. p \in Segments
  BY DeploymentAssumption, Zenon DEF Segments
<1>3. PICK drift \in Drifts : checkClaims(s, t, base, drift) = {}
  BY <1>1 DEF Verdicts
<1>4. t.iss = base /\ ~(t.exp + Skew < now + drift)
  BY <1>3, NoGround, Zenon
<1>5. s \in Sites
  BY <1>2, RouteOwns
<1>6. t \in AccessTokens /\ TokenOK(t)
  BY DEF TypeOK, GatewayInv, TokenInv
<1>7. t.site = s
  <2>1. PICK q \in Segments : t.site = Route(q) /\ t.iss = publicBase(Route(q), q)
    BY <1>6, Zenon DEF TokenOK
  <2> QED
    BY <1>2, <1>4, <2>1, BaseOfOneSite
<1>8. now <= t.exp + Skew + MaxDrift
  <2>1. now \in Int /\ t.exp \in Int /\ drift \in Int /\ drift >= -MaxDrift /\ Skew \in Int /\ MaxDrift \in Int
    BY <1>6, ClockAssumption DEF TypeOK, AccessTokens, Time, Drifts
  <2> QED
    BY <1>4, <2>1
<1> HIDE DEF s, base
<1>9. BackendIsolation'
  BY <1>1, <1>7, <1>8 DEF BackendIsolation
<1>10. TypeOK'
  BY <1>1, <1>5 DEF TypeOK
<1>11. WalkInv' /\ TokenInv'
  BY <1>1 DEF GatewayInv, WalkInv, TokenInv, TokenOK
<1> QED
  BY <1>9, <1>10, <1>11 DEF GatewayInv

\* Steps that leave the walks and the tokens alone, and no token without its key.
LEMMA QuietKeeps ==
    ASSUME TypeOK, GatewayInv, backend' = None, UNCHANGED <<session, minted>>,
           now' \in Time, now <= now', active' \in published', published' \subseteq Keys,
           \A t \in minted : now' <= t.exp + Skew /\ t.kid \in published => t.kid \in published'
    PROVE  (TypeOK /\ GatewayInv)'
<1>1. TypeOK'
  BY DEF TypeOK
<1>2. WalkInv' /\ BackendIsolation'
  BY DEF GatewayInv, WalkInv, BackendIsolation
<1>3. ASSUME NEW t \in minted PROVE TokenOK(t)'
  <2>1. TokenOK(t) /\ t \in AccessTokens
    BY DEF GatewayInv, TokenInv, TypeOK
  <2>2. now \in Int /\ now' \in Int /\ t.nbf \in Int /\ t.exp \in Int /\ Skew \in Int
    BY <2>1, ClockAssumption DEF TypeOK, Time, AccessTokens
  <2>3. t.nbf <= now /\ (now <= t.exp + Skew => t.kid \in published)
    BY <2>1, Zenon DEF TokenOK
  <2>4. t.nbf <= now' /\ (now' <= t.exp + Skew => now <= t.exp + Skew)
    BY <2>2, <2>3
  <2> QED
    BY <2>1, <2>3, <2>4, Zenon DEF TokenOK
<1>4. TokenInv'
  BY <1>3 DEF TokenInv
<1> QED
  BY <1>1, <1>2, <1>4 DEF GatewayInv

\* Preflights, the rotator and the clock.
LEMMA OthersKeep ==
    ASSUME TypeOK, GatewayInv,
           \/ \E p \in Paths : Preflight(p)
           \/ \E k \in Keys : Rotate(k) \/ Retire(k)
           \/ Tick
    PROVE  (TypeOK /\ GatewayInv)'
<1>1. now \in Int /\ now \in Time /\ MaxTime \in Nat
  BY ClockAssumption DEF TypeOK, Time
<1>2. CASE \E p \in Paths : Preflight(p)
  <2>1. backend' = None /\ UNCHANGED <<now, active, published, session, minted>>
    BY <1>2 DEF Preflight
  <2> QED
    BY <1>1, <2>1, QuietKeeps DEF TypeOK
<1>3. CASE \E k \in Keys : Rotate(k)
  <2>1. PICK k \in Keys : Rotate(k)
    BY <1>3
  <2>2. /\ active' = k /\ published' = published \cup {k} /\ backend' = None
        /\ UNCHANGED <<now, session, minted>>
    BY <2>1 DEF Rotate
  <2> QED
    BY <1>1, <2>2, QuietKeeps DEF TypeOK
<1>4. CASE \E k \in Keys : Retire(k)
  <2>1. PICK k \in Keys : Retire(k)
    BY <1>4
  <2>2. /\ k # active /\ published' = published \ {k} /\ backend' = None
        /\ \A t \in minted : t.kid = k => t.exp + Skew < now
        /\ UNCHANGED <<now, active, session, minted>>
    BY <2>1 DEF Retire
  <2>3. ASSUME NEW t \in minted, now' <= t.exp + Skew, t.kid \in published
        PROVE  t.kid \in published'
    <3>1. t.exp \in Int /\ Skew \in Int
      BY ClockAssumption DEF TypeOK, AccessTokens
    <3> QED
      BY <1>1, <2>2, <2>3, <3>1
  <2>4. now' \in Time /\ now <= now' /\ active' \in published' /\ published' \subseteq Keys
    BY <1>1, <2>2 DEF TypeOK
  <2> QED
    BY <2>2, <2>3, <2>4, QuietKeeps
<1>5. CASE Tick
  <2>1. now' \in Time /\ now <= now'
    BY <1>1, <1>5 DEF Tick, Time
  <2>2. backend' = None /\ UNCHANGED <<active, published, session, minted>>
    BY <1>5 DEF Tick
  <2> QED
    BY <2>1, <2>2, QuietKeeps DEF TypeOK
<1> QED
  BY <1>2, <1>3, <1>4, <1>5

------------------------------------------------------------------------------
(* Theorems *)

\* Nothing is under way at the start.
LEMMA InitHolds == Init => TypeOK /\ GatewayInv
<1> SUFFICES ASSUME Init PROVE TypeOK /\ GatewayInv
  OBVIOUS
<1>1. TypeOK
  BY IdleFact, ClockAssumption DEF Init, TypeOK, Time
<1>2. WalkOK(Idle)
  BY IdleFact DEF WalkOK
<1>3. WalkInv
  BY <1>2 DEF Init, WalkInv
<1>4. TokenInv /\ BackendIsolation
  BY DEF Init, TokenInv, BackendIsolation
<1> QED
  BY <1>1, <1>3, <1>4 DEF GatewayInv

\* The walks stay at the base they began at and the tokens at the base of
\* their site, whichever handler, rotation or tick comes next.
THEOREM GatewayInvariant == Spec => [](TypeOK /\ GatewayInv)
<1>1. ASSUME TypeOK, GatewayInv, [Next]_vars PROVE (TypeOK /\ GatewayInv)'
  <2>1. CASE \E c \in Clients : \E p \in Paths, t \in minted \cup {None} : Unauthorized(c, p, t)
    BY <1>1, <2>1, UnauthorizedKeeps
  <2>2. CASE \E c \in Clients : \E w \in {"oauth-authorization-server", "openid-configuration"} :
                HandleProtectedResource(c, w)
    BY <1>1, <2>2, ProtectedResourceKeeps
  <2>3. CASE \E c \in Clients : HandleAuthorizationServer(c)
    BY <1>1, <2>3, AuthorizationServerKeeps
  <2>4. CASE \E c \in Clients : HandleRegister(c)
    BY <1>1, <2>4, RegisterKeeps
  <2>5. CASE \E c \in Clients : \E asked \in SUBSET ScopeNames : HandleAuthorize(c, asked)
    BY <1>1, <2>5, AuthorizeKeeps
  <2>6. CASE \E c \in Clients : HandleCallback(c)
    BY <1>1, <2>6, CallbackKeeps
  <2>7. CASE \E c \in Clients : HandleToken(c)
    BY <1>1, <2>7, TokenKeeps
  <2>8. CASE \E c \in Clients : HopFails(c)
    BY <1>1, <2>8, HopFailsKeeps
  <2>9. CASE \E p \in Paths : \E t \in minted : Forward(p, t)
    BY <1>1, <2>9, ForwardKeeps
  <2>10. CASE \/ \E p \in Paths : Preflight(p)
              \/ \E k \in Keys : Rotate(k) \/ Retire(k)
              \/ Tick
    BY <1>1, <2>10, OthersKeep
  <2>11. CASE UNCHANGED vars
    BY <1>1, <2>11 DEF vars, TypeOK, GatewayInv, WalkInv, TokenInv, TokenOK, BackendIsolation
  <2> QED
    BY <1>1, <2>1, <2>2, <2>3, <2>4, <2>5, <2>6, <2>7, <2>8, <2>9, <2>10, <2>11, Zenon DEF Next
<1> QED
  BY <1>1, InitHolds, PTL DEF Spec

\* Clients and MCP servers hold only tokens that the token endpoint minted.
THEOREM TypeCorrect == Spec => []TypeOK
BY GatewayInvariant, PTL

\* No MCP server receives a token of another site, whatever the prefixes of
\* the sites and however they nest.
THEOREM BackendsIsolated == Spec => []BackendIsolation
<1>1. GatewayInv => BackendIsolation
  BY DEF GatewayInv
<1> QED
  BY <1>1, GatewayInvariant, PTL

\* While a token is valid by the sidecar's clock its key is found, and the
\* plugin refuses it for its scope or not at all.
LEMMA ValidVerdicts ==
    ASSUME TypeOK, GatewayInv, NEW t \in minted, NEW p \in Segments, now <= t.exp,
           t.iss = publicBase(Route(p), p)
    PROVE  Verdicts(p, t) = IF RequiredScopes[Route(p)] \subseteq t.scope THEN {{}} ELSE {{"scope"}}
<1> DEFINE s == Route(p)
           base == publicBase(s, p)
           grounds == IF RequiredScopes[s] \subseteq t.scope THEN {} ELSE {"scope"}
<1>1. t \in AccessTokens /\ TokenOK(t)
  BY DEF TypeOK, GatewayInv, TokenInv
<1>2. ForBase(t, base) /\ t.nbf <= now
  BY <1>1, Zenon DEF TokenOK, ForBase
<1>3. now <= t.exp + Skew
  BY <1>1, ClockAssumption DEF TypeOK, Time, AccessTokens
<1>4. t.kid \in published
  BY <1>1, <1>3, Zenon DEF TokenOK
<1>5. \A drift \in Drifts : checkClaims(s, t, base, drift) = grounds
  BY <1>1, <1>2, ValidClaims
<1>6. 0 \in Drifts
  BY ClockAssumption DEF Drifts
<1>7. Lookups(t) = {TRUE}
  BY <1>4 DEF Lookups
<1> DEFINE V(found, drift) == (IF found THEN {} ELSE {"key"}) \cup checkClaims(s, t, base, drift)
<1>8. Verdicts(p, t) = {V(found, drift) : found \in Lookups(t), drift \in Drifts}
  BY DEF Verdicts
<1> HIDE DEF s, base, grounds
<1>9. \A found \in Lookups(t), drift \in Drifts : V(found, drift) = grounds
  BY <1>5, <1>7
<1> HIDE DEF V
<1>10. \A v \in Verdicts(p, t) : v = grounds
  BY <1>8, <1>9
<1>11. ASSUME NEW found \in Lookups(t), NEW drift \in Drifts PROVE V(found, drift) \in Verdicts(p, t)
  BY <1>8
<1>12. grounds \in Verdicts(p, t)
  <2>1. TRUE \in Lookups(t)
    BY DEF Lookups
  <2>2. PICK found \in Lookups(t) : TRUE
    BY <2>1
  <2> QED
    BY <1>6, <1>9, <1>11, <2>2
<1>13. Verdicts(p, t) = {grounds}
  BY <1>10, <1>12
<1> QED
  BY <1>13 DEF s, grounds

\* A walk fails only at a site without scopes, and the token at its end opens
\* the path it began at.
THEOREM DiscoveryAlwaysCloses == Spec => []DiscoveryCloses
<1>1. ASSUME TypeOK, GatewayInv PROVE DiscoveryCloses
  <2> SUFFICES ASSUME NEW c \in Clients
               PROVE  LET x == session[c]
                      IN  /\ x.stage = "failed" => Scopes[Route(x.path)] = {}
                          /\ x.stage = "done" /\ now <= x.token.exp =>
                                Verdicts(x.path, x.token) = IF ScopesLack(x) THEN {{"scope"}} ELSE {{}}
    BY DEF DiscoveryCloses
  <2> DEFINE x == session[c]
  <2>1. x \in Walks /\ WalkOK(x)
    BY <1>1 DEF TypeOK, GatewayInv, WalkInv
  <2>2. x.stage = "failed" => Scopes[Route(x.path)] = {}
    BY <2>1 DEF WalkOK
  <2>3. ASSUME x.stage = "done", now <= x.token.exp
        PROVE  Verdicts(x.path, x.token) = IF ScopesLack(x) THEN {{"scope"}} ELSE {{}}
    <3> DEFINE t == x.token
    <3>1. t \in minted /\ t.iss = Base(x) /\ t.scope = x.scope /\ x.path \in Segments
      BY <1>1, <2>1, <2>3 DEF TypeOK, WalkOK, Walks
    <3> HIDE DEF x
    <3>2. Verdicts(x.path, t) = IF RequiredScopes[Route(x.path)] \subseteq t.scope THEN {{}} ELSE {{"scope"}}
      BY <1>1, <2>3, <3>1, ValidVerdicts DEF Base
    <3> QED
      BY <3>1, <3>2 DEF ScopesLack
  <2> QED
    BY <2>2, <2>3
<1> QED
  BY <1>1, GatewayInvariant, PTL

\* Introspection tells a token's client what userinfo and the plugin say, whatever
\* the token, the path and the client, except under the hint refresh_token.
THEOREM ChecksAlwaysAgree == Spec => []ChecksAgree
<1>1. ASSUME TypeOK, GatewayInv PROVE ChecksAgree
  <2> SUFFICES ASSUME NEW t \in minted, NEW p \in Paths
               PROVE  LET base == publicBase(Route(p), p)
                      IN  /\ \A q \in Introspections :
                                HandleIntrospect(q, t, base) = "active" =>
                                    HandleUserinfo(t, base) /\ q.client = t.client_id
                          /\ HandleUserinfo(t, base) =>
                                /\ \A q \in Introspections :
                                      q.auth = "ok" /\ q.client = t.client_id /\ q.hint # "refresh_token" =>
                                          HandleIntrospect(q, t, base) = "active"
                                /\ Verdicts(p, t) \subseteq {{}, {"scope"}}
    BY DEF ChecksAgree
  <2> DEFINE base == publicBase(Route(p), p)
  <2>1. t \in AccessTokens /\ TokenOK(t) /\ p \in Segments
    BY <1>1, DeploymentAssumption, Zenon DEF TypeOK, GatewayInv, TokenInv, Segments
  <2>2. now \in Int /\ t.nbf \in Int /\ t.exp \in Int
    BY <1>1, <2>1, ClockAssumption DEF TypeOK, Time, AccessTokens
  <2>3. (now > t.exp <=> t.exp < now) /\ (now < t.nbf <=> t.nbf > now) /\ (~(t.exp < now) => now <= t.exp)
    BY <2>2
  <2>4. t.iss = base => base \o <<"">> \in t.aud
    BY <2>1, Zenon DEF TokenOK
  <2>5. HandleUserinfo(t, base) <=> verifyAccessJWT(t, base)
    BY <2>3, <2>4, Zenon DEF HandleUserinfo, verifyAccessJWT
  <2>5a. ASSUME NEW q \in Introspections
         PROVE  HandleIntrospect(q, t, base) = "active" <=>
                   /\ q.auth = "ok" /\ q.hint # "refresh_token"
                   /\ verifyAccessJWT(t, base) /\ t.client_id = q.client
    BY SMT DEF HandleIntrospect
  <2>6. ASSUME HandleUserinfo(t, base) PROVE Verdicts(p, t) \subseteq {{}, {"scope"}}
    <3>1. t.iss = base /\ now <= t.exp
      BY <2>3, <2>6, Zenon DEF HandleUserinfo
    <3> QED
      BY <1>1, <2>1, <3>1, ValidVerdicts
  <2> HIDE DEF base
  <2>7. ASSUME NEW q \in Introspections, HandleIntrospect(q, t, base) = "active"
        PROVE  HandleUserinfo(t, base) /\ q.client = t.client_id
    BY <2>5, <2>5a, <2>7
  <2>8. ASSUME NEW q \in Introspections, HandleUserinfo(t, base),
               q.auth = "ok", q.client = t.client_id, q.hint # "refresh_token"
        PROVE  HandleIntrospect(q, t, base) = "active"
    BY <2>5, <2>5a, <2>8
  <2> QED
    BY <2>6, <2>7, <2>8 DEF base
<1> QED
  BY <1>1, GatewayInvariant, PTL

==============================================================================
