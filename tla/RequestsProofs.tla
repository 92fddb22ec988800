----------------------------- MODULE RequestsProofs -----------------------------
(***************************************************************************)
(* What holds of a request of each kind, for any number of endpoints,      *)
(* gateways, redirects, relays, servers, questions and records, and for    *)
(* zones of any names.  A step of a behaviour is one of the request's own  *)
(* module (OfItsKind), so an invariant of a kind is proved of that         *)
(* module's Init and Next.                                                 *)
(***************************************************************************)
EXTENDS Requests, SequenceTheorems, FiniteSetTheorems, WellFoundedInduction, TLAPS

LEMMA OfItsKind ==
  ASSUME [Next]_vars
  PROVE  /\ kind' = kind
         /\ kind = "address" => [Route!Next]_request
         /\ kind = "ens" => [Ens!Next]_request
         /\ kind = "registry" => [Registry!Next]_request
         /\ kind = "onion" => [Onion!Next]_request
         /\ kind = "nostr" => [Nostr!Next]_request
         /\ kind = "ar" => [Ar!Next]_request
         /\ kind = "web" => [Web!Next]_request
         /\ kind = "zone" => [Zone!Next]_request
         /\ kind = "chain" => [Chain!Next]_request
         /\ kind = "server" => [Ns!Next]_request
         /\ kind = "pointer" => [Content!Next]_request
         /\ [Warm!Next]_archive
<1>1. CASE UNCHANGED vars
  BY <1>1 DEF vars, request, archive
<1>2. CASE Next
  BY <1>2 DEF Next, Goes, Step, Stores, request, archive, Warm!Next, Onion!Next, Ar!Next,
              Ar!Works
<1> QED
  BY <1>1, <1>2

LEMMA BeginsAsItsKind ==
  ASSUME Init
  PROVE  /\ kind = "address" => Route!Init
         /\ kind = "ens" => Ens!Init
         /\ kind = "registry" => Registry!Init
         /\ kind = "onion" => Onion!Init
         /\ kind = "nostr" => Nostr!Init
         /\ kind = "ar" => Ar!Init
         /\ kind = "web" => Web!Init
         /\ kind = "zone" => Zone!Init
         /\ kind = "chain" => Chain!Init
         /\ kind = "server" => Ns!Init
         /\ kind = "pointer" => Content!Init
         /\ Warm!Init
BY DEF Init, Begins

-------------------------------------------------------------------------------
(* Arweave.  A header is kept only if it was verified, and only of a whole *)
(* answer; the answer to a HEAD has no body, but for an error's.           *)
ArFields == {"pc", "host", "hop", "status", "body", "header", "verified", "page"}

ArInv ==
  /\ DOMAIN call = ArFields /\ call.header \in {"none", "true"}
  /\ given.method \in {"GET", "HEAD", "POST"}
  /\ given.holds \in {"data", "large", "rendered"}
  /\ call.pc \notin {"begin", "done"} => given.method # "POST"
  /\ call.pc \in {"begin", "ask"} => call.header = "none"
  /\ call.pc = "header" =>
       /\ call.header = "none" /\ call.status = 200 /\ ~given.path
       /\ given.method = "HEAD" => call.body # "untrue"
  /\ call.pc = "body" /\ call.header = "true" =>
       /\ call.status = 200 /\ ~given.path /\ given.checkable
       /\ given.method = "HEAD" => call.body # "untrue"
  /\ Ar!VerifiedIsSigned

LEMMA ArEnds ==
  ASSUME ArInv, NEW page, page # "served", Ar!Become(Ar!End(page))
  PROVE  ArInv'
<1>1. given' = given /\ call' = [call EXCEPT !.pc = "done", !.page = page]
  BY DEF Ar!Become, Ar!End
<1> QED
  BY <1>1 DEF ArInv, ArFields, Ar!VerifiedIsSigned

LEMMA StepAr == ArInv /\ Ar!Next => ArInv'
<1> SUFFICES ASSUME ArInv, Ar!Next PROVE ArInv'
  OBVIOUS
<1> USE DEF ArInv, ArFields, Ar!Become, Ar!VerifiedIsSigned
<1>1. CASE Ar!Begin
  <2>1. CASE Ar!Become([call EXCEPT !.pc = "ask"]) /\ call.pc = "begin"
                /\ given.method # "POST"
    BY <2>1
  <2> QED
    BY <1>1, <2>1, ArEnds DEF Ar!Begin
<1>2. CASE Ar!HostDown
  <2>1. CASE Ar!Become(Ar!NextHost)
    <3>1. /\ DOMAIN call' = DOMAIN call /\ given' = given /\ call.pc = "ask"
          /\ call'.pc = call.pc /\ call'.header = call.header
          /\ call'.status = call.status /\ call'.body = call.body
          /\ call'.verified = call.verified /\ call'.page = call.page
      <4>1. PICK next : call' = [call EXCEPT !.host = next, !.hop = 0]
        BY <2>1 DEF Ar!NextHost
      <4>2. DOMAIN call = ArFields /\ given' = given /\ call.pc = "ask"
        BY <1>2, <2>1 DEF Ar!HostDown
      <4> QED
        BY ONLY <4>1, <4>2 DEF ArFields
    <3> QED
      BY <3>1
  <2> QED
    BY <1>2, <2>1, ArEnds DEF Ar!HostDown
<1>3. CASE Ar!HostErrs
  BY <1>3 DEF Ar!HostErrs, Ar!NextHost
<1>4. CASE Ar!HostThrows \/ Ar!BodyFails
  BY <1>4, ArEnds DEF Ar!HostThrows, Ar!BodyFails
<1>5. CASE Ar!HeaderLost
  BY <1>5 DEF Ar!HeaderLost
<1>6. CASE Ar!Serve
  <2>1. CASE Ar!Comparable /\ call.body # "true"
    BY <1>6, <2>1, ArEnds DEF Ar!Serve
  <2>2. CASE ~(Ar!Comparable /\ call.body # "true")
    <3>1. PICK says \in {"none", "header", "bytes"} :
            /\ says = "bytes" <=> Ar!Comparable
            /\ says = "header" <=> call.header # "none" /\ ~Ar!Comparable
            /\ call' = [call EXCEPT !.pc = "done", !.page = "served", !.verified = says]
            /\ given' = given
      BY <1>6, <2>2 DEF Ar!Serve, Ar!End
    <3>2. /\ DOMAIN call' = ArFields
          /\ call'.pc = "done" /\ call'.verified = says
          /\ call'.header = call.header /\ call'.status = call.status
          /\ call'.body = call.body
      BY <3>1
    <3>3. call.pc = "body"
      BY <1>6 DEF Ar!Serve
    <3>4. Ar!VerifiedIsSigned'
      <4>1. CASE Ar!Comparable
        BY <2>2, <3>1, <3>2, <3>3, <4>1 DEF Ar!Comparable, Ar!Representation
      <4>2. CASE ~Ar!Comparable
        BY <2>2, <3>1, <3>2, <3>3, <4>2 DEF Ar!Comparable, Ar!Representation
      <4> QED
        BY <4>1, <4>2
    <3> QED
      BY <3>1, <3>2, <3>4
  <2> QED
    BY <2>1, <2>2
<1>7. ASSUME NEW same \in BOOLEAN, Ar!Redirects(same)
      PROVE  ArInv'
  <2>1. CASE Ar!Become([call EXCEPT !.hop = 1])
    BY <1>7, <2>1 DEF Ar!Redirects
  <2> QED
    BY <1>7, <2>1, ArEnds DEF Ar!Redirects
<1>8. ASSUME NEW true \in BOOLEAN, Ar!Header(true)
      PROVE  ArInv'
  <2>1. CASE ~true
    BY <1>8, <2>1, ArEnds DEF Ar!Header
  <2> QED
    BY <1>8, <2>1 DEF Ar!Header
<1>9. ASSUME NEW r \in Ar!Replies, Ar!Answers(r[1], r[2])
      PROVE  ArInv'
  <2>1. /\ r[1] \in {200, 206, 404} /\ r[2] \in {"none", "true", "untrue", "part"}
        /\ given.method = "HEAD" => r[2] # "untrue"
    BY DEF Ar!Replies
  <2> QED
    BY <1>9, <2>1 DEF Ar!Answers
<1> QED
  BY <1>1, <1>2, <1>3, <1>4, <1>5, <1>6, <1>7, <1>8, <1>9 DEF Ar!Next

(* ar.js says `verified' of a page only over what the transaction signs,    *)
(* and over a verified header shows no other bytes where it holds the body *)
(* against it, that is, where it is whole, raw and small enough; however   *)
(* many gateways there are, and whichever of them lie or fail.             *)
THEOREM VerifiedBytesAreSigned == Spec => []VerifiedIsSigned
<1>1. Init => (kind = "ar" => ArInv)
  BY BeginsAsItsKind DEF Ar!Init, ArInv, ArFields, Ar!VerifiedIsSigned
<1>2. (kind = "ar" => ArInv) /\ [Next]_vars => (kind = "ar" => ArInv)'
  <2> SUFFICES ASSUME kind = "ar", ArInv, [Next]_vars PROVE ArInv'
    BY OfItsKind
  <2>1. [Ar!Next]_request
    BY OfItsKind
  <2>2. CASE UNCHANGED request
    BY <2>2 DEF request, ArInv, Ar!VerifiedIsSigned
  <2> QED
    BY <2>1, <2>2, StepAr
<1>3. (kind = "ar" => ArInv) => VerifiedIsSigned
  BY DEF ArInv, VerifiedIsSigned
<1> QED
  BY <1>1, <1>2, <1>3, PTL DEF Spec

-------------------------------------------------------------------------------
(* NsAddress.  The servers before the current one were each asked, or have *)
(* no address; and the other root's word is only waited for once the       *)
(* chain's was lost, or each server of the TLD was tried in vain.          *)
NsFields == {"pc", "at", "from", "lost", "ns", "by", "tried", "second", "asked", "bare",
             "result"}

(* The TLD's servers before the current one were tried in vain. *)
NsTried ==
  /\ call.pc \in {"glue", "chain"} => call.ns = 1 /\ call.by = "none" /\ call.tried = {}
  /\ call.pc \in {"servers", "parent"} =>
       /\ call.ns \in 1 .. given.servers /\ call.tried = 1 .. call.ns - 1
       /\ call.by = "icann" => call.ns \notin given.glued
  /\ call.pc = "icann" /\ given.registered =>
       call.lost \/ call.tried = 1 .. given.servers

NsInv ==
  /\ DOMAIN call = NsFields
  /\ call.pc \in {"glue", "chain", "servers", "parent", "icann", "ask", "end", "done"}
  /\ call.at \in Nat /\ given.servers \in Nat
  /\ call.pc \notin {"end", "done"} => call.at \in 1 .. NameServers
  /\ call.pc = "end" => call.at = NameServers + 1
  /\ call.asked \cup call.bare \subseteq 1 .. NameServers
  /\ \A k \in 1 .. NameServers : k < call.at => k \in call.asked \cup call.bare
  /\ call.pc = "ask" => call.at \in call.asked
  /\ call.pc \notin {"ask", "done"} => call.from = "none"
  /\ NsTried
  /\ call.pc # "done" => call.result # "unreachable"
  /\ Ns!OwnRootFirst

(* What Use makes of an address, of the first or of a second one. *)
LEMMA NsUses ==
  ASSUME NsInv, NEW from, NEW address,
         call.pc \in {"glue", "chain", "parent", "icann", "ask"},
         from \in {"chain", "icann"} => call.pc # "ask",
         from = "icann" => call.pc = "icann",
         from = "chain" => call.pc \in {"chain", "parent"},
         given' = given,
         \/ call' = Ns!Use(from, address)
         \/ call' = [Ns!Use(from, address) EXCEPT !.second = TRUE]
  PROVE  NsInv'
<1> USE DEF NsFields
<1>1. /\ \/ call'.pc = "done" /\ call'.result \in {"blocked", "server"}
                              /\ call'.asked = call.asked
         \/ call'.pc = "ask" /\ call'.result = call.result
                             /\ call'.asked = call.asked \cup {call.at}
      /\ DOMAIN call' = NsFields
      /\ call'.at = call.at /\ call'.lost = call.lost /\ call'.ns = call.ns
      /\ call'.by = call.by /\ call'.tried = call.tried
      /\ call'.bare = call.bare /\ call'.from = from
  <2>1. DOMAIN call = NsFields
    BY DEF NsInv
  <2>2. \/ call' = [Ns!Done("blocked") EXCEPT !.from = from]
        \/ call' = [[Ns!Done("blocked") EXCEPT !.from = from] EXCEPT !.second = TRUE]
        \/ call' = [Ns!Done("server") EXCEPT !.from = from]
        \/ call' = [[Ns!Done("server") EXCEPT !.from = from] EXCEPT !.second = TRUE]
        \/ call' = [Ns!GoTo("ask") EXCEPT !.from = from, !.asked = @ \cup {call.at}]
        \/ call' = [[Ns!GoTo("ask") EXCEPT !.from = from, !.asked = @ \cup {call.at}]
                      EXCEPT !.second = TRUE]
    BY DEF Ns!Use
  <2> QED
    <3>1. CASE \/ call' = [Ns!Done("blocked") EXCEPT !.from = from]
               \/ call' = [[Ns!Done("blocked") EXCEPT !.from = from] EXCEPT !.second = TRUE]
      BY <2>1, <3>1 DEF Ns!Done
    <3>2. CASE \/ call' = [Ns!Done("server") EXCEPT !.from = from]
               \/ call' = [[Ns!Done("server") EXCEPT !.from = from] EXCEPT !.second = TRUE]
      BY <2>1, <3>2 DEF Ns!Done
    <3>3. CASE call' = [Ns!GoTo("ask") EXCEPT !.from = from, !.asked = @ \cup {call.at}]
      BY <2>1, <3>3 DEF Ns!GoTo
    <3>4. CASE call' = [[Ns!GoTo("ask") EXCEPT !.from = from, !.asked = @ \cup {call.at}]
                         EXCEPT !.second = TRUE]
      BY <2>1, <3>4 DEF Ns!GoTo
    <3> QED
      BY <2>2, <3>1, <3>2, <3>3, <3>4
<1>2. call'.asked \cup call'.bare \subseteq 1 .. NameServers
  BY <1>1 DEF NsInv
<1>3. \A k \in 1 .. NameServers : k < call'.at => k \in call'.asked \cup call'.bare
  BY <1>1 DEF NsInv
<1>4. /\ from = "icann" /\ given.registered => call.lost \/ call.tried = 1 .. given.servers
      /\ from = "chain" /\ call.by = "icann" => call.ns \in 1 .. given.servers \ given.glued
  BY DEF NsInv, NsTried
<1>5. Ns!OwnRootFirst'
  BY <1>1, <1>4 DEF Ns!OwnRootFirst, NsInv
<1>6. NsTried'
  BY <1>1 DEF NsTried
<1> QED
  BY <1>1, <1>2, <1>3, <1>5, <1>6 DEF NsInv

(* The next server has its turn: the one before it is behind us. *)
LEMMA NsNext ==
  ASSUME NsInv, NEW bare,
         \/ /\ call.pc = "ask" /\ bare = call.bare
            /\ call' = Ns!NextServer(call)
         \/ /\ call.pc = "icann" /\ bare = call.bare \cup {call.at}
            /\ call' = Ns!NextServer([call EXCEPT !.bare = @ \cup {call.at}]),
         given' = given
  PROVE  NsInv'
<1> USE DEF NsFields
<1>1. /\ DOMAIN call' = NsFields
      /\ call'.pc = IF call.at < NameServers THEN "glue" ELSE "end"
      /\ call'.at = call.at + 1 /\ call'.from = "none" /\ call'.result = call.result
      /\ call'.asked = call.asked /\ call'.bare = bare
      /\ call'.ns = 1 /\ call'.by = "none" /\ call'.tried = {}
  BY DEF NsInv, Ns!NextServer
<1>2. call.at \in 1 .. NameServers /\ call.at \in call'.asked \cup call'.bare
  BY <1>1 DEF NsInv
<1>3. call'.asked \cup call'.bare \subseteq 1 .. NameServers
  BY <1>1, <1>2 DEF NsInv
<1>4. \A k \in 1 .. NameServers : k < call'.at => k \in call'.asked \cup call'.bare
  <2> TAKE k \in 1 .. NameServers
  <2> HAVE k < call'.at
  <2>1. k < call.at \/ k = call.at
    BY <1>1, <1>2, RequestsAssumption
  <2> QED
    BY <1>1, <1>2, <2>1 DEF NsInv
<1>5. call'.at \in Nat /\ (call.at < NameServers => call'.at \in 1 .. NameServers)
      /\ (~(call.at < NameServers) => call'.at = NameServers + 1)
  BY <1>1, <1>2, RequestsAssumption
<1>6. NsTried'
  BY <1>1 DEF NsTried
<1> QED
  BY <1>1, <1>3, <1>4, <1>5, <1>6 DEF NsInv, Ns!OwnRootFirst

(* A step to another question about the same server. *)
LEMMA NsGoes ==
  ASSUME NsInv, call.pc \in {"glue", "chain", "servers", "parent"}, given' = given,
         DOMAIN call' = NsFields, call'.pc \in {"chain", "servers", "parent", "icann"},
         call'.at = call.at, call'.from = call.from, call'.result = call.result,
         call'.asked = call.asked, call'.bare = call.bare, NsTried'
  PROVE  NsInv'
BY DEF NsInv, Ns!OwnRootFirst

(* One of the TLD's servers is behind us, too. *)
LEMMA NsPasses ==
  ASSUME NsInv, call.pc \in {"servers", "parent"}, given' = given, call' = Ns!PassedOver
  PROVE  NsInv'
<1>1. /\ DOMAIN call' = NsFields /\ call'.ns = call.ns + 1 /\ call'.by = "none"
      /\ call'.pc = (IF call.ns < given.servers THEN "servers" ELSE "icann")
      /\ call'.tried = call.tried \cup {call.ns}
      /\ call'.at = call.at /\ call'.from = call.from /\ call'.result = call.result
      /\ call'.asked = call.asked /\ call'.bare = call.bare
  BY DEF Ns!PassedOver, Ns!GoTo, NsInv, NsFields
<1>2. call.ns \in 1 .. given.servers /\ call.tried = 1 .. call.ns - 1 /\ given.servers \in Nat
  BY DEF NsInv, NsTried
<1>3. call'.tried = 1 .. call.ns
  BY <1>1, <1>2
<1>4. NsTried'
  <2>1. CASE call.ns < given.servers
    <3>1. call'.ns \in 1 .. given.servers /\ call'.tried = 1 .. call'.ns - 1
      BY <1>1, <1>2, <1>3, <2>1
    <3> QED
      BY <1>1, <2>1, <3>1 DEF NsTried
  <2>2. CASE ~(call.ns < given.servers)
    <3>1. call'.tried = 1 .. given.servers
      BY <1>2, <1>3, <2>2
    <3> QED
      BY <1>1, <2>2, <3>1 DEF NsTried
  <2> QED
    BY <2>1, <2>2
<1> QED
  BY <1>1, <1>4, NsGoes

LEMMA StepNs == NsInv /\ Ns!Next => NsInv'
<1> SUFFICES ASSUME NsInv, Ns!Next PROVE NsInv'
  OBVIOUS
<1> USE DEF Ns!Become, Ns!GoTo, Ns!Done
<1>1. CASE Ns!Glue
  <2>1. CASE call' = [call EXCEPT !.pc = "chain"]
    <3>1. call.pc = "glue" /\ given' = given
          /\ call.ns = 1 /\ call.by = "none" /\ call.tried = {}
      BY <1>1 DEF Ns!Glue, NsInv, NsTried
    <3>2. /\ DOMAIN call' = NsFields /\ call'.pc = "chain"
          /\ call'.ns = call.ns /\ call'.by = call.by /\ call'.tried = call.tried
          /\ call'.at = call.at /\ call'.from = call.from /\ call'.result = call.result
          /\ call'.asked = call.asked /\ call'.bare = call.bare
      BY <2>1 DEF NsInv, NsFields
    <3>3. NsTried'
      BY <3>1, <3>2 DEF NsTried
    <3> QED
      BY <3>1, <3>2, <3>3, NsGoes
  <2> QED
    BY <1>1, <2>1, NsUses DEF Ns!Glue
<1>2. CASE Ns!Resource
  <2>0. /\ call.pc = "chain" /\ given' = given /\ given.servers \in Nat
        /\ call.ns = 1 /\ call.by = "none" /\ call.tried = {}
    BY <1>2 DEF Ns!Resource, NsInv, NsTried
  <2>1. ASSUME NEW pc \in {"servers", "icann"}, NEW lost,
               call' = [call EXCEPT !.pc = pc, !.lost = lost] \/
                 (lost = call.lost /\ call' = [call EXCEPT !.pc = pc]),
               pc = "servers" => given.servers > 0,
               pc = "icann" /\ given.registered => lost \/ ~(given.servers > 0)
        PROVE  NsInv'
    <3>1. /\ DOMAIN call' = NsFields /\ call'.pc = pc /\ call'.lost = lost
          /\ call'.ns = call.ns /\ call'.by = call.by /\ call'.tried = call.tried
          /\ call'.at = call.at /\ call'.from = call.from /\ call'.result = call.result
          /\ call'.asked = call.asked /\ call'.bare = call.bare
      BY <2>1 DEF NsInv, NsFields
    <3>2. pc = "servers" => 1 \in 1 .. given.servers /\ {} = 1 .. 1 - 1
      BY <2>0, <2>1
    <3>3. ~(given.servers > 0) => {} = 1 .. given.servers
      BY <2>0
    <3>4. NsTried'
      BY <2>0, <2>1, <3>1, <3>2, <3>3 DEF NsTried
    <3> QED
      BY <2>0, <2>1, <3>1, <3>4, NsGoes
  <2>2. CASE call' = [call EXCEPT !.pc = "icann", !.lost = TRUE]
    BY <2>1, <2>2
  <2>3. CASE ~given.registered /\ call' = [call EXCEPT !.pc = "icann"]
    BY <2>1, <2>3
  <2>4. CASE call' = IF given.servers > 0 THEN [call EXCEPT !.pc = "servers"]
                                          ELSE [call EXCEPT !.pc = "icann"]
    BY <2>1, <2>4
  <2>5. CASE \E a \in Ns!Address : call' = Ns!Use("chain", a)
    BY <2>0, <2>5, NsUses
  <2> QED
    BY <1>2, <2>2, <2>3, <2>4, <2>5 DEF Ns!Resource
<1>3. CASE Ns!TldServers
  <2>1. CASE call' = Ns!PassedOver
    BY <1>3, <2>1, NsPasses DEF Ns!TldServers
  <2>2. CASE call' = [call EXCEPT !.pc = "parent",
                                  !.by = IF call.ns \in given.glued THEN "glue" ELSE "icann"]
    <3>1. /\ DOMAIN call' = NsFields /\ call'.pc = "parent"
          /\ call'.by = IF call.ns \in given.glued THEN "glue" ELSE "icann"
          /\ call'.ns = call.ns /\ call'.tried = call.tried
          /\ call'.at = call.at /\ call'.from = call.from /\ call'.result = call.result
          /\ call'.asked = call.asked /\ call'.bare = call.bare
      BY <2>2 DEF NsInv, NsFields
    <3>2. /\ call.pc = "servers" /\ given' = given
          /\ call.ns \in 1 .. given.servers /\ call.tried = 1 .. call.ns - 1
      BY <1>3 DEF Ns!TldServers, NsInv, NsTried
    <3>3. NsTried'
      BY <3>1, <3>2 DEF NsTried
    <3> QED
      BY <3>1, <3>2, <3>3, NsGoes
  <2> QED
    BY <1>3, <2>1, <2>2 DEF Ns!TldServers
<1>4. CASE Ns!TldAnswers
  BY <1>4, NsUses, NsPasses DEF Ns!TldAnswers
<1>5. CASE Ns!Lookup
  <2>1. CASE call' = Ns!NextServer([call EXCEPT !.bare = @ \cup {call.at}])
    BY <1>5, <2>1, NsNext DEF Ns!Lookup
  <2> QED
    BY <1>5, <2>1, NsUses DEF Ns!Lookup
<1>6. CASE Ns!Answered
  <2>1. /\ DOMAIN call' = NsFields
        /\ call'.pc = "done" /\ call'.result = "answer" /\ call'.from = call.from
        /\ call'.at = call.at /\ call'.lost = call.lost /\ call'.ns = call.ns
        /\ call'.by = call.by /\ call'.tried = call.tried
        /\ call'.asked = call.asked /\ call'.bare = call.bare
    BY <1>6 DEF Ns!Answered, NsInv, NsFields
  <2> QED
    BY <1>6, <2>1 DEF Ns!Answered, NsInv, NsTried, Ns!OwnRootFirst
<1>7. CASE Ns!Unanswered
  <2>1. CASE call' = Ns!NextServer(call)
    BY <1>7, <2>1, NsNext DEF Ns!Unanswered
  <2> QED
    BY <1>7, <2>1, NsUses DEF Ns!Unanswered
<1>8. CASE Ns!Exhausted
  <2>1. /\ DOMAIN call' = NsFields
        /\ call'.pc = "done" /\ call'.result = "unreachable" /\ call'.from = call.from
        /\ call'.at = call.at /\ call'.lost = call.lost /\ call'.ns = call.ns
        /\ call'.by = call.by /\ call'.tried = call.tried
        /\ call'.asked = call.asked /\ call'.bare = call.bare
    BY <1>8 DEF Ns!Exhausted, NsInv, NsFields
  <2>2. call.asked \cup call.bare = 1 .. NameServers
    BY <1>8, RequestsAssumption DEF Ns!Exhausted, NsInv
  <2> QED
    BY <1>8, <2>1, <2>2 DEF Ns!Exhausted, NsInv, NsTried, Ns!OwnRootFirst
<1> QED
  BY <1>1, <1>2, <1>3, <1>4, <1>5, <1>6, <1>7, <1>8 DEF Ns!Next

(* However many name servers a zone and the TLD of each have, and whichever *)
(* questions are lost: ICANN's root is believed about a name of Handshake's *)
(* only after each server of its TLD, or a lost question for the TLD's     *)
(* records; but a server of the TLD without glue is itself found at        *)
(* ICANN's root; and `unreachable' is said of a zone only after its last   *)
(* server.                                                                 *)
THEOREM OwnRootIsFirst == Spec => []OwnRootFirst
<1>1. Init => (kind = "server" => NsInv)
  BY BeginsAsItsKind, RequestsAssumption
     DEF Ns!Init, NsInv, NsTried, NsFields, Ns!OwnRootFirst
<1>2. (kind = "server" => NsInv) /\ [Next]_vars => (kind = "server" => NsInv)'
  <2> SUFFICES ASSUME kind = "server", NsInv, [Next]_vars PROVE NsInv'
    BY OfItsKind
  <2>1. [Ns!Next]_request
    BY OfItsKind
  <2>2. CASE UNCHANGED request
    BY <2>2 DEF request, NsInv, NsTried, Ns!OwnRootFirst
  <2> QED
    BY <2>1, <2>2, StepNs
<1>3. (kind = "server" => NsInv) => OwnRootFirst
  BY DEF NsInv, OwnRootFirst
<1> QED
  BY <1>1, <1>2, <1>3, PTL DEF Spec

-------------------------------------------------------------------------------
(* DnssecChain.  Keys that were anchored are those the zone publishes now: *)
(* a key that is usable and named by a DS is the zone's alone, and of what *)
(* it has signed only that set is live.                                    *)
ChainInv ==
  /\ DOMAIN call = {"pc", "keys", "value", "verdict", "honest"}
  /\ given.ds \subseteq Chain!Ds
  /\ call.pc \in {"keys", "value", "done"}
  /\ call.pc # "done" => call.verdict = "none"
  /\ call.pc = "value" => call.keys = Chain!ZoneKeys
  /\ Chain!AcceptedIsPublished

LEMMA AnchorsAreKept ==
  ASSUME NEW keys, given.ds \subseteq Chain!Ds, NEW k \in Chain!Anchors(keys)
  PROVE  k.id \in {"ksk", "next"}
BY DEF Chain!Anchors, Chain!Named, Chain!Usable, Chain!Ds, Chain!F

LEMMA UsableKeysAreKept ==
  ASSUME NEW k \in Chain!ZoneKeys, Chain!Usable(k)
  PROVE  k.id \in Chain!Kept
BY DEF Chain!ZoneKeys, Chain!Usable, Chain!F, Chain!Kept

LEMMA ChainRefuses ==
  ASSUME ChainInv, NEW honest, Chain!Refuse(honest), given' = given,
         honest => given.rolling \/ Chain!F("ksk", TRUE) \notin given.ds
  PROVE  ChainInv'
<1>1. /\ DOMAIN call' = DOMAIN call
      /\ call'.pc = "done" /\ call'.verdict = "refused"
      /\ call'.honest => honest
  BY DEF ChainInv, Chain!Refuse
<1> QED
  BY <1>1 DEF ChainInv, Chain!AcceptedIsPublished

LEMMA StepAnchor ==
  ASSUME ChainInv, NEW keys, NEW by, NEW live \in BOOLEAN, Chain!Anchor(keys, by, live)
  PROVE  ChainInv'
<1> DEFINE honest == keys = Chain!ZoneKeys /\ by \in Chain!Signers /\ live
<1>1. given' = given /\ call.pc = "keys" /\ given.ds \subseteq Chain!Ds
  BY DEF Chain!Anchor, ChainInv
<1>2. CASE Chain!Anchors(keys) = {} /\ Chain!Refuse(honest)
  <2>1. honest => Chain!F("ksk", TRUE) \notin given.ds
    BY <1>2 DEF Chain!Anchors, Chain!Named, Chain!Usable, Chain!ZoneKeys, Chain!F
  <2> QED
    BY <1>1, <1>2, <2>1, ChainRefuses
<1>3. ASSUME NEW k \in Chain!Anchors(keys),
             Chain!Verifies(Chain!KeysSigned(keys, by, live), by, k, live),
             call' = [call EXCEPT !.pc = "value", !.keys = keys, !.honest = honest]
      PROVE  ChainInv'
  <2>1. by \in Chain!Kept /\ live
    BY <1>1, <1>3, AnchorsAreKept DEF Chain!Verifies, Chain!Kept
  <2>2. keys = Chain!ZoneKeys
    BY <1>3, <2>1 DEF Chain!Verifies, Chain!KeysSigned
  <2>3. /\ DOMAIN call' = DOMAIN call
        /\ call'.pc = "value" /\ call'.keys = keys /\ call'.verdict = call.verdict
    BY <1>3 DEF ChainInv
  <2>4. Chain!ZoneKeys' = Chain!ZoneKeys
    BY <1>1 DEF Chain!ZoneKeys
  <2> QED
    BY <1>1, <2>2, <2>3, <2>4 DEF ChainInv, Chain!AcceptedIsPublished
<1>4. ASSUME NEW k \in Chain!Anchors(keys),
             ~Chain!Verifies(Chain!KeysSigned(keys, by, live), by, k, live),
             Chain!Refuse(honest)
      PROVE  ChainInv'
  <2>1. honest /\ ~given.rolling => by = k.id
    BY <1>1, <1>4 DEF Chain!Signers, Chain!Anchors, Chain!Named, Chain!Usable, Chain!Ds,
                      Chain!F, Chain!ZoneKeys
  <2>2. honest => given.rolling
    BY <1>4, <2>1 DEF Chain!Verifies, Chain!KeysSigned
  <2> QED
    BY <1>1, <1>4, <2>2, ChainRefuses
<1> QED
  BY <1>2, <1>3, <1>4 DEF Chain!Anchor

LEMMA StepVerify ==
  ASSUME ChainInv, NEW value \in Chain!Values, NEW by, NEW live \in BOOLEAN,
         NEW proven \in Chain!Proofs, Chain!Verify(value, by, live, proven)
  PROVE  ChainInv'
<1> DEFINE Signed == Chain!ValueSigned(value, by, live)
           Verified == \E k \in call.keys : Chain!Usable(k) /\ Chain!Verifies(Signed, by, k, live)
           May == given.asks = "answer" => Chain!MayExpand(value, proven)
           honest == live /\ (Chain!Expanded(value) => proven)
                       /\ by \in {"zsk", "ksk"} /\ value \in {"own", "wildcard"} /\ Signed
<1>1. given' = given /\ call.keys = Chain!ZoneKeys /\ call.verdict = "none"
  BY DEF Chain!Verify, ChainInv
<1>2. CASE /\ Verified /\ May
           /\ call' = [call EXCEPT !.pc = "done", !.verdict = "ok", !.value = value]
  <2>1. by \in Chain!Kept /\ live /\ Signed
    BY <1>1, <1>2, UsableKeysAreKept DEF Chain!Verifies
  <2>2. proven => ~given.exact
    BY DEF Chain!Proofs
  <2>3. value = IF given.exact THEN "own" ELSE "wildcard"
    BY <1>2, <2>1, <2>2 DEF Chain!ValueSigned, Chain!MayExpand, Chain!Expanded
  <2>4. /\ DOMAIN call' = DOMAIN call
        /\ call'.pc = "done" /\ call'.verdict = "ok"
        /\ call'.value = value /\ call'.keys = call.keys
    BY <1>2 DEF ChainInv
  <2>5. Chain!ZoneKeys' = Chain!ZoneKeys
    BY <1>1 DEF Chain!ZoneKeys
  <2> QED
    BY <1>1, <2>3, <2>4, <2>5 DEF ChainInv, Chain!AcceptedIsPublished
<1>3. CASE ~(Verified /\ May) /\ Chain!Refuse(honest)
  <2>1. honest => Verified
    <3> SUFFICES ASSUME honest PROVE Verified
      OBVIOUS
    <3>1. Chain!F(by, TRUE) \in call.keys /\ Chain!Usable(Chain!F(by, TRUE))
      BY <1>1 DEF Chain!ZoneKeys, Chain!F, Chain!Usable
    <3> QED
      BY <3>1 DEF Chain!Verifies, Chain!F
  <2>2. honest => May
    BY DEF Chain!MayExpand
  <2> QED
    BY <1>1, <1>3, <2>1, <2>2, ChainRefuses
<1> QED
  BY <1>2, <1>3 DEF Chain!Verify

(* validateChainAt accepts nothing but what the zone publishes now, in     *)
(* whatever order keys, signatures and answers of any time are served, and *)
(* whatever keys its DS names.                                             *)
THEOREM AcceptedAnswersArePublished == Spec => []AcceptedIsPublished
<1>1. Init => (kind = "chain" => ChainInv)
  <2> SUFFICES ASSUME Chain!Init PROVE ChainInv
    BY BeginsAsItsKind
  <2>1. given.ds \in SUBSET Chain!Ds
    BY DEF Chain!Init
  <2>2. call.pc = "keys" /\ call.verdict = "none"
        /\ DOMAIN call = {"pc", "keys", "value", "verdict", "honest"}
    BY DEF Chain!Init
  <2> QED
    BY <2>1, <2>2 DEF ChainInv, Chain!AcceptedIsPublished
<1>2. (kind = "chain" => ChainInv) /\ [Next]_vars => (kind = "chain" => ChainInv)'
  <2> SUFFICES ASSUME kind = "chain", ChainInv, [Next]_vars PROVE ChainInv'
    BY OfItsKind
  <2>1. [Chain!Next]_request
    BY OfItsKind
  <2>2. CASE UNCHANGED request
    BY <2>2 DEF request, ChainInv, Chain!AcceptedIsPublished, Chain!ZoneKeys
  <2> QED
    BY <2>1, <2>2, StepAnchor, StepVerify DEF Chain!Next
<1>3. (kind = "chain" => ChainInv) => AcceptedIsPublished
  BY DEF ChainInv, AcceptedIsPublished
<1> QED
  BY <1>1, <1>2, <1>3, PTL DEF Spec

-------------------------------------------------------------------------------
(* Router.  What each kind of host is to classifyHost; and the readers of  *)
(* a host compared at each of the kinds.                                   *)
LEMMA NamespacesOfHosts ==
  ASSUME NEW h \in Route!Hosts
  PROVE  /\ h.tld = "icann" => Route!HostNamespace(h) = IF h.labels > 1 THEN "icann" ELSE "single"
         /\ h.tld \in {"other", "marked"}
              => Route!HostNamespace(h) = IF h.labels > 1 THEN "hns" ELSE "single"
         /\ h.tld = "digits"
              => Route!HostNamespace(h) = IF h.labels = 1 THEN "single"
                                          ELSE IF given.digits THEN "hns" ELSE "web"
         /\ h.tld = "eth" => Route!HostNamespace(h) = IF h.labels > 1 THEN "ens" ELSE "single"
         /\ h.tld = "onion" => Route!HostNamespace(h) = IF h.labels > 1 THEN "tor" ELSE "web"
         /\ h.tld \in {"reserved", "address"} => Route!HostNamespace(h) = "web"
<1>0. h.labels \in {1, 2}
  BY DEF Route!Hosts
<1> USE DEF Route!HostNamespace, Route!IsReserved
<1>1. CASE h.tld = "icann"
  BY <1>0, <1>1
<1>2. CASE h.tld = "other"
  BY <1>0, <1>2
<1>3. CASE h.tld = "digits"
  BY <1>0, <1>3
<1>4. CASE h.tld = "marked"
  BY <1>0, <1>4
<1>5. CASE h.tld = "eth"
  BY <1>0, <1>5
<1>6. CASE h.tld = "onion"
  BY <1>0, <1>6
<1>7. CASE h.tld = "reserved"
  BY <1>0, <1>7
<1>8. CASE h.tld = "address"
  BY <1>0, <1>8
<1> QED
  BY <1>0, <1>1, <1>2, <1>3, <1>4, <1>5, <1>6, <1>7, <1>8 DEF Route!Hosts, Route!Tlds

LEMMA SchemesOfHosts ==
  ASSUME NEW h
  PROVE  LET n == Route!HostNamespace(h) IN
         /\ n = "tor" => Route!HostScheme(h) = "onion" /\ Route!LinkScheme(h) = "onion"
         /\ n = "ens" => Route!HostScheme(h) = "ens" /\ Route!LinkScheme(h) = "ens"
         /\ n = "hns" => Route!HostScheme(h) = "hns" /\ Route!LinkScheme(h) = "hns"
         /\ n = "icann" => Route!HostScheme(h) = "https" /\ Route!LinkScheme(h) = "as it is"
         /\ n = "web" => /\ Route!HostScheme(h) \in {"http", "https"}
                         /\ Route!LinkScheme(h) = "as it is"
         /\ n = "single" => /\ Route!HostScheme(h) = Route!SingleScheme(h)
                            /\ Route!LinkScheme(h) = "hns"
BY DEF Route!HostScheme, Route!LinkScheme

LEMMA HostsInUrls ==
  ASSUME NEW h \in Route!Hosts
  PROVE  /\ Route!Encoded(h) \in Route!Hosts /\ Route!Encoded(h).labels = h.labels
         /\ Route!Encoded(h).tld = IF h.tld = "digits" THEN "marked" ELSE h.tld
         /\ Route!UrlHost(h) \in Route!Hosts /\ Route!UrlHost(h).labels = h.labels
         /\ Route!UrlHost(h).tld = IF h.tld = "digits" THEN "address" ELSE h.tld
         /\ h.tld # "marked" => Route!Decoded(Route!Encoded(h)) = h
BY DEF Route!Encoded, Route!UrlHost, Route!Decoded, Route!Hosts, Route!Tlds

LEMMA ReadersAgree ==
  ASSUME given.form = "host", given.host \in Route!Hosts
  PROVE  Route!OneNamespacePerHost
<1> DEFINE h == given.host
           inUrl == IF Route!Typed = "hns" THEN Route!Encoded(h) ELSE Route!UrlHost(h)
<1>0. /\ h.labels \in {1, 2} /\ h.tld \in Route!Tlds /\ h \in Route!Hosts
      /\ Route!Typed = Route!HostScheme(h)
  BY DEF Route!Hosts, Route!Typed
<1>1. /\ inUrl \in Route!Hosts /\ inUrl.labels = h.labels
      /\ inUrl.tld = IF h.tld # "digits" THEN h.tld
                     ELSE IF Route!Typed = "hns" THEN "marked" ELSE "address"
      /\ Route!Typed = "hns" /\ h.tld # "marked" => Route!Decoded(inUrl) = h
  BY <1>0, HostsInUrls
<1>2. Route!ThroughProxy(inUrl) <=>
        /\ inUrl.tld \notin {"address", "reserved", "onion"}
        /\ IF inUrl.tld = "digits" THEN given.digits
           ELSE inUrl.labels < 2 \/ inUrl.tld \notin {"eth", "icann"}
  BY DEF Route!ThroughProxy, Route!IsReserved
<1>3. /\ inUrl.labels > 1 \/ h.tld # "icann"
           => Route!LinkScheme(inUrl) = IF Route!Typed \in {"hns", "ens", "onion"}
                                        THEN Route!Typed ELSE "as it is"
      /\ Route!ThroughProxy(inUrl) <=> Route!LinkScheme(inUrl) = "hns"
      /\ h.tld \in {"onion", "reserved"} => Route!Typed # "hns"
  <2> HIDE DEF h, inUrl
  <2>0. /\ Route!Typed = "hns" \/ h.tld # "digits" => inUrl.tld # "digits"
        /\ h.tld # "digits" => inUrl.tld = h.tld
    BY <1>0, <1>1
  <2> USE DEF Route!SingleScheme
  <2>1. CASE h.tld = "icann"
    <3>1. /\ inUrl.tld = "icann" /\ (h.labels = 1 \/ h.labels = 2)
          /\ Route!ThroughProxy(inUrl) <=> h.labels = 1
      BY <1>0, <1>1, <1>2, <2>0, <2>1
    <3>2. /\ Route!HostNamespace(h) = IF h.labels = 1 THEN "single" ELSE "icann"
          /\ Route!HostNamespace(inUrl) = IF h.labels = 1 THEN "single" ELSE "icann"
      BY <1>0, <1>1, <2>1, <3>1, NamespacesOfHosts
    <3>3. CASE h.labels = 1
      <4>1. Route!HostNamespace(inUrl) = "single"
        BY <3>2, <3>3
      <4>2. Route!LinkScheme(inUrl) = "hns"
        BY ONLY <4>1, SchemesOfHosts
      <4> QED
        BY <1>1, <2>1, <3>1, <3>3, <4>2
    <3>4. CASE h.labels = 2
      <4>1. Route!HostNamespace(h) = "icann" /\ Route!HostNamespace(inUrl) = "icann"
        BY <3>2, <3>4
      <4>2. Route!LinkScheme(inUrl) = "as it is" /\ Route!HostScheme(h) = "https"
        BY ONLY <4>1, SchemesOfHosts
      <4>3. ~Route!ThroughProxy(inUrl) /\ Route!Typed = "https"
        <5>1. h.labels # 1
          BY <3>4
        <5>2. Route!Typed = Route!HostScheme(h)
          BY <1>0
        <5> QED
          BY ONLY <3>1, <4>2, <5>1, <5>2
      <4> QED
        BY <2>1, <4>2, <4>3
    <3> QED
      BY <3>1, <3>3, <3>4
  <2>2. CASE h.tld = "other"
    BY <1>0, <1>1, <1>2, <2>0, <2>2, NamespacesOfHosts, SchemesOfHosts
  <2>3. CASE h.tld = "digits"
    BY <1>0, <1>1, <1>2, <2>0, <2>3, NamespacesOfHosts, SchemesOfHosts
  <2>4. CASE h.tld = "marked"
    BY <1>0, <1>1, <1>2, <2>0, <2>4, NamespacesOfHosts, SchemesOfHosts
  <2>5. CASE h.tld = "eth"
    <3>1. /\ inUrl.tld = "eth" /\ (h.labels = 1 \/ h.labels = 2)
          /\ Route!ThroughProxy(inUrl) <=> h.labels = 1
      BY <1>0, <1>1, <1>2, <2>0, <2>5
    <3>2. /\ Route!HostNamespace(h) = IF h.labels = 1 THEN "single" ELSE "ens"
          /\ Route!HostNamespace(inUrl) = IF h.labels = 1 THEN "single" ELSE "ens"
      BY <1>0, <1>1, <2>5, <3>1, NamespacesOfHosts
    <3> QED
      BY <1>0, <1>1, <2>5, <3>1, <3>2, SchemesOfHosts
  <2>6. CASE h.tld = "onion"
    BY <1>0, <1>1, <1>2, <2>0, <2>6, NamespacesOfHosts, SchemesOfHosts
  <2>7. CASE h.tld = "reserved"
    BY <1>0, <1>1, <1>2, <2>0, <2>7, NamespacesOfHosts, SchemesOfHosts
  <2>8. CASE h.tld = "address"
    BY <1>0, <1>1, <1>2, <2>0, <2>8, NamespacesOfHosts, SchemesOfHosts
  <2> QED
    BY <1>0, <2>1, <2>2, <2>3, <2>4, <2>5, <2>6, <2>7, <2>8 DEF Route!Tlds
<1> QED
  BY <1>1, <1>3 DEF Route!OneNamespacePerHost

(* Whoever asks, of whatever kind the host is, router.js, hns-host.js and  *)
(* the script of the WebSocket proxy find the same namespace.              *)
THEOREM HostsHaveOneNamespace == Spec => []OneNamespacePerHost
<1> DEFINE Inv == kind = "address" => given.host \in Route!Hosts
<1>1. Init => Inv
  <2> SUFFICES ASSUME Route!Init PROVE given.host \in Route!Hosts
    BY BeginsAsItsKind
  <2> QED
    BY DEF Route!Init
<1>2. Inv /\ [Next]_vars => Inv'
  <2> SUFFICES ASSUME kind = "address", Inv, [Next]_vars PROVE given' = given
    BY OfItsKind
  <2> QED
    BY OfItsKind DEF request, Route!Next, Route!Classify, Route!Dispatch
<1>3. Inv => OneNamespacePerHost
  BY ReadersAgree DEF OneNamespacePerHost, Route!OneNamespacePerHost
<1> QED
  BY <1>1, <1>2, <1>3, PTL DEF Spec

-------------------------------------------------------------------------------
(* EnsLookup and RegistryOp.  A round is followed only as far as the       *)
(* contract may ask for it; a part of the records is left only by the      *)
(* answers of the one before it.                                           *)
EnsInv ==
  /\ DOMAIN call = {"pc", "round", "at", "kind", "lost", "page", "texts"}
  /\ given.lookups \in Nat /\ given.answer \in Ens!Answers
  /\ call.pc \in {"begin", "rpc", "gateway", "page", "done"}
  /\ call.round \in 0 .. MaxLookups
  /\ call.pc = "rpc" => call.round <= given.lookups
  /\ call.pc = "begin" => call.round = 0
  /\ call.pc = "gateway" => call.round < MaxLookups /\ call.round < given.lookups
  /\ call.pc \in {"rpc", "gateway"} => given.valid /\ (call.round > 0 => given.own)
  /\ call.pc = "gateway" => given.own
  /\ call.pc \in {"page", "done"} =>
       \/ call.kind = "invalid-name" /\ ~given.valid
       \/ call.kind = "unreachable" /\ given.valid
       \/ /\ given.valid /\ given.lookups <= MaxLookups
          /\ given.lookups > 0 => given.own
          /\ \/ call.kind = given.answer
             \/ call.kind = "no-content" /\ call.lost # {}
  /\ call.pc = "done" =>
       /\ call.kind = "invalid-name" => call.page = 400
       /\ call.kind = "unreachable" => call.page = 502

LEMMA StepEns == EnsInv /\ Ens!Next => EnsInv'
<1> SUFFICES ASSUME EnsInv, Ens!Next PROVE EnsInv'
  OBVIOUS
<1> USE RequestsAssumption DEF EnsInv, Ens!Become, Ens!Unreachable, Ens!Found
<1>1. CASE Ens!Resolve
  <2>1. /\ DOMAIN call' = DOMAIN call /\ given' = given
        /\ call'.round = call.round /\ call'.lost = call.lost
        /\ \/ given.valid /\ call'.pc = "rpc"
           \/ ~given.valid /\ call'.pc = "page" /\ call'.kind = "invalid-name"
    BY <1>1 DEF Ens!Resolve
  <2>2. call.round = 0
    BY <1>1 DEF Ens!Resolve
  <2> QED
    BY <2>1, <2>2
<1>2. CASE Ens!RpcFails
  BY <1>2 DEF Ens!RpcFails
<1>3. CASE Ens!RpcGarbles \/ Ens!GatewayRefuses
  <2>1. call' = [call EXCEPT !.pc = "page", !.kind = "unreachable"] /\ given' = given
        /\ given.valid
    BY <1>3 DEF Ens!RpcGarbles, Ens!GatewayRefuses
  <2>2. /\ DOMAIN call' = DOMAIN call
        /\ call'.round = call.round /\ call'.lost = call.lost
        /\ call'.pc = "page" /\ call'.kind = "unreachable"
    BY <2>1
  <2> QED
    BY <2>1, <2>2
<1>4. CASE Ens!RpcAnswers
  <2>1. CASE call.round < given.lookups
    BY <1>4, <2>1 DEF Ens!RpcAnswers, Ens!Follow, Ens!MayFollow
  <2>2. CASE call.round = given.lookups
    BY <1>4, <2>2 DEF Ens!RpcAnswers, Ens!Final, Ens!Answers
  <2> QED
    BY <1>4, <2>1, <2>2 DEF Ens!RpcAnswers
<1>5. CASE Ens!GatewayFails
  BY <1>5 DEF Ens!GatewayFails, Ens!NoGateway
<1>6. CASE Ens!BatchAsked
  <2>1. CASE Ens!Become(Ens!Unreachable)
    BY <1>6, <2>1 DEF Ens!BatchAsked
  <2>2. ASSUME NEW lost \in SUBSET {"part", "forged"},
               Ens!Become(Ens!NextRound([call EXCEPT !.lost = @ \cup lost]))
        PROVE  EnsInv'
    <3>1. /\ DOMAIN call' = DOMAIN call /\ given' = given
          /\ call'.round = call.round + 1 /\ call'.pc = "rpc"
      BY <2>2 DEF Ens!NextRound
    <3>2. call.pc = "gateway"
      BY <1>6 DEF Ens!BatchAsked
    <3> QED
      BY <3>1, <3>2
  <2> QED
    BY <1>6, <2>1, <2>2 DEF Ens!BatchAsked
<1>7. CASE Ens!TextRecords
  BY <1>7 DEF Ens!TextRecords
<1>8. CASE Ens!Render
  BY <1>8 DEF Ens!Render, Ens!StatusOf, Ens!Answers
<1>9. ASSUME NEW genuine \in BOOLEAN, Ens!GatewayAnswers(genuine)
      PROVE  EnsInv'
  BY <1>9 DEF Ens!GatewayAnswers, Ens!NextRound
<1> QED
  BY <1>1, <1>2, <1>3, <1>4, <1>5, <1>6, <1>7, <1>8, <1>9 DEF Ens!Next

(* Only a batch loses a part. *)
EnsLost ==
  /\ DOMAIN call = {"pc", "round", "at", "kind", "lost", "page", "texts"}
  /\ given.via \in {"gateways", "batch", "large batch"}
  /\ call.lost \subseteq {"part", "forged"}
  /\ "part" \in call.lost => given.via = "batch"

LEMMA EnsLoses == EnsLost /\ Ens!Next => EnsLost'
<1> SUFFICES ASSUME EnsLost, Ens!Next PROVE EnsLost'
  OBVIOUS
<1> USE DEF Ens!Become, Ens!Unreachable, Ens!Found
<1>1. ASSUME DOMAIN call' = DOMAIN call, call'.lost = call.lost, given' = given
      PROVE  EnsLost'
  BY <1>1 DEF EnsLost
<1>2. DOMAIN call = {"pc", "round", "at", "kind", "lost", "page", "texts"}
  BY DEF EnsLost
<1>3. CASE Ens!Resolve \/ Ens!RpcFails \/ Ens!RpcGarbles \/ Ens!GatewayRefuses
  BY <1>1, <1>2, <1>3 DEF Ens!Resolve, Ens!RpcFails, Ens!RpcGarbles, Ens!GatewayRefuses
<1>4. CASE Ens!RpcAnswers \/ Ens!GatewayFails
  BY <1>1, <1>2, <1>4 DEF Ens!RpcAnswers, Ens!Follow, Ens!MayFollow, Ens!GatewayFails,
                          Ens!NoGateway
<1>5. CASE Ens!TextRecords \/ Ens!Render
  BY <1>1, <1>2, <1>5 DEF Ens!TextRecords, Ens!Render
<1>6. CASE Ens!BatchAsked
  <2>1. CASE Ens!Become(Ens!Unreachable)
    BY <1>1, <1>2, <2>1
  <2>2. ASSUME NEW lost \in SUBSET {"part", "forged"}, given.via # "large batch",
               Ens!Become(Ens!NextRound([call EXCEPT !.lost = @ \cup lost]))
        PROVE  EnsLost'
    <3>1. /\ DOMAIN call' = DOMAIN call /\ given' = given
          /\ call'.lost = call.lost \cup lost
      BY <1>2, <2>2 DEF Ens!NextRound
    <3>2. given.via = "batch"
      BY <1>6, <2>2 DEF Ens!BatchAsked, EnsLost
    <3> QED
      BY <3>1, <3>2 DEF EnsLost
  <2> QED
    BY <1>6, <2>1, <2>2 DEF Ens!BatchAsked
<1>7. ASSUME NEW genuine \in BOOLEAN, Ens!GatewayAnswers(genuine)
      PROVE  EnsLost'
  <2>1. /\ DOMAIN call' = DOMAIN call /\ given' = given
        /\ call'.lost = IF genuine THEN call.lost ELSE call.lost \cup {"forged"}
    BY <1>2, <1>7 DEF Ens!GatewayAnswers, Ens!NextRound
  <2> QED
    BY <2>1 DEF EnsLost
<1> QED
  BY <1>3, <1>4, <1>5, <1>6, <1>7 DEF Ens!Next

RegistryInv ==
  /\ DOMAIN call = {"pc", "at", "lost", "got", "kind", "insecure"}
  /\ call.pc \in {"resolver", "contenthash", "has", "records", "done"}
  /\ DOMAIN call.got = Registry!Parts
  /\ call.pc \in {"contenthash", "has", "records"} => given.resolver
  /\ call.pc \in {"has", "records"} =>
       given.content \in {"none", "reverts"} \/ "contenthash" \in call.lost
  /\ call.pc = "records" => given.records
  /\ \A p \in Registry!Parts : call.got[p] \in {0} \cup Registry!Blocks
  /\ given.text \in {"none", "pointer"}
  /\ given.content \in {"none", "reverts", "pointer", "unusable"}
  /\ \A b \in Registry!Blocks : given.address[b] \in {"none", "public", "private"}
  /\ call.pc # "done" => ~call.insecure
  /\ Registry!RegistryIsReadWhole

LEMMA RegistryFalls ==
  ASSUME RegistryInv, Registry!Become(Registry!Fall), call.pc # "done"
  PROVE  RegistryInv'
<1>1. /\ DOMAIN call' = DOMAIN call /\ given' = given
      /\ call'.pc = "done" /\ call'.kind = "fall" /\ call'.got = call.got
  BY DEF RegistryInv, Registry!Become, Registry!Fall, Registry!Found
<1> QED
  BY <1>1 DEF RegistryInv, Registry!RegistryIsReadWhole

(* On to the next call, which is about what the ones before it have found. *)
LEMMA RegistryGoes ==
  ASSUME RegistryInv, NEW pc \in {"contenthash", "has", "records"}, given' = given,
         call.pc # "done",
         \/ call' = Registry!GoTo(pc)
         \/ call' = [Registry!GoTo(pc) EXCEPT !.lost = {"contenthash"}],
         given.resolver,
         pc # "contenthash" =>
           given.content \in {"none", "reverts"} \/ "contenthash" \in call'.lost,
         pc = "records" => given.records /\ call.pc = "has"
  PROVE  RegistryInv'
<1>1. /\ DOMAIN call' = DOMAIN call /\ call'.pc = pc
      /\ call'.got = call.got /\ call'.insecure = call.insecure /\ call'.kind = call.kind
  BY DEF RegistryInv, Registry!GoTo
<1> QED
  BY <1>1 DEF RegistryInv, Registry!RegistryIsReadWhole

LEMMA StepRegistry == RegistryInv /\ Registry!Next => RegistryInv'
<1> SUFFICES ASSUME RegistryInv, Registry!Next PROVE RegistryInv'
  OBVIOUS
<1> USE DEF Registry!Become
<1>1. CASE Registry!RpcFails
  <2>1. CASE Registry!Become([call EXCEPT !.at = @ + 1])
    <3>1. /\ DOMAIN call' = DOMAIN call /\ given' = given
          /\ call'.pc = call.pc /\ call'.got = call.got /\ call'.lost = call.lost
          /\ call'.insecure = call.insecure /\ call'.kind = call.kind
      BY <2>1 DEF RegistryInv
    <3> QED
      BY <1>1, <3>1 DEF Registry!RpcFails, RegistryInv, Registry!RegistryIsReadWhole
  <2>2. CASE Registry!Become(Registry!Lost)
    <3>1. CASE call.pc = "contenthash"
      <4>1. call' = [Registry!GoTo("has") EXCEPT !.lost = {"contenthash"}]
            /\ given' = given /\ given.resolver
        BY <2>2, <3>1 DEF Registry!Lost, RegistryInv
      <4>2. "contenthash" \in call'.lost
        BY <4>1 DEF Registry!GoTo, RegistryInv
      <4> QED
        BY <3>1, <4>1, <4>2, RegistryGoes
    <3>2. CASE call.pc # "contenthash"
      BY <1>1, <2>2, <3>2, RegistryFalls DEF Registry!Lost, Registry!RpcFails
    <3> QED
      BY <3>1, <3>2
  <2> QED
    BY <1>1, <2>1, <2>2 DEF Registry!RpcFails
<1>2. CASE Registry!Resolver
  BY <1>2, RegistryFalls, RegistryGoes DEF Registry!Resolver
<1>3. CASE Registry!Contenthash
  <2>1. CASE given.content = "none"
    <3>1. call' = Registry!GoTo("has") /\ given' = given /\ call.pc = "contenthash"
      BY <1>3, <2>1 DEF Registry!Contenthash
    <3> QED
      BY <2>1, <3>1, RegistryGoes DEF RegistryInv
  <2>2. ASSUME NEW found,
               \/ found = "content" /\ given.content = "pointer"
               \/ found = "unsupported-pointer" /\ given.content = "unusable",
               call' = Registry!Found(found)
        PROVE  RegistryInv'
    <3>1. /\ DOMAIN call' = DOMAIN call /\ given' = given
          /\ call'.pc = "done" /\ call'.kind = found /\ call'.got = call.got
          /\ call'.insecure = call.insecure /\ call.pc = "contenthash"
      BY <1>3, <2>2 DEF Registry!Contenthash, Registry!Found, RegistryInv
    <3> QED
      BY <2>2, <3>1 DEF RegistryInv, Registry!RegistryIsReadWhole
  <2> QED
    BY <1>3, <2>1, <2>2 DEF Registry!Contenthash, RegistryInv
<1>4. CASE Registry!HasRecords
  <2>1. CASE given.records
    <3>1. call' = Registry!GoTo("records") /\ given' = given /\ call.pc = "has"
      BY <1>4, <2>1 DEF Registry!HasRecords
    <3>2. call'.lost = call.lost
      BY <3>1 DEF Registry!GoTo, RegistryInv
    <3> QED
      BY <2>1, <3>1, <3>2, RegistryGoes DEF RegistryInv
  <2>2. CASE ~given.records
    BY <1>4, <2>2, RegistryFalls DEF Registry!HasRecords
  <2> QED
    BY <2>1, <2>2
<1>5. CASE Registry!Answer
  <2>0. /\ call.pc = "records" /\ \A p \in Registry!Parts : call.got[p] \in Registry!Blocks
        /\ given' = given
    BY <1>5 DEF Registry!Answer, RegistryInv
  <2>1. CASE Registry!Become(Registry!Fall)
    BY <2>0, <2>1, RegistryFalls
  <2>2. ASSUME NEW found \in {"pointer", "blocked"},
               found = "pointer" <=> given.text = "pointer",
               call' = Registry!Found(found)
        PROVE  RegistryInv'
    <3>1. /\ DOMAIN call' = DOMAIN call
          /\ call'.pc = "done" /\ call'.kind = found /\ call'.got = call.got
          /\ call'.insecure = call.insecure /\ call'.lost = call.lost
      BY <2>2 DEF Registry!Found, RegistryInv
    <3> QED
      BY <2>0, <2>2, <3>1 DEF RegistryInv, Registry!RegistryIsReadWhole
  <2>3. CASE /\ Registry!Address = "public" /\ given.text # "pointer"
             /\ call' = [Registry!Found("site") EXCEPT !.insecure = ~Registry!Pinned]
    <3>1. /\ DOMAIN call' = DOMAIN call
          /\ call'.pc = "done" /\ call'.kind = "site" /\ call'.got = call.got
          /\ call'.insecure = ~Registry!Pinned /\ call'.lost = call.lost
      BY <2>3 DEF Registry!Found, RegistryInv
    <3>2. "address" \in Registry!Parts /\ "pin" \in Registry!Parts
      BY DEF Registry!Parts
    <3>3. /\ \E b \in Registry!Blocks : given.address[b] = "public"
          /\ ~Registry!Pinned => \E b \in Registry!Blocks : ~given.pin[b]
      BY <2>0, <2>3, <3>2 DEF Registry!Address, Registry!Pinned
    <3> QED
      BY <2>0, <2>3, <3>1, <3>3 DEF RegistryInv, Registry!RegistryIsReadWhole
  <2>4. Registry!Address \in {"none", "public", "private"} /\ "text" \in Registry!Parts
    BY DEF RegistryInv, Registry!Address, Registry!Parts
  <2>5. CASE given.text = "pointer"
    BY <1>5, <2>0, <2>2, <2>4, <2>5 DEF Registry!Answer
  <2>6. CASE given.text # "pointer"
    BY <1>5, <2>0, <2>1, <2>2, <2>3, <2>4, <2>6 DEF Registry!Answer
  <2> QED
    BY <2>5, <2>6
<1>6. ASSUME NEW p \in Registry!Parts, Registry!LosesRecord(p)
      PROVE  RegistryInv'
  BY <1>6, RegistryFalls DEF Registry!LosesRecord
<1>7. ASSUME NEW p \in Registry!Parts, NEW b \in Registry!Blocks, Registry!Reads(p, b)
      PROVE  RegistryInv'
  <2>1. /\ DOMAIN call' = DOMAIN call /\ given' = given
        /\ call.pc = "records" /\ call'.pc = call.pc
        /\ call'.got = [call.got EXCEPT ![p] = b] /\ call'.lost = call.lost
        /\ call'.insecure = call.insecure /\ call'.kind = call.kind
    BY <1>7 DEF Registry!Reads, RegistryInv
  <2>2. /\ DOMAIN call'.got = Registry!Parts
        /\ \A q \in Registry!Parts : call'.got[q] \in {0} \cup Registry!Blocks
    BY <2>1 DEF RegistryInv
  <2> QED
    BY <2>1, <2>2 DEF RegistryInv, Registry!RegistryIsReadWhole
<1> QED
  BY <1>1, <1>2, <1>3, <1>4, <1>5, <1>6, <1>7 DEF Registry!Next

(* A page of ens-protocol.js about a name, and a route of hip5-op.js, say   *)
(* what the contract answered, however many endpoints, gateways and rounds *)
(* there are and whichever of them are lost.  The exceptions are those of  *)
(* EnsPageIsDeserved and RegistryIsReadWhole: a gateway's forgery, a part  *)
(* of a batch, and the call for a registry name's content.                 *)
THEOREM ContractsAreBelievedWhole == Spec => []ContractsAreReadWhole
<1> DEFINE Inv == /\ kind = "ens" => EnsInv /\ EnsLost
                  /\ kind = "registry" => RegistryInv
<1>1. Init => Inv
  <2>1. Ens!Init => EnsInv /\ EnsLost
    <3> SUFFICES ASSUME Ens!Init PROVE EnsInv /\ EnsLost
      OBVIOUS
    <3>1. given.lookups \in Nat /\ given.answer \in Ens!Answers
      <4>1. given.lookups \in 0 .. MaxLookups + 1 /\ given.answer \in Ens!Answers
        BY DEF Ens!Init
      <4> QED
        BY <4>1, RequestsAssumption
    <3>2. /\ DOMAIN call = {"pc", "round", "at", "kind", "lost", "page", "texts"}
          /\ call.pc = "begin" /\ call.round = 0 /\ call.lost = {}
      BY DEF Ens!Init
    <3>3. given.via \in {"gateways", "batch", "large batch"}
      BY DEF Ens!Init
    <3>4. EnsInv
      BY <3>1, <3>2, RequestsAssumption DEF EnsInv
    <3> QED
      BY <3>2, <3>3, <3>4 DEF EnsLost
  <2>2. Registry!Init => RegistryInv
    BY DEF Registry!Init, RegistryInv, Registry!RegistryIsReadWhole
  <2> QED
    BY <2>1, <2>2, BeginsAsItsKind
<1>2. Inv /\ [Next]_vars => Inv'
  <2> SUFFICES ASSUME Inv, [Next]_vars PROVE Inv'
    OBVIOUS
  <2>1. ASSUME kind = "ens" PROVE EnsInv' /\ EnsLost'
    <3>1. CASE UNCHANGED request
      <4>1. call' = call /\ given' = given
        BY <3>1 DEF request
      <4>2. EnsInv'
        BY <2>1, <4>1 DEF EnsInv
      <4> QED
        BY <2>1, <4>1, <4>2 DEF EnsLost
    <3> QED
      BY <2>1, <3>1, OfItsKind, StepEns, EnsLoses
  <2>2. ASSUME kind = "registry" PROVE RegistryInv'
    <3>1. CASE UNCHANGED request
      BY <2>2, <3>1 DEF request, RegistryInv, Registry!RegistryIsReadWhole
    <3> QED
      BY <2>2, <3>1, OfItsKind, StepRegistry
  <2> QED
    BY <2>1, <2>2, OfItsKind
<1>3. Inv => ContractsAreReadWhole
  <2>1. EnsInv /\ EnsLost => Ens!EnsPageIsDeserved
    <3> SUFFICES ASSUME EnsInv, EnsLost, call.pc = "done", call.page \notin {400, 502}
                 PROVE  /\ given.valid /\ given.lookups <= MaxLookups
                        /\ given.lookups > 0 => given.own
                        /\ call.kind # given.answer =>
                             /\ call.kind = "no-content"
                             /\ \/ "forged" \in call.lost
                                \/ "part" \in call.lost /\ given.via = "batch"
      BY DEF Ens!EnsPageIsDeserved
    <3>1. /\ given.valid /\ given.lookups <= MaxLookups
          /\ given.lookups > 0 => given.own
          /\ call.kind = given.answer \/ (call.kind = "no-content" /\ call.lost # {})
      BY DEF EnsInv
    <3>2. ASSUME call.lost # {}
          PROVE  "forged" \in call.lost \/ "part" \in call.lost
      <4>1. PICK x : x \in call.lost
        BY <3>2
      <4>2. x \in {"part", "forged"}
        BY <4>1 DEF EnsLost
      <4> QED
        BY <4>1, <4>2
    <3> QED
      BY <3>1, <3>2 DEF EnsLost
  <2>2. RegistryInv => Registry!RegistryIsReadWhole
    BY DEF RegistryInv
  <2> QED
    BY <2>1, <2>2 DEF ContractsAreReadWhole
<1> QED
  BY <1>1, <1>2, <1>3, PTL DEF Spec

-------------------------------------------------------------------------------
(* OnionHops and RelayUnion.  A request goes out once for every hop, to    *)
(* the service; what a query has taken is what was sent while it was open. *)
OnionFields == {"pc", "hop", "method", "body", "target", "sent", "let", "clear", "page"}

OnionInv ==
  /\ DOMAIN call = OnionFields
  /\ call.pc \in {"begin", "body", "wait", "done"}
  /\ given.method \in {"GET", "HEAD", "POST"} /\ call.body \in BOOLEAN
  /\ call.hop \in 0 .. MaxRedirects /\ call.sent \in Nat
  /\ call.pc \in {"begin", "body"} => call.sent = 0 /\ call.hop = 0 /\ ~call.clear
  /\ call.pc = "begin" => ~call.body
  /\ call.pc = "body" => call.body /\ call.method = "POST" /\ given.method = "POST"
  /\ call.pc = "wait" => call.sent = call.hop + 1
  /\ call.pc \in {"body", "wait"} =>
       given.host = "valid" /\ call.let /\ call.target = "service"
  /\ call.pc # "done" => call.page = "none"
  /\ Onion!OnionStaysWithItsService

LEMMA OnionPage ==
  ASSUME OnionInv, NEW p, Onion!Become(Onion!Page(p)), p = "served" => call.pc = "wait"
  PROVE  OnionInv'
<1>1. /\ DOMAIN call' = DOMAIN call /\ given' = given
      /\ call'.pc = "done" /\ call'.page = p /\ call'.hop = call.hop /\ call'.sent = call.sent
      /\ call'.method = call.method /\ call'.body = call.body /\ call'.target = call.target
      /\ call'.let = call.let /\ call'.clear = call.clear
  BY DEF OnionInv, OnionFields, Onion!Become, Onion!Page
<1> QED
  BY <1>1 DEF OnionInv, Onion!OnionStaysWithItsService

(* What a request must be when it goes out. *)
LEMMA OnionSends ==
  ASSUME OnionInv, call.pc # "done", NEW c, Onion!Become(Onion!Sent(c)),
         DOMAIN c = OnionFields, c.page = "none",
         c.hop \in 0 .. MaxRedirects, c.sent = c.hop,
         given.host = "valid", c.let, c.target = "service",
         c.body \in BOOLEAN, c.body <=> c.method = "POST",
         c.method = given.method \/ <<given.method, c.method>> = <<"POST", "GET">>,
         c.clear \/ ~given.on => c.sent > 0 \/ given.method = "POST"
  PROVE  OnionInv'
<1>1. /\ given' = given
      /\ call' = [c EXCEPT !.pc = "wait", !.sent = @ + 1, !.clear = @ \/ ~given.on]
  BY DEF Onion!Become, Onion!Sent
<1>2. /\ DOMAIN call' = OnionFields
      /\ call'.pc = "wait" /\ call'.page = c.page /\ call'.hop = c.hop
      /\ call'.sent = c.sent + 1 /\ call'.method = c.method /\ call'.body = c.body
      /\ call'.target = c.target /\ call'.let = c.let
      /\ call'.clear = (c.clear \/ ~given.on)
  BY <1>1 DEF OnionFields
<1>3. /\ call'.sent = call'.hop + 1 /\ call'.sent \in Nat /\ call'.hop \in 0 .. MaxRedirects
      /\ call'.sent <= MaxRedirects + 1
      /\ c.sent > 0 => call'.sent > 1
  BY <1>2, RequestsAssumption
<1>4. call'.clear => call'.sent > 1 \/ given'.method = "POST"
  BY <1>1, <1>2, <1>3
<1>5. Onion!OnionStaysWithItsService'
  BY <1>1, <1>2, <1>3, <1>4 DEF Onion!OnionStaysWithItsService
<1> QED
  BY <1>1, <1>2, <1>3, <1>5 DEF OnionInv

LEMMA OnionFollows ==
  ASSUME OnionInv, NEW l \in Onion!Locations, NEW keeps \in BOOLEAN,
         call.pc = "wait", call.hop < MaxRedirects, Onion!Classify(l) = "same-service",
         Onion!Become(Onion!Followed(l, keeps))
  PROVE  OnionInv'
<1> DEFINE kept == keeps \/ call.method \in {"GET", "HEAD"}
           c == [call EXCEPT !.hop = @ + 1, !.target = Onion!Owner(l),
                             !.method = IF kept THEN @ ELSE "GET", !.body = @ /\ kept]
<1>1. Onion!Become(Onion!Sent(c))
  BY DEF Onion!Followed
<1>2. Onion!Owner(l) = "service"
  <2>1. l.scheme \in {"http", "https", "other", "none"}
    BY DEF Onion!Locations
  <2> QED
    BY <2>1 DEF Onion!Classify, Onion!Owner
<1>3. /\ DOMAIN c = OnionFields /\ c.page = call.page /\ c.hop = call.hop + 1
      /\ c.sent = call.sent /\ c.let = call.let /\ c.target = Onion!Owner(l)
      /\ c.method = (IF kept THEN call.method ELSE "GET")
      /\ c.body = (call.body /\ kept) /\ c.clear = call.clear
  BY DEF OnionInv, OnionFields
<1>4. /\ call.sent = call.hop + 1 /\ call.hop \in 0 .. MaxRedirects /\ call.sent > 0
  BY RequestsAssumption DEF OnionInv
<1>5. /\ c.hop \in 0 .. MaxRedirects /\ c.sent = c.hop /\ c.sent > 0
  BY <1>3, <1>4, RequestsAssumption
<1>6. /\ call.body \in BOOLEAN /\ (call.body <=> call.method = "POST")
      /\ call.method = given.method \/ <<given.method, call.method>> = <<"POST", "GET">>
      /\ given.method \in {"GET", "HEAD", "POST"}
      /\ given.host = "valid" /\ call.let /\ call.page = "none"
  BY <1>4 DEF OnionInv, Onion!OnionStaysWithItsService
<1>7. kept \in BOOLEAN /\ (call.method \in {"GET", "HEAD"} => kept)
  OBVIOUS
<1> HIDE DEF c, kept
<1>8. /\ c.body \in BOOLEAN /\ (c.body <=> c.method = "POST")
      /\ c.method = given.method \/ <<given.method, c.method>> = <<"POST", "GET">>
  <2>1. CASE kept
    BY <1>3, <1>6, <2>1
  <2>2. CASE ~kept
    <3>1. call.method = "POST" /\ given.method = "POST"
      BY <1>6, <1>7, <2>2
    <3> QED
      BY <1>3, <2>2, <3>1
  <2> QED
    BY <1>7, <2>1, <2>2
<1> QED
  BY <1>1, <1>2, <1>3, <1>5, <1>6, <1>8, OnionSends

LEMMA StepOnion == OnionInv /\ Onion!Next => OnionInv'
<1> SUFFICES ASSUME OnionInv, Onion!Next PROVE OnionInv'
  OBVIOUS
<1>1. CASE Onion!Decide
  <2>0. /\ call.pc = "begin" /\ call.sent = 0 /\ call.hop = 0 /\ ~call.body /\ ~call.clear
        /\ call.page = "none" /\ DOMAIN call = OnionFields
        /\ given.method \in {"GET", "HEAD", "POST"}
    BY <1>1 DEF Onion!Decide, OnionInv
  <2>1. /\ DOMAIN Onion!Let = OnionFields /\ Onion!Let.page = "none" /\ Onion!Let.hop = 0
        /\ Onion!Let.sent = 0 /\ Onion!Let.let /\ Onion!Let.target = "service"
        /\ Onion!Let.method = given.method /\ Onion!Let.body = call.body
        /\ Onion!Let.clear = call.clear
    BY <2>0 DEF Onion!Let, OnionFields
  <2>2. CASE /\ given.host = "valid" /\ given.on /\ given.method # "POST"
             /\ Onion!Become(Onion!Sent(Onion!Let))
    <3>1. 0 \in 0 .. MaxRedirects
      BY RequestsAssumption
    <3>2. ~Onion!Let.body /\ Onion!Let.method # "POST" /\ ~Onion!Let.clear
      BY <2>0, <2>1, <2>2
    <3>3. Onion!Let.body \in BOOLEAN
      BY <2>1 DEF OnionInv
    <3> HIDE DEF Onion!Let
    <3> QED
      BY <2>0, <2>1, <2>2, <3>1, <3>2, <3>3, OnionSends
  <2>3. CASE /\ given.host = "valid" /\ given.on /\ given.method = "POST"
             /\ Onion!Become([Onion!Let EXCEPT !.pc = "body", !.body = TRUE])
    <3>1. /\ given' = given /\ DOMAIN call' = OnionFields
          /\ call'.pc = "body" /\ call'.page = "none" /\ call'.hop = 0 /\ call'.sent = 0
          /\ call'.let /\ call'.target = "service" /\ call'.method = given.method
          /\ call'.body = TRUE /\ call'.clear = call.clear
      BY <2>1, <2>3 DEF Onion!Become, OnionFields
    <3>2. 0 \in 0 .. MaxRedirects /\ 0 <= MaxRedirects + 1 /\ ~(0 > 0)
      BY RequestsAssumption
    <3>3. Onion!OnionStaysWithItsService'
      BY <2>0, <3>1, <3>2 DEF Onion!OnionStaysWithItsService
    <3> QED
      BY <2>0, <2>3, <3>1, <3>2, <3>3 DEF OnionInv
  <2>4. CASE \E p \in {"refused", "interstitial"} : Onion!Become(Onion!Page(p))
    BY <2>4, OnionPage
  <2> QED
    BY <1>1, <2>2, <2>3, <2>4 DEF Onion!Decide
<1>2. CASE Onion!Fetch
  <2>1. Onion!Become(Onion!Sent(call)) /\ call.pc = "body"
    BY <1>2 DEF Onion!Fetch
  <2>2. call.sent = 0 /\ call.hop = 0 /\ 0 \in 0 .. MaxRedirects
    BY <2>1, RequestsAssumption DEF OnionInv
  <2> QED
    BY <2>1, <2>2, OnionSends DEF OnionInv
<1>3. CASE Onion!Fails
  BY <1>3, OnionPage DEF Onion!Fails
<1>4. CASE Onion!Serves
  BY <1>4, OnionPage DEF Onion!Serves
<1>5. ASSUME NEW l \in Onion!Locations, NEW keeps \in BOOLEAN, Onion!Redirected(l, keeps)
      PROVE  OnionInv'
  <2> DEFINE way == Onion!Classify(l)
  <2>1. way \in {"invalid", "off-tor", "unsupported-transport", "same-service", "other-onion"}
    BY DEF Onion!Classify
  <2>2. call.hop < MaxRedirects <=> ~(call.hop >= MaxRedirects)
    BY RequestsAssumption DEF OnionInv
  <2> HIDE DEF way
  <2>3. CASE \E p \in {"tls refused", "too many", "navigate", "told"} :
               Onion!Become(Onion!Page(p))
    BY <2>3, OnionPage
  <2>4. CASE way = "same-service" /\ call.hop < MaxRedirects
    <3>1. call.pc = "wait" /\ Onion!Become(Onion!Followed(l, keeps))
      BY <1>5, <2>2, <2>4 DEF Onion!Redirected, way
    <3> QED
      BY <2>4, <3>1, OnionFollows DEF way
  <2>5. CASE ~(way = "same-service" /\ call.hop < MaxRedirects)
    <3>1. \/ Onion!Become(Onion!Page("tls refused")) \/ Onion!Become(Onion!Page("too many"))
          \/ Onion!Become(Onion!Page("navigate")) \/ Onion!Become(Onion!Page("told"))
      BY <1>5, <2>1, <2>2, <2>5 DEF Onion!Redirected, way
    <3> QED
      BY <2>3, <3>1
  <2> QED
    BY <2>4, <2>5
<1>6. CASE Onion!SwitchOff
  <2>1. call' = call /\ given' = [given EXCEPT !.on = FALSE]
    BY <1>6 DEF Onion!SwitchOff
  <2>2. given'.host = given.host /\ given'.method = given.method
    BY <2>1
  <2> QED
    BY <2>1, <2>2 DEF OnionInv, Onion!OnionStaysWithItsService
<1> QED
  BY <1>1, <1>2, <1>3, <1>4, <1>5, <1>6 DEF Onion!Next


(* Per relay, and the union once all have settled. *)
QueryFields == {"pc", "events", "taken", "rejected", "closes", "error"}

HeardOnce(r) ==
  /\ DOMAIN call.query[r] = QueryFields
  /\ call.query[r].pc \in {"opening", "open", "done"}
  /\ call.query[r].closes \in {0, 1} /\ call.query[r].taken \in 0 .. Limit
  /\ call.query[r].pc # "done" => call.query[r].closes = 0 /\ call.query[r].taken < Limit
  /\ call.query[r].events = given[r].events

NostrInv ==
  /\ DOMAIN call = {"query", "pc", "union"} /\ DOMAIN call.query = Relays
  /\ DOMAIN given = Relays
  /\ \A r \in Relays : HeardOnce(r)
  /\ call.pc = "done" => /\ \A r \in Relays : Nostr!Settled(r)
                         /\ call.union = UNION {Nostr!Query(r).events : r \in Relays}

(* A step of one relay's, by what it leaves of that relay's query. *)
LEMMA NostrBecomes ==
  ASSUME NostrInv, NEW r \in Relays, NEW q, Nostr!Become(r, q),
         \/ given' = given
         \/ \E g : given' = [given EXCEPT ![r] = g],
         HeardOnce(r)', Nostr!Settled(r) => q = Nostr!Query(r)
  PROVE  NostrInv'
<1>1. /\ DOMAIN call' = DOMAIN call
      /\ call'.query = [call.query EXCEPT ![r] = q]
      /\ call'.pc = call.pc /\ call'.union = call.union
  BY DEF Nostr!Become, NostrInv
<1>2. ASSUME NEW s \in Relays
      PROVE  /\ s # r => call'.query[s] = call.query[s] /\ given'[s] = given[s]
             /\ call'.query[r] = q
  BY <1>1 DEF NostrInv
<1>3. \A s \in Relays : HeardOnce(s)'
  BY <1>2 DEF NostrInv, HeardOnce
<1>4. DOMAIN given' = Relays /\ DOMAIN call'.query = Relays
  BY <1>1 DEF NostrInv
<1>5. ASSUME call'.pc = "done"
      PROVE  /\ \A s \in Relays : Nostr!Settled(s)'
             /\ call'.union = UNION {Nostr!Query(s)'.events : s \in Relays}
  <2>1. \A s \in Relays : call'.query[s] = call.query[s]
    BY <1>1, <1>2, <1>5 DEF NostrInv, Nostr!Query
  <2>2. \A s \in Relays : Nostr!Query(s)' = Nostr!Query(s)
    BY <2>1 DEF Nostr!Query
  <2> QED
    BY <1>1, <1>5, <2>1, <2>2 DEF NostrInv, Nostr!Settled
<1> QED
  BY <1>1, <1>3, <1>4, <1>5 DEF NostrInv, Nostr!Query, Nostr!Settled

LEMMA NostrEnds ==
  ASSUME NostrInv, NEW r \in Relays, ~Nostr!Settled(r), given' = given,
         NEW q, Nostr!Become(r, q),
         q \in {[Nostr!Query(r) EXCEPT !.pc = "open"], Nostr!Finish(Nostr!Query(r)),
                Nostr!Failed(Nostr!Query(r))}
  PROVE  NostrInv'
<1> DEFINE o == Nostr!Query(r)
<1>1. /\ DOMAIN o = QueryFields /\ o = call.query[r] /\ HeardOnce(r)
      /\ o.pc # "done"
  BY DEF NostrInv, HeardOnce, Nostr!Query, Nostr!Settled
<1>2. /\ DOMAIN q = QueryFields /\ q.pc \in {"open", "done"}
      /\ q.closes = o.closes /\ q.taken = o.taken /\ q.events = o.events
  BY <1>1 DEF Nostr!Finish, Nostr!Failed, QueryFields
<1>3. call'.query[r] = q
  BY DEF Nostr!Become, NostrInv
<1>4. HeardOnce(r)'
  BY <1>1, <1>2, <1>3 DEF HeardOnce
<1> QED
  BY <1>4, NostrBecomes

LEMMA NostrSends ==
  ASSUME NostrInv, NEW r \in Relays, NEW events, NEW q, Nostr!Sends(r, events, q),
         Nostr!Query(r).pc = "open" =>
           /\ DOMAIN q = QueryFields /\ q.pc \in {"open", "done"}
           /\ q.closes \in {0, 1} /\ q.taken \in 0 .. Limit
           /\ q.pc # "done" => q.closes = 0 /\ q.taken < Limit
           /\ q.events = Nostr!Query(r).events \cup events
  PROVE  NostrInv'
<1> DEFINE o == Nostr!Query(r)
           h == Nostr!Heard(r, q)
<1>1. /\ DOMAIN o = QueryFields /\ o = call.query[r] /\ HeardOnce(r)
      /\ o.pc \in {"open", "done"}
  BY DEF NostrInv, HeardOnce, Nostr!Query, Nostr!Sends
<1>2. /\ Nostr!Become(r, h)
      /\ given' = [given EXCEPT ![r] = Nostr!Noted(r, events)]
  BY DEF Nostr!Sends
<1>3. call'.query[r] = h
  BY <1>2 DEF Nostr!Become, NostrInv
<1>4. given'[r].events = IF o.pc = "done" THEN given[r].events ELSE given[r].events \cup events
  <2>1. given'[r] = Nostr!Noted(r, events)
    BY <1>2 DEF NostrInv
  <2> QED
    BY <2>1 DEF Nostr!Noted, Nostr!Settled
<1>5. CASE o.pc = "open"
  <2>1. h = q
    BY <1>5 DEF Nostr!Heard
  <2>2. HeardOnce(r)'
    BY <1>1, <1>3, <1>4, <1>5, <2>1 DEF HeardOnce
  <2> QED
    BY <1>2, <1>4, <1>5, <2>1, <2>2, NostrBecomes DEF Nostr!Settled
<1>6. CASE o.pc = "done"
  <2>1. h = o
    BY <1>6 DEF Nostr!Heard
  <2>2. HeardOnce(r)'
    BY <1>1, <1>3, <1>4, <1>6, <2>1 DEF HeardOnce
  <2> QED
    BY <1>2, <1>4, <2>1, <2>2, NostrBecomes
<1> QED
  BY <1>1, <1>5, <1>6

LEMMA StepNostr == NostrInv /\ Nostr!Next => NostrInv'
<1> SUFFICES ASSUME NostrInv, Nostr!Next PROVE NostrInv'
  OBVIOUS
<1>0. ASSUME NEW r \in Relays
      PROVE  LET o == Nostr!Query(r) IN
             /\ DOMAIN o = QueryFields /\ o.closes \in {0, 1} /\ o.taken \in 0 .. Limit
             /\ o.pc # "done" => o.closes = 0 /\ o.taken < Limit
  BY DEF NostrInv, HeardOnce, Nostr!Query
<1>1. ASSUME NEW r \in Relays, Nostr!Open(r) \/ Nostr!Lost(r)
      PROVE  NostrInv'
  BY <1>1, NostrEnds DEF Nostr!Open, Nostr!Lost, Nostr!Settled
<1>2. ASSUME NEW r \in Relays, Nostr!SendsForged(r)
      PROVE  NostrInv'
  <2> DEFINE o == Nostr!Query(r)
             q == [o EXCEPT !.rejected = TRUE]
  <2>1. /\ DOMAIN q = QueryFields /\ q.pc = o.pc /\ q.closes = o.closes
        /\ q.taken = o.taken /\ q.events = o.events
    BY <1>0 DEF QueryFields
  <2>2. Nostr!Sends(r, {}, q)
    BY <1>2 DEF Nostr!SendsForged
  <2> QED
    BY <1>0, <2>1, <2>2, NostrSends
<1>3. ASSUME NEW r \in Relays, Nostr!SendsEnd(r)
      PROVE  NostrInv'
  <2> DEFINE o == Nostr!Query(r)
             q == Nostr!Finish([o EXCEPT !.closes = @ + 1])
  <2>1. /\ DOMAIN q = QueryFields /\ q.pc = "done" /\ q.closes = o.closes + 1
        /\ q.taken = o.taken /\ q.events = o.events
    BY <1>0 DEF QueryFields, Nostr!Finish
  <2>2. Nostr!Sends(r, {}, q)
    BY <1>3 DEF Nostr!SendsEnd
  <2>3. o.pc = "open" => q.closes = 1
    BY <1>0, <2>1
  <2> QED
    BY <1>0, <2>1, <2>2, <2>3, NostrSends
<1>4. ASSUME NEW r \in Relays, NEW e \in Events, Nostr!SendsEvent(r, e)
      PROVE  NostrInv'
  <2> DEFINE o == Nostr!Query(r)
             q == Nostr!Take(o, e)
             taken == [o EXCEPT !.events = @ \cup {e}, !.taken = @ + 1]
  <2>1. /\ DOMAIN taken = QueryFields /\ taken.pc = o.pc /\ taken.closes = o.closes
        /\ taken.taken = o.taken + 1 /\ taken.events = o.events \cup {e}
    BY <1>0 DEF QueryFields
  <2>2. /\ DOMAIN q = QueryFields /\ q.closes = o.closes
        /\ q.taken = o.taken + 1 /\ q.events = o.events \cup {e}
        /\ q.pc = IF o.taken + 1 >= Limit THEN "done" ELSE o.pc
    <3>1. q = IF taken.taken >= Limit THEN Nostr!Finish(taken) ELSE taken
      BY DEF Nostr!Take
    <3> HIDE DEF q, taken
    <3> QED
      BY <2>1, <3>1 DEF Nostr!Finish, QueryFields
  <2>3. Nostr!Sends(r, {e}, q)
    BY <1>4 DEF Nostr!SendsEvent
  <2>4. o.pc = "open" => q.taken \in 0 .. Limit /\ (q.pc # "done" => q.taken < Limit)
    BY <1>0, <2>2, RequestsAssumption
  <2> HIDE DEF q, taken
  <2> QED
    BY <1>0, <2>2, <2>3, <2>4, NostrSends
<1>5. CASE Nostr!Union
  <2>1. /\ DOMAIN call' = DOMAIN call /\ call'.query = call.query /\ given' = given
        /\ call'.pc = "done" /\ \A r \in Relays : Nostr!Settled(r)
        /\ call'.union = UNION {Nostr!Query(r).events : r \in Relays}
    BY <1>5 DEF Nostr!Union, NostrInv
  <2>2. \A r \in Relays : Nostr!Query(r)' = Nostr!Query(r)
    BY <2>1 DEF Nostr!Query
  <2> QED
    BY <2>1, <2>2 DEF NostrInv, HeardOnce, Nostr!Settled, Nostr!Query
<1> QED
  BY <1>1, <1>2, <1>3, <1>4, <1>5 DEF Nostr!Next

(* The bytes that are shown are those of the service's own host and port,  *)
(* after a bounded number of requests (onion-protocol.js), and the events  *)
(* are those that relays sent while they were still being asked (relay.js), *)
(* for any bound on redirects, and whatever number of relays sends         *)
(* whatever number of frames.                                              *)
THEOREM WhatIsShownWasFetched == Spec => []ShownIsFetched
<1> DEFINE Inv == (kind = "onion" => OnionInv) /\ (kind = "nostr" => NostrInv)
<1>1. Init => Inv
  <2>1. Onion!Init => OnionInv
    <3> SUFFICES ASSUME Onion!Init PROVE OnionInv
      OBVIOUS
    <3>1. given.method \in {"GET", "HEAD", "POST"}
      BY DEF Onion!Init
    <3>2. call = [pc |-> "begin", hop |-> 0, method |-> "none", body |-> FALSE,
                  target |-> "none", sent |-> 0, let |-> FALSE, clear |-> FALSE,
                  page |-> "none"]
      BY DEF Onion!Init
    <3> QED
      BY <3>1, <3>2, RequestsAssumption
         DEF OnionInv, OnionFields, Onion!OnionStaysWithItsService
  <2>2. Nostr!Init => NostrInv
    <3> SUFFICES ASSUME Nostr!Init PROVE NostrInv
      OBVIOUS
    <3>1. /\ given = [r \in Relays |-> Nostr!None]
          /\ call = [query |-> [r \in Relays |-> [pc |-> "opening", events |-> {},
                                 taken |-> 0, rejected |-> FALSE, closes |-> 0,
                                 error |-> FALSE]],
                     pc |-> "asking", union |-> {}]
      BY DEF Nostr!Init
    <3>2. ASSUME NEW r \in Relays PROVE HeardOnce(r)
      <4>1. given[r].events = {}
        BY <3>1 DEF Nostr!None
      <4>2. call.query[r] = [pc |-> "opening", events |-> {}, taken |-> 0,
                             rejected |-> FALSE, closes |-> 0, error |-> FALSE]
        BY <3>1
      <4>3. DOMAIN call.query[r] = QueryFields
        BY <4>2 DEF QueryFields
      <4>4. 0 \in 0 .. Limit /\ 0 < Limit
        BY RequestsAssumption
      <4> QED
        BY <4>1, <4>2, <4>3, <4>4 DEF HeardOnce
    <3> QED
      BY <3>1, <3>2 DEF NostrInv
  <2> QED
    BY <2>1, <2>2, BeginsAsItsKind
<1>2. Inv /\ [Next]_vars => Inv'
  <2> SUFFICES ASSUME Inv, [Next]_vars PROVE Inv'
    OBVIOUS
  <2>1. ASSUME kind = "onion" PROVE OnionInv'
    <3>1. CASE UNCHANGED request
      BY <2>1, <3>1 DEF request, OnionInv, Onion!OnionStaysWithItsService
    <3> QED
      BY <2>1, <3>1, OfItsKind, StepOnion
  <2>2. ASSUME kind = "nostr" PROVE NostrInv'
    <3>1. CASE UNCHANGED request
      BY <2>2, <3>1 DEF request, NostrInv, HeardOnce, Nostr!Settled, Nostr!Query
    <3> QED
      BY <2>2, <3>1, OfItsKind, StepNostr
  <2> QED
    BY <2>1, <2>2, OfItsKind
<1>3. Inv => ShownIsFetched
  <2>1. NostrInv => Nostr!RelaysAreHeardOnce
    BY RequestsAssumption DEF NostrInv, HeardOnce, Nostr!RelaysAreHeardOnce, Nostr!Query, Nostr!Settled
  <2> QED
    BY <2>1 DEF ShownIsFetched, OnionInv
<1> QED
  BY <1>1, <1>2, <1>3, PTL DEF Spec

-------------------------------------------------------------------------------
(* OriginWarm.  What is believed changes by the operations of              *)
(* block-presence.js alone.                                                *)
WarmInv == DOMAIN presence = {"whole", "known", "checked"} /\ Warm!BeliefsExpire

LEMMA BeliefsKept ==
  ASSUME WarmInv,
         \/ presence' = presence
         \/ presence' = [presence EXCEPT !.checked = "stale"]
         \/ presence' = Warm!Forget(presence)
         \/ presence' = [presence EXCEPT !.checked = "fresh"]
         \/ \E k, from : presence' = Warm!Remember(presence, k, from)
  PROVE  WarmInv'
<1> USE DEF WarmInv, Warm!BeliefsExpire
<1>1. CASE presence' = presence
  BY <1>1
<1>2. CASE presence' = Warm!Forget(presence)
  BY <1>2 DEF Warm!Forget
<1>3. ASSUME NEW checked \in {"stale", "fresh"},
             presence' = [presence EXCEPT !.checked = checked]
      PROVE  WarmInv'
  BY <1>3
<1>4. ASSUME NEW k, NEW from, presence' = Warm!Remember(presence, k, from)
      PROVE  WarmInv'
  <2>1. DOMAIN presence' = DOMAIN presence /\ presence'.checked = "fresh"
    BY <1>4 DEF Warm!Remember
  <2> QED
    BY <2>1
<1> QED
  BY <1>1, <1>2, <1>3, <1>4

LEMMA BeliefsRevalidated ==
  ASSUME WarmInv, NEW answer, presence' = Warm!Revalidated(presence, answer)
  PROVE  WarmInv'
BY BeliefsKept DEF Warm!Revalidated

LEMMA StepWarm == WarmInv /\ Warm!Next => WarmInv'
<1> SUFFICES ASSUME WarmInv, Warm!Next PROVE WarmInv'
  OBVIOUS
<1>1. CASE Warm!Asks
  BY <1>1, BeliefsKept DEF Warm!Asks, Warm!Open, Warm!Read
<1>2. ASSUME NEW r \in reads, Warm!ReadGoesOn(r)
      PROVE  WarmInv'
  <2>1. CASE Warm!RootAsked(r) \/ Warm!SliceEnded(r)
    BY <2>1, BeliefsKept DEF Warm!RootAsked, Warm!SliceEnded
  <2>2. CASE Warm!RootAnswered(r)
    BY <2>2, BeliefsKept, BeliefsRevalidated DEF Warm!RootAnswered
  <2> QED
    BY <1>2, <2>1, <2>2 DEF Warm!ReadGoesOn
<1>3. ASSUME NEW k \in Warm!Keys, Warm!WarmGoesOn(k)
      PROVE  WarmInv'
  <2>1. CASE Warm!WarmFails(k) \/ Warm!Fetched(k) \/ Warm!Import(k)
    BY <2>1, BeliefsKept DEF Warm!WarmFails, Warm!Fetched, Warm!Import
  <2>2. CASE Warm!Imported(k)
    BY <2>2, BeliefsKept DEF Warm!Imported
  <2> QED
    BY <1>3, <2>1, <2>2 DEF Warm!WarmGoesOn
<1>4. CASE Warm!OpenGoesOn
  <2>1. CASE Warm!OpenAnswered
    BY <2>1, BeliefsKept, BeliefsRevalidated DEF Warm!OpenAnswered
  <2>2. CASE Warm!OpenUnanswered \/ Warm!TooLarge \/ Warm!HeadEnded
    BY <2>2, BeliefsKept DEF Warm!OpenUnanswered, Warm!TooLarge, Warm!HeadEnded
  <2> QED
    BY <1>4, <2>1, <2>2 DEF Warm!OpenGoesOn
<1>5. CASE Warm!Age \/ Warm!Collect
  BY <1>5, BeliefsKept DEF Warm!Age, Warm!Collect
<1> QED
  BY <1>1, <1>2, <1>3, <1>4, <1>5 DEF Warm!Next, Warm!Works

(* Whatever block-presence.js believes of the node is given a time by the  *)
(* same step, for archives of any number of slices, and however many reads *)
(* are under way while it is forgotten.                                    *)
THEOREM WhatIsBelievedExpires == Spec => []BeliefsExpire
<1>1. Init => WarmInv
  BY BeginsAsItsKind DEF Warm!Init, WarmInv, Warm!BeliefsExpire
<1>2. WarmInv /\ [Next]_vars => WarmInv'
  <2> SUFFICES ASSUME WarmInv, [Next]_vars PROVE WarmInv'
    OBVIOUS
  <2>1. CASE UNCHANGED archive
    BY <2>1, BeliefsKept DEF archive
  <2> QED
    BY <2>1, OfItsKind, StepWarm
<1>3. WarmInv => BeliefsExpire
  BY DEF WarmInv, BeliefsExpire
<1> QED
  BY <1>1, <1>2, <1>3, PTL DEF Spec

-------------------------------------------------------------------------------
(* Sets of positions have a least one, which is what SelectInSeq returns.  *)
LEMMA Smallest ==
  ASSUME NEW T \in SUBSET Nat, T # {}
  PROVE  \E x \in T : \A y \in T : x <= y
<1> DEFINE R == OpToRel(<, Nat)
<1>1. IsWellFoundedOn(R, Nat)
  BY NatLessThanWellFounded
<1>2. \A x, y \in Nat : y < x => <<y, x>> \in R
  BY DEF OpToRel
<1> HIDE DEF R
<1>3. PICK x \in T : \A y \in T : ~(<<y, x>> \in R)
  BY <1>1, WFMin
<1>4. \A y \in T : ~(y < x)
  BY <1>2, <1>3
<1> QED
  BY <1>3, <1>4

LEMMA WebMin ==
  ASSUME NEW T \in SUBSET Nat, T # {}
  PROVE  Web!Min(T) \in T
BY Smallest DEF Web!Min

(* What is left of a sequence without one position is the rest of it. *)
LEMMA RestOfRows ==
  ASSUME NEW S, NEW s \in Seq(S), NEW i \in 1 .. Len(s)
  PROVE  /\ Web!RemoveAt(s, i) \in Seq(S)
         /\ \A j \in 1 .. Len(s) : j # i =>
              \E k \in 1 .. Len(Web!RemoveAt(s, i)) : Web!RemoveAt(s, i)[k] = s[j]
<1> DEFINE a == SubSeq(s, 1, i - 1)
           b == SubSeq(s, i + 1, Len(s))
<1>1. /\ Len(s) \in Nat /\ i \in Nat
      /\ a \in Seq(S) /\ Len(a) = i - 1 /\ \A k \in 1 .. i - 1 : a[k] = s[k]
      /\ b \in Seq(S) /\ Len(b) = Len(s) - i /\ \A k \in 1 .. Len(s) - i : b[k] = s[i + k]
  BY SubSeqProperties, LenProperties
<1>2. Web!RemoveAt(s, i) = a \o b
  BY DEF Web!RemoveAt
<1> HIDE DEF a, b
<1>3. /\ a \o b \in Seq(S) /\ Len(a \o b) = Len(s) - 1
      /\ \A k \in 1 .. Len(s) - 1 :
           (a \o b)[k] = IF k <= i - 1 THEN a[k] ELSE b[k - (i - 1)]
  <2>1. /\ a \o b \in Seq(S) /\ Len(a \o b) = Len(a) + Len(b)
        /\ \A k \in 1 .. Len(a) + Len(b) :
             (a \o b)[k] = IF k <= Len(a) THEN a[k] ELSE b[k - Len(a)]
    BY <1>1, ConcatProperties
  <2>2. Len(a) + Len(b) = Len(s) - 1 /\ Len(a) = i - 1
    BY <1>1
  <2> QED
    BY <2>1, <2>2
<1>4. ASSUME NEW j \in 1 .. Len(s), j # i
      PROVE  \E k \in 1 .. Len(a \o b) : (a \o b)[k] = s[j]
  <2>1. CASE j < i
    BY <1>1, <1>3, <1>4, <2>1, SMTT(30)
  <2>2. CASE j > i
    <3>1. j - 1 \in 1 .. Len(s) - 1 /\ ~(j - 1 <= i - 1) /\ j - 1 - (i - 1) = j - i
          /\ j - i \in 1 .. Len(s) - i /\ i + (j - i) = j
      BY <1>1, <1>4, <2>2
    <3> QED
      BY <1>1, <1>3, <3>1
  <2> QED
    BY <1>1, <1>4, <2>1, <2>2
<1> QED
  BY <1>2, <1>3, <1>4

(* Bridge.  Whatever is over has a row of its key at its time or later,    *)
(* unless that row was pushed out.                                         *)
Stands(q) == \E p \in Web!Rows \cup call.pushed : given[p] = given[q] /\ p >= q

WebInv ==
  /\ DOMAIN call = {"asked", "flight", "rows", "pushed", "old", "ended"}
  /\ DOMAIN call.ended = Web!Question
  /\ call.rows \in Seq(Web!Question) /\ call.pushed \subseteq Web!Question
  /\ \A q \in Web!Question : call.ended[q] # "no" => Stands(q)

LEMMA WebRows ==
  ASSUME NEW S, NEW s \in Seq(S)
  PROVE  Web!ToSet(s) = {s[i] : i \in 1 .. Len(s)} /\ Web!ToSet(s) \subseteq S
BY ElementOfSeq, LenProperties DEF Web!ToSet

LEMMA WebTimes ==
  ASSUME WebInv
  PROVE  /\ Web!Question \subseteq Nat /\ call.pushed \subseteq Web!Question
         /\ Web!Rows \subseteq Web!Question
<1>1. Web!Question \subseteq Nat
  BY DEF Web!Question
<1>2. call.rows \in Seq(Web!Question) /\ call.pushed \subseteq Web!Question
  BY DEF WebInv
<1>3. Web!ToSet(call.rows) \subseteq Web!Question
  BY <1>2, WebRows
<1> QED
  BY <1>1, <1>2, <1>3 DEF Web!Rows

LEMMA WebRowsAppended ==
  ASSUME NEW S, NEW s \in Seq(S), NEW q \in S
  PROVE  /\ Append(s, q) \in Seq(S) /\ Append(s, q) # <<>>
         /\ Web!ToSet(Append(s, q)) = Web!ToSet(s) \cup {q}
<1> DEFINE t == Append(s, q)
<1>1. /\ t \in Seq(S) /\ t # <<>> /\ Len(t) = Len(s) + 1 /\ Len(s) \in Nat
      /\ \A i \in 1 .. Len(s) : t[i] = s[i]
      /\ t[Len(s) + 1] = q
  BY AppendProperties, LenProperties
<1> HIDE DEF t
<1>2. Web!ToSet(t) = {t[i] : i \in 1 .. Len(t)} /\ Web!ToSet(s) = {s[i] : i \in 1 .. Len(s)}
  BY <1>1, WebRows
<1>3. 1 .. Len(t) = 1 .. Len(s) \cup {Len(s) + 1}
  BY <1>1
<1>4. Web!ToSet(t) = Web!ToSet(s) \cup {q}
  BY <1>1, <1>2, <1>3
<1> QED
  BY <1>1, <1>4 DEF t

(* A row of its key is all that an ending removes before it adds its own.  *)
OthersRows(q) == Web!RemoveFirstMatch(call.rows, LAMBDA row : given[row] = given[q])

LEMMA RowsOnceEnded ==
  ASSUME WebInv, NEW q \in Web!Question
  PROVE  /\ OthersRows(q) \in Seq(Web!Question)
         /\ \A p \in Web!Rows : given[p] = given[q] \/ p \in Web!ToSet(OthersRows(q))
<1> DEFINE I == {i \in 1 .. Len(call.rows) : given[call.rows[i]] = given[q]}
           left == OthersRows(q)
<1>1. /\ call.rows \in Seq(Web!Question) /\ Len(call.rows) \in Nat
      /\ Web!Rows = {call.rows[i] : i \in 1 .. Len(call.rows)}
  BY WebRows, LenProperties DEF WebInv, Web!Rows
<1>2. CASE I = {}
  <2>1. left = call.rows
    BY <1>2 DEF OthersRows, Web!RemoveFirstMatch
  <2> QED
    BY <1>1, <2>1 DEF Web!Rows
<1>3. CASE I # {}
  <2> DEFINE m == Web!Min(I)
  <2>1. m \in I
    <3>1. I \in SUBSET Nat
      BY <1>1
    <3> HIDE DEF I
    <3> QED
      BY <1>3, <3>1, WebMin
  <2>2. left = Web!RemoveAt(call.rows, m)
    BY <1>3 DEF OthersRows, Web!RemoveFirstMatch, Web!SelectInSeq
  <2> HIDE DEF left, m
  <2>3. /\ left \in Seq(Web!Question)
        /\ \A j \in 1 .. Len(call.rows) : j # m => \E k \in 1 .. Len(left) : left[k] = call.rows[j]
    BY <1>1, <2>1, <2>2, RestOfRows
  <2>4. given[call.rows[m]] = given[q]
    BY <2>1
  <2>5. Web!ToSet(left) = {left[k] : k \in 1 .. Len(left)}
    BY <2>3, WebRows
  <2> QED
    BY <1>1, <2>3, <2>4, <2>5 DEF left
<1> QED
  BY <1>2, <1>3

LEMMA RowsOncePushed ==
  ASSUME NEW S, NEW s \in Seq(S), s # <<>>
  PROVE  Tail(s) \in Seq(S) /\ Head(s) \in S
         /\ Web!ToSet(s) \subseteq Web!ToSet(Tail(s)) \cup {Head(s)}
<1>1. /\ Tail(s) \in Seq(S) /\ Head(s) \in S /\ Len(Tail(s)) = Len(s) - 1
      /\ \A i \in 1 .. Len(Tail(s)) : Tail(s)[i] = s[i + 1]
      /\ Len(s) \in Nat /\ Head(s) = s[1]
  BY HeadTailProperties, LenProperties
<1>2. ASSUME NEW i \in 1 .. Len(s)
      PROVE  s[i] \in Web!ToSet(Tail(s)) \cup {Head(s)}
  <2>1. CASE i = 1
    BY <1>1, <2>1
  <2>2. CASE i # 1
    <3>1. i - 1 \in 1 .. Len(Tail(s)) /\ Tail(s)[i - 1] = s[i]
      BY <1>1, <2>2
    <3>2. Web!ToSet(Tail(s)) = {Tail(s)[j] : j \in 1 .. Len(Tail(s))}
      BY <1>1, WebRows
    <3> QED
      BY <3>1, <3>2
  <2> QED
    BY <2>1, <2>2
<1> QED
  BY <1>1, <1>2, WebRows

LEMMA WebEnds ==
  ASSUME WebInv, NEW q \in Web!Question, NEW how \in Web!Endings, Web!End(q, how)
  PROVE  WebInv'
<1> DEFINE c == [call EXCEPT !.flight = @ \ {q}, !.ended[q] = how]
           left == OthersRows(q)
           rows == Append(left, q)
           newer == \E row \in Web!Rows : given[row] = given[q] /\ row > q
<1>1. /\ DOMAIN c = DOMAIN call /\ c.rows = call.rows /\ c.pushed = call.pushed
      /\ c.ended = [call.ended EXCEPT ![q] = how]
      /\ given' = given /\ call' = Web!Remember(c, q)
  BY DEF Web!End, Web!Become, WebInv
<1> HIDE DEF c
<1>2. Web!Remember(c, q) = IF newer THEN c
                           ELSE IF Len(rows) > MaxRows
                           THEN [c EXCEPT !.rows = Tail(rows), !.pushed = @ \cup {Head(rows)}]
                           ELSE [c EXCEPT !.rows = rows]
  BY <1>1 DEF Web!Remember, Web!IsNewer, Web!Rows, OthersRows
<1>3. /\ left \in Seq(Web!Question)
      /\ \A p \in Web!Rows : given[p] = given[q] \/ p \in Web!ToSet(left)
  BY RowsOnceEnded
<1> HIDE DEF left
<1>4. /\ rows \in Seq(Web!Question) /\ rows # <<>>
      /\ Web!ToSet(rows) = Web!ToSet(left) \cup {q}
  BY <1>3, WebRowsAppended
<1> HIDE DEF rows
<1>5. /\ DOMAIN call' = DOMAIN call /\ call'.ended = c.ended
      /\ call'.rows \in Seq(Web!Question) /\ call'.pushed \subseteq Web!Question
      /\ newer => Web!Rows \cup call.pushed \subseteq Web!Rows' \cup call'.pushed
      /\ ~newer => Web!ToSet(rows) \cup call.pushed \subseteq Web!Rows' \cup call'.pushed
  <2>1. CASE newer
    BY <1>1, <1>2, <2>1 DEF WebInv, Web!Rows
  <2>2. CASE ~newer /\ Len(rows) > MaxRows
    <3>1. /\ DOMAIN call' = DOMAIN call /\ call'.ended = c.ended
          /\ call'.rows = Tail(rows) /\ call'.pushed = call.pushed \cup {Head(rows)}
      BY <1>1, <1>2, <2>2 DEF WebInv
    <3> QED
      BY <1>4, <2>2, <3>1, RowsOncePushed DEF WebInv, Web!Rows
  <2>3. CASE ~newer /\ ~(Len(rows) > MaxRows)
    <3>1. /\ DOMAIN call' = DOMAIN call /\ call'.ended = c.ended
          /\ call'.rows = rows /\ call'.pushed = call.pushed
      BY <1>1, <1>2, <2>3 DEF WebInv
    <3> QED
      BY <1>4, <2>3, <3>1 DEF WebInv, Web!Rows
  <2> QED
    BY <2>1, <2>2, <2>3
<1>6. /\ Web!Question \subseteq Nat /\ Web!Rows \subseteq Web!Question
      /\ call.pushed \subseteq Web!Question
  BY WebTimes
<1>7. ASSUME NEW p \in Web!Question, call'.ended[p] # "no"
      PROVE  \E s \in Web!Rows' \cup call'.pushed : given[s] = given[p] /\ s >= p
  <2>1. CASE p = q
    <3>1. CASE newer
      BY <1>5, <1>6, <2>1, <3>1
    <3>2. CASE ~newer
      <4>1. q \in Web!ToSet(rows)
        BY <1>4
      <4>2. q \in Web!Rows' \cup call'.pushed
        BY <1>5, <3>2, <4>1
      <4>3. q >= q
        BY <1>6
      <4> QED
        BY <2>1, <4>2, <4>3
    <3> QED
      BY <3>1, <3>2
  <2>2. CASE p # q
    <3>1. PICK s \in Web!Rows \cup call.pushed : given[s] = given[p] /\ s >= p
      BY <1>1, <1>5, <1>7, <2>2 DEF WebInv, Stands
    <3>2. CASE newer \/ s \in call.pushed \/ s \in Web!ToSet(rows)
      BY <1>5, <3>1, <3>2
    <3>3. CASE ~newer /\ s \in Web!Rows /\ s \notin Web!ToSet(rows)
      <4>1. given[s] = given[q] /\ ~(s > q)
        BY <1>3, <1>4, <3>3
      <4>2. q >= p
        BY <1>6, <3>1, <4>1
      <4>3. q \in Web!Rows' \cup call'.pushed
        BY <1>4, <1>5, <3>3
      <4> QED
        BY <3>1, <4>1, <4>2, <4>3
    <3> QED
      BY <3>1, <3>2, <3>3
  <2> QED
    BY <2>1, <2>2
<1> QED
  BY <1>1, <1>5, <1>7 DEF WebInv, Stands, Web!Question

LEMMA StepWeb == WebInv /\ Web!Next => WebInv'
<1> SUFFICES ASSUME WebInv, Web!Next PROVE WebInv'
  OBVIOUS
<1>1. CASE Web!Ask \/ Web!Age
  <2>1. /\ DOMAIN call' = DOMAIN call /\ given' = given /\ call'.rows = call.rows
        /\ call'.pushed = call.pushed /\ call'.ended = call.ended
    BY <1>1 DEF Web!Ask, Web!Age, Web!Become, WebInv
  <2> QED
    BY <2>1 DEF WebInv, Stands, Web!Rows
<1> QED
  BY <1>1, WebEnds DEF Web!Next

(* What recentEvidence says of a host is the end of its last question, in  *)
(* whatever order the answers came and whatever other hosts are asked for, *)
(* for any number of questions and any bound on the rows.                  *)
THEOREM LatestQuestionStands == Spec => []EvidenceIsLatest
<1>1. Init => (kind = "web" => WebInv)
  <2> SUFFICES ASSUME Web!Init PROVE WebInv
    BY BeginsAsItsKind
  <2>1. call = [asked |-> 0, flight |-> {}, rows |-> <<>>, pushed |-> {}, old |-> {},
                ended |-> [q \in Web!Question |-> "no"]]
    BY DEF Web!Init
  <2>2. <<>> \in Seq(Web!Question)
    BY EmptySeq
  <2> QED
    BY <2>1, <2>2 DEF WebInv
<1>2. (kind = "web" => WebInv) /\ [Next]_vars => (kind = "web" => WebInv)'
  <2> SUFFICES ASSUME kind = "web", WebInv, [Next]_vars PROVE WebInv'
    BY OfItsKind
  <2>1. [Web!Next]_request
    BY OfItsKind
  <2>2. CASE UNCHANGED request
    BY <2>2 DEF request, WebInv, Stands, Web!Rows
  <2> QED
    BY <2>1, <2>2, StepWeb
<1>3. (kind = "web" => WebInv) => EvidenceIsLatest
  <2> SUFFICES ASSUME WebInv,
                      NEW host \in Sites, NEW row \in Web!Evidence(host), NEW q \in Web!Question,
                      Web!Host(q) = host, q > row, call.ended[q] # "no"
               PROVE  \E p \in call.pushed : Web!Host(p) = host /\ p >= q
    BY DEF EvidenceIsLatest, Web!EvidenceIsLatest
  <2>1. PICK p \in Web!Rows \cup call.pushed : given[p] = given[q] /\ p >= q
    BY DEF WebInv, Stands
  <2>2. Web!Host(p) = host
    BY <2>1 DEF Web!Host
  <2>3. p \in Web!Rows => p <= row
    BY <2>2 DEF Web!Evidence
  <2>4. p \in Nat /\ q \in Nat /\ row \in Nat
    <3>1. row \in Web!Rows
      BY DEF Web!Evidence
    <3> QED
      BY <2>1, <3>1, WebTimes
  <2> QED
    BY <2>1, <2>2, <2>3, <2>4
<1> QED
  BY <1>1, <1>2, <1>3, PTL DEF Spec

-------------------------------------------------------------------------------
(* Pointers.  What is read of the records is what they say, as a set: the  *)
(* rank decides between kinds, and of a kind there is one.                 *)
LEMMA ContentMin ==
  ASSUME NEW T \in SUBSET Nat, T # {}
  PROVE  Content!Min(T) \in T
BY Smallest DEF Content!Min

(* The records in some order, each of them once: all of them. *)
LEMMA AllAreRead ==
  ASSUME NEW S, IsFiniteSet(S), NEW s \in Content!SetToSeqs(S)
  PROVE  s \in Seq(S) /\ {s[i] : i \in 1 .. Len(s)} = S
<1> DEFINE n == Cardinality(S)
           D == 1 .. n
<1>1. n \in Nat
  BY FS_CardinalityType
<1>2. s \in [D -> S] /\ \A i, j \in D : i # j => s[i] # s[j]
  <2>1. Content!Cardinality(S) = Cardinality(S)
    BY DEF Content!Cardinality, Cardinality
  <2> QED
    BY <2>1 DEF Content!SetToSeqs
<1>3. s \in Injection(D, S)
  BY <1>2 DEF Injection, IsInjective
<1>4. Cardinality(D) = Cardinality(S)
  BY <1>1, FS_Interval
<1> HIDE DEF n
<1>5. s \in Surjection(D, S)
  BY <1>3, <1>4, FS_Injection
<1>6. s \in Seq(S) /\ Len(s) = n
  BY <1>1, <1>2
<1> QED
  BY <1>2, <1>5, <1>6 DEF Surjection

LEMMA AtMostOne ==
  ASSUME NEW S, IsFiniteSet(S), Content!Cardinality(S) <= 1, NEW a \in S, NEW b \in S
  PROVE  a = b
<1>1. Cardinality(S) <= 1
  BY DEF Content!Cardinality, Cardinality
<1>2. SUFFICES ASSUME a # b PROVE FALSE
  OBVIOUS
<1>3. IsFiniteSet({a}) /\ Cardinality({a}) = 1
  BY FS_Singleton
<1>4. Cardinality({a} \cup {b}) = 2
  <2>1. b \notin {a}
    BY <1>2
  <2>2. Cardinality({a} \cup {b}) = Cardinality({a}) + 1
    BY ONLY <1>3, <2>1, FS_AddElement
  <2> QED
    BY <1>3, <2>2
<1>5. {a} \cup {b} \in SUBSET S
  OBVIOUS
<1>6. Cardinality({a} \cup {b}) <= Cardinality(S)
  BY <1>5, FS_Subset
<1>7. Cardinality(S) \in Nat
  BY FS_CardinalityType
<1> QED
  BY ONLY <1>1, <1>4, <1>6, <1>7

LEMMA FirstLink ==
  ASSUME NEW S, NEW s \in Seq(S)
  PROVE  /\ (\A i \in 1 .. Len(s) : s[i] = Content!None) => Content!LinkFrom(s) = Content!None
         /\ (\E i \in 1 .. Len(s) : s[i] # Content!None) =>
              \E i \in 1 .. Len(s) : Content!LinkFrom(s) = s[i] /\ s[i] # Content!None
<1> DEFINE I == {i \in 1 .. Len(s) : s[i] # Content!None}
           f == Content!LinkFrom(s)
<1>1. CASE \A i \in 1 .. Len(s) : s[i] = Content!None
  BY <1>1 DEF Content!LinkFrom, Content!First
<1>2. CASE \E i \in 1 .. Len(s) : s[i] # Content!None
  <2>1. I # {} /\ I \in SUBSET Nat
    BY <1>2
  <2>2. Content!Min(I) \in I
    BY ONLY <2>1, ContentMin
  <2>3. f = s[Content!Min(I)]
    BY <1>2, <2>1 DEF Content!LinkFrom, Content!First, Content!SelectInSeq
  <2> QED
    BY <1>2, <2>2, <2>3
<1> QED
  BY <1>1, <1>2

LEMMA Ranked ==
  /\ DOMAIN Content!Precedence = 1 .. 5
  /\ \A i, j \in 1 .. 5 : Content!Precedence[i] = Content!Precedence[j] => i = j
  /\ Content!Kinds = {Content!Precedence[i] : i \in 1 .. 5}
  /\ "ipfs" \in Content!Kinds /\ "none" \notin Content!Kinds
<1>1. DOMAIN Content!Precedence = 1 .. 5
  BY DEF Content!Precedence
<1>2. \A i, j \in 1 .. 5 : Content!Precedence[i] = Content!Precedence[j] => i = j
  BY DEF Content!Precedence
<1>3. Content!Kinds = {Content!Precedence[i] : i \in 1 .. 5}
  BY <1>1 DEF Content!Kinds, Content!ToSet
<1>4. Content!Precedence[1] = "ipfs" /\ \A i \in 1 .. 5 : Content!Precedence[i] # "none"
  BY DEF Content!Precedence
<1> QED
  BY <1>1, <1>2, <1>3, <1>4

Rank(k) == CHOOSE i \in DOMAIN Content!Precedence : Content!Precedence[i] = k

LEMMA RankIs ==
  ASSUME NEW i \in 1 .. 5
  PROVE  Rank(Content!Precedence[i]) = i
BY Ranked DEF Rank

(* What is read at the name is outranked by no record there. *)
LEMMA PointerWins ==
  ASSUME NEW s \in Seq(given.texts), {s[i] : i \in 1 .. Len(s)} = given.texts
  PROVE  /\ Content!Ours = {} => Content!PointerFrom(s) = Content!None
         /\ Content!Ours # {} => Content!PointerFrom(s) \in Content!Winners
<1> DEFINE kinds == {p.kind : p \in Content!ToSet(s)} \cap Content!Kinds
           best == CHOOSE k \in kinds : \A other \in kinds : Rank(k) <= Rank(other)
           f == Content!First(s, LAMBDA p : p.kind = best)
<1>1. Content!PointerFrom(s) = IF kinds = {} THEN Content!None ELSE f
  BY DEF Content!PointerFrom, Rank
<1>2. Content!ToSet(s) = given.texts
  BY LenProperties DEF Content!ToSet
<1>3. kinds = {p.kind : p \in Content!Ours}
  BY <1>2 DEF Content!Ours
<1>4. CASE Content!Ours # {}
  <2>1. kinds # {} /\ kinds \subseteq Content!Kinds
    BY <1>3, <1>4 DEF Content!Ours
  <2>2. best \in kinds /\ \A other \in kinds : Rank(best) <= Rank(other)
    <3> HIDE DEF kinds
    <3>1. \A k \in Content!Kinds : Rank(k) \in 1 .. 5
      BY Ranked, RankIs
    <3>2. {Rank(k) : k \in kinds} \in SUBSET Nat /\ {Rank(k) : k \in kinds} # {}
      BY <2>1, <3>1
    <3>3. PICK r \in {Rank(k) : k \in kinds} : \A y \in {Rank(k) : k \in kinds} : r <= y
      BY ONLY <3>2, Smallest
    <3>4. \E k \in kinds : \A other \in kinds : Rank(k) <= Rank(other)
      BY <3>3
    <3> QED
      BY <3>4
  <2> HIDE DEF best
  <2>3. PICK i \in 1 .. Len(s) : f = s[i] /\ s[i].kind = best
    <3> DEFINE I == {i \in 1 .. Len(s) : s[i].kind = best}
    <3>1. PICK p \in given.texts : p.kind = best
      BY <1>2, <2>2
    <3>2. I # {} /\ I \in SUBSET Nat
      BY <3>1
    <3>3. Content!Min(I) \in I
      BY ONLY <3>2, ContentMin
    <3>4. f = s[Content!Min(I)]
      BY <3>2 DEF Content!First, Content!SelectInSeq
    <3> QED
      BY <3>3, <3>4
  <2> HIDE DEF f
  <2>4. f \in Content!Ours /\ f.kind = best
    BY <2>1, <2>2, <2>3 DEF Content!Ours
  <2>5. ASSUME NEW q \in Content!Ours, NEW a \in DOMAIN Content!Precedence,
               NEW b \in DOMAIN Content!Precedence, a < b,
               Content!Precedence[a] = q.kind, Content!Precedence[b] = f.kind
        PROVE  FALSE
    <3>1. Rank(q.kind) = a /\ Rank(best) = b /\ a \in Nat /\ b \in Nat
      BY <2>4, <2>5, Ranked, RankIs, SMTT(30)
    <3>2. q.kind \in kinds
      BY <1>3
    <3> HIDE DEF kinds
    <3>3. Rank(best) <= Rank(q.kind)
      BY <2>2, <3>2
    <3> QED
      BY <2>5, <3>1, <3>3
  <2> QED
    BY <1>1, <2>1, <2>4, <2>5 DEF Content!Winners, Content!Outranked
<1>5. CASE Content!Ours = {}
  BY <1>1, <1>3, <1>5
<1> QED
  BY <1>4, <1>5

LEMMA OneWinner ==
  ASSUME Content!OneOfAKind, NEW p \in Content!Winners, NEW q \in Content!Winners
  PROVE  p = q
<1>1. PICK i \in 1 .. 5, j \in 1 .. 5 : p.kind = Content!Precedence[i] /\ q.kind = Content!Precedence[j]
  BY Ranked DEF Content!Winners, Content!Ours
<1>2. ~(i < j) /\ ~(j < i)
  BY <1>1, Ranked DEF Content!Winners, Content!Outranked
<1>3. p.kind = q.kind
  BY <1>1, <1>2
<1> QED
  BY <1>3 DEF Content!OneOfAKind, Content!Winners, Content!Ours

LEMMA LinkIsTheirs ==
  ASSUME NEW s \in Seq(given.links), {s[i] : i \in 1 .. Len(s)} = given.links
  PROVE  /\ Content!Theirs = {} => Content!LinkFrom(s) = Content!None
         /\ Content!Theirs # {} => Content!LinkFrom(s) \in Content!Theirs
BY FirstLink DEF Content!Theirs

LEMMA OriginIsGiven ==
  ASSUME NEW s \in Seq(given.texts), given.texts \subseteq Content!Records,
         Content!OriginFrom(s) # "none"
  PROVE  Content!Pointer("car", Content!OriginFrom(s), "") \in given.texts
<1> DEFINE f == Content!First(s, LAMBDA p : p.kind = "car")
           I == {i \in 1 .. Len(s) : s[i].kind = "car"}
<1>1. Content!OriginFrom(s) = f.id
  BY DEF Content!OriginFrom
<1>2. I # {}
  <2> SUFFICES ASSUME I = {} PROVE FALSE
    OBVIOUS
  <2>1. f = Content!None
    BY DEF Content!First
  <2>2. Content!None.id = "none"
    BY DEF Content!None, Content!Pointer
  <2> HIDE DEF f
  <2>3. f.id = Content!None.id
    BY <2>1
  <2> QED
    BY <1>1, <2>2, <2>3
<1>3. I \in SUBSET Nat
  OBVIOUS
<1>4. Content!Min(I) \in I
  BY ONLY <1>2, <1>3, ContentMin
<1>5. f = s[Content!Min(I)]
  BY <1>2 DEF Content!First, Content!SelectInSeq
<1> HIDE DEF f
<1>6. f \in given.texts /\ f.kind = "car"
  BY <1>4, <1>5, ElementOfSeq
<1>7. f = Content!Pointer("car", f.id, "")
  <2>1. Content!None.kind # "car"
    BY DEF Content!None, Content!Pointer
  <2>2. f # Content!None
    BY <1>6, <2>1
  <2>3. f \in [kind : {"ipfs", "arweave", "car"}, id : Ids, path : {""}]
    <3>1. f \in Content!Records
      BY <1>6
    <3> QED
      BY <2>2, <3>1 DEF Content!Records
  <2> QED
    BY <1>6, <2>3 DEF Content!Pointer
<1> QED
  BY <1>1, <1>6, <1>7

ContentInv ==
  /\ given.texts \subseteq Content!Records /\ IsFiniteSet(given.texts)
  /\ IsFiniteSet(given.links)
  /\ call.pc \in {"read", "done"}
  /\ Content!OrderDecidesNothing

(* What the records say is a matter of the records alone. *)
LEMMA ContentStands ==
  ASSUME given' = given
  PROVE  /\ Content!Ours' = Content!Ours /\ Content!Theirs' = Content!Theirs
         /\ Content!Winners' = Content!Winners
         /\ Content!OneOfAKind' = Content!OneOfAKind
         /\ Content!Cardinality(Content!Theirs)' = Content!Cardinality(Content!Theirs)
<1>1. Content!Ours' = Content!Ours
  BY DEF Content!Ours
<1>2. Content!Theirs' = Content!Theirs
  BY DEF Content!Theirs
<1>3. Content!Winners' = Content!Winners
  BY <1>1 DEF Content!Winners, Content!Outranked
<1>4. Content!OneOfAKind' = Content!OneOfAKind
  BY DEF Content!OneOfAKind
<1>5. Content!Cardinality(Content!Theirs)' = Content!Cardinality(Content!Theirs)
  BY <1>2
<1> QED
  BY <1>1, <1>2, <1>3, <1>4, <1>5

LEMMA StepContent == ContentInv /\ Content!Next => ContentInv'
<1> SUFFICES ASSUME ContentInv, Content!Next PROVE ContentInv'
  OBVIOUS
<1>1. PICK texts \in Content!SetToSeqs(given.texts), links \in Content!SetToSeqs(given.links) :
        Content!Read(texts, links)
  BY DEF Content!Next
<1> DEFINE direct == Content!PointerFrom(texts)
           link == Content!LinkFrom(links)
           pointer == Content!Merged(direct, link)
<1>2. /\ texts \in Seq(given.texts) /\ {texts[i] : i \in 1 .. Len(texts)} = given.texts
      /\ links \in Seq(given.links) /\ {links[i] : i \in 1 .. Len(links)} = given.links
  BY AllAreRead DEF ContentInv
<1>3. /\ Content!Ours = {} => direct = Content!None
      /\ Content!Ours # {} => direct \in Content!Winners
  BY <1>2, PointerWins
<1>4. /\ Content!Theirs = {} => link = Content!None
      /\ Content!Theirs # {} => link \in Content!Theirs
  BY <1>2, LinkIsTheirs
<1>5. Content!OriginFrom(texts) # "none" =>
        Content!Pointer("car", Content!OriginFrom(texts), "") \in given.texts
  BY <1>2, OriginIsGiven DEF ContentInv
<1>6. given' = given /\ call'.pc = "done" /\ call'.pointer = pointer
      /\ call'.origin = (IF pointer.kind = "ipfs" THEN Content!OriginFrom(texts) ELSE "none")
      /\ call'.conflict = (Content!None \notin {direct, link} /\ ~Content!Agree(direct, link))
  BY <1>1 DEF Content!Read
<1> HIDE DEF direct, link, pointer
<1>7. /\ link = Content!None => pointer = direct
      /\ direct = Content!None => pointer = link
      /\ direct # Content!None /\ link # Content!None =>
           pointer = IF Content!Agree(direct, link) THEN direct ELSE Content!None
  BY DEF pointer, Content!Merged
<1>8. /\ direct = Content!None <=> Content!Ours = {}
      /\ link = Content!None <=> Content!Theirs = {}
      /\ Content!Winners \subseteq Content!Ours
  <2>1. Content!None.kind = "none"
    BY DEF Content!None, Content!Pointer
  <2>2. Content!Winners \subseteq Content!Ours
    BY DEF Content!Winners
  <2>3. Content!None \notin Content!Ours
    BY <2>1, Ranked DEF Content!Ours
  <2>4. Content!None \notin Content!Theirs
    BY DEF Content!Theirs
  <2> QED
    BY <1>3, <1>4, <2>2, <2>3, <2>4
<1>9. ASSUME Content!OneOfAKind, Content!Cardinality(Content!Theirs) <= 1
      PROVE  /\ call'.conflict <=> \E p \in Content!Winners, l \in Content!Theirs : ~Content!Agree(p, l)
             /\ call'.pointer \in IF call'.conflict THEN {Content!None}
                                  ELSE IF Content!Winners # {} THEN Content!Winners
                                  ELSE IF Content!Theirs # {} THEN Content!Theirs
                                  ELSE {Content!None}
  <2>1. \A p \in Content!Winners : p = direct
    BY <1>3, <1>8, <1>9, OneWinner
  <2>2. \A l \in Content!Theirs : l = link
    <3>1. IsFiniteSet(Content!Theirs)
      BY FS_Difference DEF ContentInv, Content!Theirs
    <3> QED
      BY <1>4, <1>9, <3>1, AtMostOne
  <2>3. call'.conflict <=> \E p \in Content!Winners, l \in Content!Theirs : ~Content!Agree(p, l)
    BY <1>3, <1>4, <1>6, <1>8, <2>1, <2>2
  <2> QED
    BY <1>3, <1>4, <1>6, <1>7, <1>8, <2>1, <2>2, <2>3
<1>10. call'.origin # "none" => /\ Content!Pointer("car", call'.origin, "") \in given.texts
                                /\ call'.pointer.kind = "ipfs"
  BY <1>5, <1>6
<1>11. Content!OrderDecidesNothing'
  BY <1>6, <1>9, <1>10, ContentStands DEF Content!OrderDecidesNothing
<1> QED
  BY <1>6, <1>11 DEF ContentInv

(* pointers.js makes the same of a name's records in whatever order they   *)
(* arrive, however many there are: the kind that ranks highest, and        *)
(* nothing of two that disagree.                                           *)
THEOREM OrderOfRecordsDecidesNothing == Spec => []OrderDecidesNothing
<1>1. Init => (kind = "pointer" => ContentInv)
  <2> SUFFICES ASSUME Content!Init PROVE ContentInv
    BY BeginsAsItsKind
  <2>1. /\ given.texts \in Content!UpTo(MaxTexts, Content!Records)
        /\ given.links \in Content!UpTo(MaxLinks, Content!Links)
        /\ call.pc = "read"
    BY DEF Content!Init
  <2>2. \A S : Content!IsFiniteSet(S) = IsFiniteSet(S)
    BY DEF Content!IsFiniteSet, IsFiniteSet
  <2> QED
    BY <2>1, <2>2 DEF Content!UpTo, ContentInv, Content!OrderDecidesNothing
<1>2. (kind = "pointer" => ContentInv) /\ [Next]_vars => (kind = "pointer" => ContentInv)'
  <2> SUFFICES ASSUME kind = "pointer", ContentInv, [Next]_vars PROVE ContentInv'
    BY OfItsKind
  <2>1. [Content!Next]_request
    BY OfItsKind
  <2>2. CASE UNCHANGED request
    <3>1. given' = given /\ call' = call
      BY <2>2 DEF request
    <3>2. Content!OrderDecidesNothing
      BY DEF ContentInv
    <3>3. Content!OrderDecidesNothing'
      BY <3>1, <3>2, ContentStands DEF Content!OrderDecidesNothing
    <3> QED
      BY <3>1, <3>3 DEF ContentInv
  <2> QED
    BY <2>1, <2>2, StepContent
<1>3. (kind = "pointer" => ContentInv) => OrderDecidesNothing
  BY DEF ContentInv, OrderDecidesNothing
<1> QED
  BY <1>1, <1>2, <1>3, PTL DEF Spec

-------------------------------------------------------------------------------
(* Denial.  First, what holds of the gaps of any finite set in a strict    *)
(* total order R, the names' or the hashes'.                               *)
Orders(R, T) ==
  /\ \A a \in T : <<a, a>> \notin R
  /\ \A a, b, c \in T : <<a, b>> \in R /\ <<b, c>> \in R => <<a, c>> \in R
  /\ \A a, b \in T : a # b => <<a, b>> \in R \/ <<b, a>> \in R

IsLeast(R, S, y) == y \in S /\ \A z \in S : z = y \/ <<y, z>> \in R

(* The next of x in S, round to the first. *)
IsNext(R, S, x, y) ==
  IF \E z \in S : <<x, z>> \in R THEN IsLeast(R, {z \in S : <<x, z>> \in R}, y)
                                 ELSE IsLeast(R, S, y)

IsGap(R, x, y, p) ==
  /\ x # p
  /\ IF <<x, y>> \in R THEN <<x, p>> \in R /\ <<p, y>> \in R
                       ELSE <<x, p>> \in R \/ <<p, y>> \in R

LEMMA LeastExists ==
  ASSUME NEW T, NEW R, Orders(R, T), NEW S \in SUBSET T, IsFiniteSet(S), S # {}
  PROVE  \E y \in S : IsLeast(R, S, y)
<1> DEFINE Below(y) == {z \in S : <<z, y>> \in R}
           C == {Cardinality(Below(y)) : y \in S}
<1>1. \A y \in S : IsFiniteSet(Below(y)) /\ Cardinality(Below(y)) \in Nat
  <2> TAKE y \in S
  <2>1. Below(y) \in SUBSET S
    OBVIOUS
  <2>2. IsFiniteSet(Below(y))
    BY ONLY IsFiniteSet(S), <2>1, FS_Subset
  <2> QED
    BY ONLY <2>2, FS_CardinalityType
<1>2. C \in SUBSET Nat /\ C # {}
  BY <1>1
<1>3. PICK c \in C : \A d \in C : c <= d
  BY ONLY <1>2, Smallest
<1>4. PICK y \in S : c = Cardinality(Below(y))
  OBVIOUS
<1>5. ASSUME NEW z \in S, <<z, y>> \in R
      PROVE  FALSE
  <2>1. Below(z) \in SUBSET Below(y)
    BY <1>5 DEF Orders
  <2>2. z \in Below(y) /\ z \notin Below(z)
    BY <1>5 DEF Orders
  <2>3. Cardinality(Below(z)) <= Cardinality(Below(y))
        /\ (Cardinality(Below(y)) = Cardinality(Below(z)) => Below(y) = Below(z))
    <3>1. IsFiniteSet(Below(y))
      BY <1>1
    <3> HIDE DEF Below
    <3> QED
      BY ONLY <2>1, <3>1, FS_Subset
  <2>4. c <= Cardinality(Below(z))
    BY <1>3
  <2>5. Below(y) # Below(z)
    BY <2>2
  <2> HIDE DEF Below
  <2> QED
    BY <1>1, <1>4, <2>3, <2>4, <2>5
<1> QED
  BY <1>5 DEF Orders, IsLeast

LEMMA GreatestExists ==
  ASSUME NEW T, NEW R, Orders(R, T), NEW S \in SUBSET T, IsFiniteSet(S), S # {}
  PROVE  \E y \in S : \A z \in S : z = y \/ <<z, y>> \in R
<1> DEFINE Q == {p \in T \X T : <<p[2], p[1]>> \in R}
<1>1. \A a, b \in T : <<a, b>> \in Q <=> <<b, a>> \in R
  OBVIOUS
<1> HIDE DEF Q
<1>2. Orders(Q, T)
  BY <1>1 DEF Orders
<1>3. PICK y \in S : IsLeast(Q, S, y)
  BY ONLY <1>2, S \in SUBSET T, IsFiniteSet(S), S # {}, LeastExists
<1> QED
  BY <1>1, <1>3 DEF IsLeast

LEMMA NextExists ==
  ASSUME NEW T, NEW R, Orders(R, T), NEW S \in SUBSET T, IsFiniteSet(S), NEW x \in S
  PROVE  \E y \in S : IsNext(R, S, x, y)
<1> DEFINE A == {z \in S : <<x, z>> \in R}
<1>1. A \in SUBSET T /\ A \in SUBSET S
  OBVIOUS
<1>2. IsFiniteSet(A)
  BY ONLY <1>1, IsFiniteSet(S), FS_Subset
<1>3. A # {} => \E y \in A : IsLeast(R, A, y)
  BY ONLY <1>1, <1>2, Orders(R, T), LeastExists
<1>4. \E y \in S : IsLeast(R, S, y)
  <2>1. S # {}
    OBVIOUS
  <2> QED
    BY ONLY <2>1, S \in SUBSET T, IsFiniteSet(S), Orders(R, T), LeastExists
<1> QED
  BY <1>3, <1>4 DEF IsNext

(* What falls into a gap is not of the set, and lies between all of the    *)
(* set and one end of the gap.                                             *)
LEMMA GapIsEmpty ==
  ASSUME NEW T, NEW R, Orders(R, T), NEW S \in SUBSET T, NEW x \in S, NEW y \in S,
         IsNext(R, S, x, y), NEW p \in T, IsGap(R, x, y, p)
  PROVE  /\ p \notin S
         /\ \A w \in S : \/ <<x, p>> \in R /\ (w = x \/ <<w, x>> \in R)
                         \/ <<p, y>> \in R /\ (w = y \/ <<y, w>> \in R)
<1>1. \A w \in S : \/ <<x, p>> \in R /\ (w = x \/ <<w, x>> \in R)
                   \/ <<p, y>> \in R /\ (w = y \/ <<y, w>> \in R)
  <2>1. CASE \E z \in S : <<x, z>> \in R
    <3>1. <<x, y>> \in R /\ \A z \in S : <<x, z>> \in R => z = y \/ <<y, z>> \in R
      BY <2>1 DEF IsNext, IsLeast
    <3>2. <<x, p>> \in R /\ <<p, y>> \in R
      BY <3>1 DEF IsGap
    <3> QED
      BY <3>1, <3>2 DEF Orders
  <2>2. CASE ~\E z \in S : <<x, z>> \in R
    <3>1. \A z \in S : z = y \/ <<y, z>> \in R
      BY <2>2 DEF IsNext, IsLeast
    <3>2. <<x, p>> \in R \/ <<p, y>> \in R
      BY <2>2 DEF IsGap
    <3> QED
      BY <2>2, <3>1, <3>2 DEF Orders
  <2> QED
    BY <2>1, <2>2
<1>2. p \notin S
  BY <1>1 DEF Orders
<1> QED
  BY <1>1, <1>2

(* What is not of the set falls into a gap. *)
LEMMA GapExists ==
  ASSUME NEW T, NEW R, Orders(R, T), NEW S \in SUBSET T, IsFiniteSet(S), S # {},
         NEW p \in T, p \notin S
  PROVE  \E x \in S : \A y \in S : IsNext(R, S, x, y) => IsGap(R, x, y, p)
<1> DEFINE B == {w \in S : <<w, p>> \in R}
<1>1. B \in SUBSET T /\ B \in SUBSET S
  OBVIOUS
<1>2. CASE B # {}
  <2>1. IsFiniteSet(B)
    BY ONLY <1>1, IsFiniteSet(S), FS_Subset
  <2>2. PICK x \in B : \A z \in B : z = x \/ <<z, x>> \in R
    <3> HIDE DEF B
    <3> QED
      BY ONLY <1>1, <1>2, <2>1, Orders(R, T), GreatestExists
  <2>3. ASSUME NEW y \in S, IsNext(R, S, x, y)
        PROVE  IsGap(R, x, y, p)
    <3>1. <<x, p>> \in R /\ x \in S /\ x # p
      BY <2>2
    <3>2. <<x, y>> \in R => <<p, y>> \in R
      BY <2>2, <3>1 DEF Orders
    <3> QED
      BY <3>1, <3>2 DEF IsGap
  <2> QED
    BY <2>3
<1>3. CASE B = {}
  <2>1. PICK x \in S : \A z \in S : z = x \/ <<z, x>> \in R
    BY ONLY S \in SUBSET T, IsFiniteSet(S), S # {}, Orders(R, T), GreatestExists
  <2>2. \A z \in S : <<x, z>> \notin R
    BY <2>1 DEF Orders
  <2>3. \A z \in S : <<p, z>> \in R
    BY <1>3 DEF Orders
  <2> QED
    BY <2>2, <2>3 DEF IsGap
<1> QED
  BY <1>2, <1>3

HashOrder == {p \in Nat \X Nat : p[1] < p[2]}

LEMMA HashesAreOrdered ==
  /\ \A a, b \in Nat : <<a, b>> \in HashOrder <=> a < b
  /\ Orders(HashOrder, Nat)
<1>1. \A a, b \in Nat : <<a, b>> \in HashOrder <=> a < b
  BY DEF HashOrder
<1> QED
  BY <1>1 DEF Orders

-------------------------------------------------------------------------------
(* The canonical order of the names (nsec.js) is such an order, and names   *)
(* with a common ancestor lie next to one another in it.                   *)
Names == Seq(Nat)

Shares(a, b, k) == k <= Len(a) /\ k <= Len(b) /\ \A j \in 1 .. k : a[j] = b[j]

LEMMA NameIs ==
  ASSUME NEW n \in Names
  PROVE  Len(n) \in Nat /\ \A i \in 1 .. Len(n) : n[i] \in Nat
BY LenProperties, ElementOfSeq DEF Names

LEMMA SameNames ==
  ASSUME NEW a \in Names, NEW b \in Names, Len(a) = Len(b), Shares(a, b, Len(a))
  PROVE  a = b
BY SeqEqual DEF Names, Shares

LEMMA AncestorIs ==
  ASSUME NEW n \in Names, NEW i \in 0 .. Len(n)
  PROVE  /\ SubSeq(n, 1, i) \in Names /\ Len(SubSeq(n, 1, i)) = i
         /\ \A j \in 1 .. i : SubSeq(n, 1, i)[j] = n[j]
<1>1. i \in Int /\ 1 \in Int /\ \A j \in 1 .. i : n[j] \in Nat
  BY NameIs
<1>2. /\ SubSeq(n, 1, i) \in Seq(Nat)
      /\ Len(SubSeq(n, 1, i)) = IF 1 <= i THEN i - 1 + 1 ELSE 0
      /\ \A j \in 1 .. i - 1 + 1 : SubSeq(n, 1, i)[j] = n[1 + j - 1]
  BY ONLY <1>1, SubSeqProperties
<1>3. Len(n) \in Nat
  BY NameIs
<1> QED
  BY <1>2, <1>3 DEF Names

LEMMA UnderIs ==
  ASSUME NEW n \in Names, NEW a \in Names
  PROVE  Zone!IsUnder(n, a) <=> Shares(a, n, Len(a))
<1>1. Len(a) \in Nat /\ Len(n) \in Nat
  BY NameIs
<1>2. Zone!IsUnder(n, a) <=> Len(a) <= Len(n) /\ SubSeq(a, 1, Len(a)) = SubSeq(n, 1, Len(a))
  BY DEF Zone!IsUnder, Zone!IsPrefix
<1>3. SubSeq(a, 1, Len(a)) = a
  BY SubSeqFull DEF Names
<1>4. CASE Len(a) <= Len(n)
  <2>1. /\ SubSeq(n, 1, Len(a)) \in Names /\ Len(SubSeq(n, 1, Len(a))) = Len(a)
        /\ \A j \in 1 .. Len(a) : SubSeq(n, 1, Len(a))[j] = n[j]
    BY <1>1, <1>4, AncestorIs
  <2>2. a = SubSeq(n, 1, Len(a)) <=> \A j \in 1 .. Len(a) : a[j] = n[j]
    <3> DEFINE m == SubSeq(n, 1, Len(a))
    <3> HIDE DEF m
    <3>1. m \in Names /\ Len(m) = Len(a) /\ \A j \in 1 .. Len(a) : m[j] = n[j]
      BY <2>1 DEF m
    <3>2. (\A j \in 1 .. Len(a) : a[j] = n[j]) => Shares(a, m, Len(a))
      BY <1>1, <3>1 DEF Shares
    <3>3. (\A j \in 1 .. Len(a) : a[j] = n[j]) => a = m
      BY <3>1, <3>2, SameNames
    <3>4. a = m => \A j \in 1 .. Len(a) : a[j] = n[j]
      BY <3>1
    <3> QED
      BY <3>3, <3>4 DEF m
  <2> QED
    BY <1>2, <1>3, <1>4, <2>2, <1>1 DEF Shares
<1>5. CASE ~(Len(a) <= Len(n))
  BY <1>2, <1>5 DEF Shares
<1> QED
  BY <1>4, <1>5

LEMMA LessIs ==
  ASSUME NEW a \in Names, NEW b \in Names
  PROVE  Zone!Less(a, b) <=>
           \E i \in 1 .. Len(b) : Shares(a, b, i - 1) /\ (i > Len(a) \/ a[i] < b[i])
<1>1. Len(a) \in Nat /\ Len(b) \in Nat
  BY NameIs
<1>2. ASSUME NEW i \in 1 .. Len(b), \A j \in 1 .. i - 1 : j <= Len(a) /\ a[j] = b[j]
      PROVE  Shares(a, b, i - 1)
  <2>1. CASE i = 1
    BY <1>1, <2>1 DEF Shares
  <2>2. CASE i # 1
    <3>1. i - 1 \in 1 .. i - 1
      BY <1>1, <2>2
    <3> QED
      BY <1>1, <1>2, <3>1 DEF Shares
  <2> QED
    BY <2>1, <2>2
<1>3. ASSUME NEW i \in 1 .. Len(b), Shares(a, b, i - 1)
      PROVE  \A j \in 1 .. i - 1 : j <= Len(a) /\ a[j] = b[j]
  BY <1>1, <1>3 DEF Shares
<1>4. Zone!Less(a, b) <=> \E i \in 1 .. Len(b) :
        /\ \A j \in 1 .. i - 1 : j <= Len(a) /\ a[j] = b[j]
        /\ i > Len(a) \/ a[i] < b[i]
  BY DEF Zone!Less
<1>5. \A i \in 1 .. Len(b) : Shares(a, b, i - 1) <=> \A j \in 1 .. i - 1 : j <= Len(a) /\ a[j] = b[j]
  BY <1>2, <1>3
<1> QED
  BY ONLY <1>4, <1>5

LEMMA LessIsNotSame ==
  ASSUME NEW a \in Names
  PROVE  ~Zone!Less(a, a)
BY NameIs, LessIs

LEMMA LessGoesOn ==
  ASSUME NEW a \in Names, NEW b \in Names, NEW c \in Names, Zone!Less(a, b), Zone!Less(b, c)
  PROVE  Zone!Less(a, c)
<1>1. /\ Len(a) \in Nat /\ \A i \in 1 .. Len(a) : a[i] \in Nat
      /\ Len(b) \in Nat /\ \A i \in 1 .. Len(b) : b[i] \in Nat
      /\ Len(c) \in Nat /\ \A i \in 1 .. Len(c) : c[i] \in Nat
  BY NameIs
<1>2. PICK i \in 1 .. Len(b) : Shares(a, b, i - 1) /\ (i > Len(a) \/ a[i] < b[i])
  BY LessIs
<1>3. PICK j \in 1 .. Len(c) : Shares(b, c, j - 1) /\ (j > Len(b) \/ b[j] < c[j])
  BY LessIs
<1>4. CASE i < j
  <2>1. i \in 1 .. Len(c) /\ i <= j - 1 /\ b[i] = c[i]
    BY <1>1, <1>3, <1>4 DEF Shares
  <2>2. Shares(a, c, i - 1)
    BY <1>1, <1>2, <1>3, <1>4, <2>1 DEF Shares
  <2> QED
    BY <1>2, <2>1, <2>2, LessIs
<1>5. CASE j <= i
  <2>1. Shares(a, c, j - 1)
    BY <1>1, <1>2, <1>3, <1>5 DEF Shares
  <2>2. b[j] < c[j]
    BY <1>1, <1>3, <1>5
  <2>3. j > Len(a) \/ a[j] < c[j]
    <3>1. CASE j = i
      BY <1>1, <1>2, <2>2, <3>1
    <3>2. CASE j < i
      <4>1. j <= i - 1 /\ a[j] = b[j]
        BY <1>1, <1>2, <3>2 DEF Shares
      <4> QED
        BY <2>2, <4>1
    <3> QED
      BY <1>1, <1>5, <3>1, <3>2
  <2> QED
    BY <2>1, <2>3, LessIs
<1> QED
  BY <1>1, <1>4, <1>5

LEMMA LessOrMore ==
  ASSUME NEW a \in Names, NEW b \in Names, a # b
  PROVE  Zone!Less(a, b) \/ Zone!Less(b, a)
<1>1. /\ Len(a) \in Nat /\ \A i \in 1 .. Len(a) : a[i] \in Nat
      /\ Len(b) \in Nat /\ \A i \in 1 .. Len(b) : b[i] \in Nat
  BY NameIs
<1> DEFINE D == {i \in Nat \ {0} : i > Len(a) \/ i > Len(b) \/ a[i] # b[i]}
<1>2. D \in SUBSET Nat /\ D # {}
  <2>1. Len(a) + 1 \in D
    BY <1>1
  <2> QED
    BY <2>1
<1>3. PICK d \in D : \A i \in D : d <= i
  BY ONLY <1>2, Smallest
<1>4. d - 1 <= Len(a) /\ d - 1 <= Len(b) /\ \A j \in 1 .. d - 1 : a[j] = b[j]
  <2>1. \A j \in Nat \ {0} : j < d => j <= Len(a) /\ j <= Len(b) /\ a[j] = b[j]
    BY <1>1, <1>3
  <2>2. d \in Nat \ {0}
    OBVIOUS
  <2> HIDE DEF D
  <2>3. d = 1 \/ (d - 1 \in Nat \ {0} /\ d - 1 < d)
    BY <2>2
  <2>4. d - 1 <= Len(a) /\ d - 1 <= Len(b)
    BY <1>1, <2>1, <2>3
  <2>5. \A j \in 1 .. d - 1 : a[j] = b[j]
    BY <2>1, <2>2
  <2> QED
    BY <2>4, <2>5
<1>5. d \in Nat \ {0} /\ (d > Len(a) \/ d > Len(b) \/ a[d] # b[d])
  BY <1>3
<1> HIDE DEF D
<1>6. Shares(a, b, d - 1) /\ Shares(b, a, d - 1)
  BY <1>4 DEF Shares
<1>7. CASE d <= Len(b) /\ (d > Len(a) \/ a[d] < b[d])
  <2>1. d \in 1 .. Len(b)
    BY <1>1, <1>5, <1>7
  <2> QED
    BY <1>6, <1>7, <2>1, LessIs
<1>8. CASE d <= Len(a) /\ (d > Len(b) \/ b[d] < a[d])
  <2>1. d \in 1 .. Len(a)
    BY <1>1, <1>5, <1>8
  <2> QED
    BY <1>6, <1>8, <2>1, LessIs
<1>9. CASE d > Len(a) /\ d > Len(b)
  <2>1. Len(a) = Len(b) /\ Len(a) = d - 1
    BY <1>1, <1>4, <1>5, <1>9
  <2> QED
    BY <1>6, <2>1, SameNames
<1> QED
  BY <1>1, <1>5, <1>7, <1>8, <1>9

NameOrder == {p \in Names \X Names : Zone!Less(p[1], p[2])}

LEMMA NamesAreOrdered ==
  /\ \A a, b \in Names : <<a, b>> \in NameOrder <=> Zone!Less(a, b)
  /\ Orders(NameOrder, Names)
<1>1. \A a, b \in Names : <<a, b>> \in NameOrder <=> Zone!Less(a, b)
  BY DEF NameOrder
<1> QED
  BY <1>1, LessIsNotSame, LessGoesOn, LessOrMore DEF Orders

LEMMA Between ==
  ASSUME NEW a \in Names, NEW b \in Names, NEW c \in Names, NEW k \in Nat,
         Zone!Less(a, b), Zone!Less(b, c), Shares(a, c, k)
  PROVE  Shares(a, b, k) /\ Shares(c, b, k)
<1>1. /\ Len(a) \in Nat /\ \A i \in 1 .. Len(a) : a[i] \in Nat
      /\ Len(b) \in Nat /\ \A i \in 1 .. Len(b) : b[i] \in Nat
      /\ Len(c) \in Nat /\ \A i \in 1 .. Len(c) : c[i] \in Nat
  BY NameIs
<1>2. PICK i \in 1 .. Len(b) : Shares(a, b, i - 1) /\ (i > Len(a) \/ a[i] < b[i])
  BY LessIs
<1>3. PICK j \in 1 .. Len(c) : Shares(b, c, j - 1) /\ (j > Len(b) \/ b[j] < c[j])
  BY LessIs
<1>4. k < i
  <2> SUFFICES ASSUME i <= k PROVE FALSE
    BY <1>1
  <2>1. a[i] < b[i] /\ a[i] = c[i] /\ i <= Len(a) /\ i <= Len(c)
    BY <1>1, <1>2 DEF Shares
  <2>2. j <= i
    <3> SUFFICES ASSUME i < j PROVE FALSE
      BY <1>1
    <3>1. b[i] = c[i]
      BY <1>1, <1>3 DEF Shares
    <3> QED
      BY <1>1, <2>1, <3>1
  <2>3. b[j] < c[j] /\ a[j] = c[j] /\ j <= Len(a)
    BY <1>1, <1>2, <1>3, <2>1, <2>2 DEF Shares
  <2>4. CASE j = i
    BY <1>1, <2>1, <2>3, <2>4
  <2>5. CASE j < i
    <3>1. a[j] = b[j]
      BY <1>1, <1>2, <2>5 DEF Shares
    <3> QED
      BY <1>1, <2>3, <3>1
  <2> QED
    BY <1>1, <2>2, <2>4, <2>5
<1> QED
  BY <1>1, <1>2, <1>4 DEF Shares

LEMMA SharedIsMutual ==
  ASSUME NEW a \in Names, NEW b \in Names, NEW k, Shares(a, b, k)
  PROVE  Shares(b, a, k)
BY DEF Shares

(* The common ancestor of two names is the nearest of those they share. *)
LEMMA CommonSuffixIs ==
  ASSUME NEW a \in Names, NEW b \in Names
  PROVE  /\ Zone!CommonSuffix(a, b) \in Names
         /\ Shares(Zone!CommonSuffix(a, b), a, Len(Zone!CommonSuffix(a, b)))
         /\ Shares(Zone!CommonSuffix(a, b), b, Len(Zone!CommonSuffix(a, b)))
         /\ \A k \in Nat : Shares(a, b, k) => k <= Len(Zone!CommonSuffix(a, b))
<1> DEFINE CP == Zone!CommonPrefixes({a, b})
           c == Zone!CommonSuffix(a, b)
           Ancestors(s) == {SubSeq(s, 1, l) : l \in 0 .. Len(s)}
<1>1. \A m : m \in CP <=> /\ m \in Ancestors(a) \cup Ancestors(b)
                          /\ Zone!IsPrefix(m, a) /\ Zone!IsPrefix(m, b)
  BY DEF Zone!CommonPrefixes, Zone!Prefixes
<1>2. \A m \in Names : /\ Zone!IsPrefix(m, a) <=> Shares(m, a, Len(m))
                       /\ Zone!IsPrefix(m, b) <=> Shares(m, b, Len(m))
  BY UnderIs DEF Zone!IsUnder
<1>3. \A m \in CP : /\ m \in Names /\ Len(m) \in 0 .. Len(a)
                    /\ Shares(m, a, Len(m)) /\ Shares(m, b, Len(m))
  <2> TAKE m \in CP
  <2>1. PICK s \in {a, b} : m \in Ancestors(s)
    BY <1>1
  <2>2. PICK l \in 0 .. Len(s) : m = SubSeq(s, 1, l)
    BY <2>1
  <2>3. m \in Names /\ Len(m) \in Nat
    BY <2>2, AncestorIs, NameIs
  <2>4. Shares(m, a, Len(m)) /\ Shares(m, b, Len(m))
    BY <1>1, <1>2, <2>3
  <2> QED
    BY <2>3, <2>4, NameIs DEF Shares
<1>4. ASSUME NEW k \in Nat, Shares(a, b, k)
      PROVE  SubSeq(a, 1, k) \in CP /\ Len(SubSeq(a, 1, k)) = k
  <2>1. k \in 0 .. Len(a)
    BY <1>4, NameIs DEF Shares
  <2> DEFINE m == SubSeq(a, 1, k)
  <2>2. m \in Ancestors(a)
    BY <2>1
  <2>3. m \in Names /\ Len(m) = k /\ \A j \in 1 .. k : m[j] = a[j]
    BY <2>1, AncestorIs
  <2> HIDE DEF m
  <2>4. Shares(m, a, Len(m)) /\ Shares(m, b, Len(m))
    BY <1>4, <2>3 DEF Shares
  <2>5. m \in CP
    BY <1>1, <1>2, <2>2, <2>3, <2>4
  <2> QED
    BY <2>3, <2>5 DEF m
<1> HIDE DEF CP
<1>5. \E m \in CP : \A other \in CP : Len(other) <= Len(m)
  <2> DEFINE I == {Len(a) - Len(m) : m \in CP}
  <2>1. Len(a) \in Nat /\ \A m \in CP : Len(m) \in Nat /\ Len(a) - Len(m) \in Nat
    BY <1>3, NameIs
  <2>2. CP # {}
    <3>1. Shares(a, b, 0)
      BY NameIs DEF Shares
    <3> QED
      BY <1>4, <3>1
  <2>3. I \in SUBSET Nat /\ I # {}
    BY <2>1, <2>2
  <2>4. PICK i \in I : \A j \in I : i <= j
    BY ONLY <2>3, Smallest
  <2>5. PICK m \in CP : i = Len(a) - Len(m)
    OBVIOUS
  <2>6. \A other \in CP : Len(a) - Len(m) <= Len(a) - Len(other)
    BY <2>4, <2>5
  <2> HIDE DEF I
  <2> QED
    BY <2>1, <2>6
<1>6. c = CHOOSE m \in CP : \A other \in CP : Len(other) <= Len(m)
  BY DEF Zone!CommonSuffix, Zone!LongestCommonPrefix, CP
<1> HIDE DEF c
<1>7. c \in CP /\ \A other \in CP : Len(other) <= Len(c)
  BY <1>5, <1>6
<1>8. \A k \in Nat : Shares(a, b, k) => k <= Len(c)
  BY <1>4, <1>7
<1>9. c \in Names /\ Shares(c, a, Len(c)) /\ Shares(c, b, Len(c))
  BY <1>3, <1>7
<1> QED
  BY <1>8, <1>9 DEF c

-------------------------------------------------------------------------------
(* What a zone has, whatever records of it are shown. *)
DenialInv ==
  /\ given.zone \in Zones /\ given.name \in ZoneQuestions
  /\ call \subseteq Zone!Signed

LEMMA ZoneIs ==
  ASSUME DenialInv
  PROVE  /\ Zone!Owners \subseteq Names /\ Zone!Owners \subseteq DOMAIN Hash
         /\ IsFiniteSet(Zone!Owners) /\ <<>> \in Zone!Owners
         /\ given.name \in Names /\ given.name \in DOMAIN Hash
<1>1. /\ DOMAIN given.zone \subseteq DOMAIN Hash /\ <<>> \in DOMAIN given.zone
      /\ DOMAIN Hash \subseteq Names /\ IsFiniteSet(DOMAIN Hash)
      /\ given.name \in DOMAIN Hash
  BY ZonesAssumption DEF DenialInv, Names
<1>2. IsFiniteSet(DOMAIN given.zone)
  BY <1>1, FS_Subset
<1> QED
  BY <1>1, <1>2 DEF Zone!Owners

LEMMA ExistingIs ==
  ASSUME DenialInv
  PROVE  /\ Zone!Existing \subseteq Names /\ Zone!Existing \subseteq DOMAIN Hash
         /\ Zone!Owners \subseteq Zone!Existing
         /\ \A m \in Names : m \in Zone!Existing <=>
                               \E o \in Zone!Owners : Shares(m, o, Len(m))
<1> DEFINE O == Zone!Owners
           Ancestors(n) == {SubSeq(n, 1, i) : i \in 0 .. Len(n)}
<1>1. O \subseteq Names /\ O \subseteq DOMAIN Hash
  BY ZoneIs
<1>2. Zone!Existing = UNION {Ancestors(n) : n \in O}
  BY DEF Zone!Existing
<1> HIDE DEF O
<1>3. \A m : m \in Zone!Existing <=> \E n \in O : \E i \in 0 .. Len(n) : m = SubSeq(n, 1, i)
  BY <1>2
<1>4. \A n \in O : \A i \in 0 .. Len(n) :
        /\ SubSeq(n, 1, i) \in Names /\ SubSeq(n, 1, i) \in DOMAIN Hash
        /\ Shares(SubSeq(n, 1, i), n, Len(SubSeq(n, 1, i)))
  <2> TAKE n \in O
  <2> TAKE i \in 0 .. Len(n)
  <2>1. n \in Names /\ n \in DOMAIN Hash /\ Len(n) \in Nat
    BY <1>1, NameIs
  <2> DEFINE m == SubSeq(n, 1, i)
  <2>2. m \in Names /\ Len(m) = i /\ \A j \in 1 .. i : m[j] = n[j]
    BY <2>1, AncestorIs
  <2>3. m \in DOMAIN Hash
    BY <2>1, ZonesAssumption
  <2> HIDE DEF m
  <2>4. Shares(m, n, Len(m))
    BY <2>1, <2>2 DEF Shares
  <2> QED
    BY <2>2, <2>3, <2>4 DEF m
<1>5. \A n \in O : n \in Zone!Existing
  <2> TAKE n \in O
  <2>1. Len(n) \in 0 .. Len(n) /\ SubSeq(n, 1, Len(n)) = n
    BY <1>1, NameIs, SubSeqFull DEF Names
  <2> QED
    BY <1>3, <2>1
<1>6. ASSUME NEW m \in Names, NEW o \in O, Shares(m, o, Len(m))
      PROVE  m \in Zone!Existing
  <2>1. o \in Names /\ Len(o) \in Nat /\ Len(m) \in Nat /\ Len(m) \in 0 .. Len(o)
    BY <1>1, <1>6, NameIs DEF Shares
  <2> DEFINE a == SubSeq(o, 1, Len(m))
  <2>2. a \in Names /\ Len(a) = Len(m) /\ \A j \in 1 .. Len(m) : a[j] = o[j]
    BY <2>1, AncestorIs
  <2>3. a \in Zone!Existing
    BY <1>3, <2>1
  <2> HIDE DEF a
  <2>4. Shares(m, a, Len(m))
    BY <1>6, <2>1, <2>2 DEF Shares
  <2>5. m = a
    BY <2>2, <2>4, SameNames
  <2> QED
    BY <2>3, <2>5
<1>7. \A m \in Zone!Existing : /\ m \in Names /\ m \in DOMAIN Hash
                               /\ \E o \in O : Shares(m, o, Len(m))
  <2> TAKE m \in Zone!Existing
  <2>1. PICK n \in O : \E i \in 0 .. Len(n) : m = SubSeq(n, 1, i)
    BY <1>3
  <2>2. PICK i \in 0 .. Len(n) : m = SubSeq(n, 1, i)
    BY <2>1
  <2>3. m \in Names /\ m \in DOMAIN Hash /\ Shares(m, n, Len(m))
    BY <1>4, <2>2
  <2> QED
    BY <2>3
<1> QED
  BY <1>5, <1>6, <1>7 DEF O

(* The encloser of a name that does not exist is the last of its ancestors *)
(* that does, and the wildcard there is what answers.                      *)
IsEncloser(n, e) ==
  /\ e \in Zone!Existing /\ Zone!IsUnder(n, e)
  /\ \A o \in Zone!Existing : Zone!IsUnder(n, o) => Len(o) <= Len(e)

LEMMA SourceIs ==
  ASSUME DenialInv, given.name \notin Zone!Existing, NEW e, IsEncloser(given.name, e)
  PROVE  Zone!Source = Zone!Star(e)
<1> DEFINE above == {m \in Zone!Existing : Zone!IsUnder(given.name, m)}
           c == CHOOSE m \in above : \A o \in above : Len(o) <= Len(m)
<1>1. e \in above /\ \A o \in above : Len(o) <= Len(e)
  BY DEF IsEncloser
<1>2. c \in above /\ Len(e) <= Len(c) /\ Len(c) <= Len(e)
  BY <1>1
<1>3. Zone!Source = Zone!Star(c)
  BY DEF Zone!Source
<1>4. c \in Names /\ e \in Names /\ given.name \in Names
  BY <1>1, <1>2, ExistingIs, ZoneIs
<1>5. Shares(c, given.name, Len(c)) /\ Shares(e, given.name, Len(e))
  BY <1>1, <1>2, <1>4, UnderIs
<1> HIDE DEF c
<1>6. Len(c) = Len(e) /\ Shares(c, e, Len(c))
  <2>1. Len(c) = Len(e)
    BY <1>2, <1>4, NameIs
  <2> QED
    BY <1>5, <2>1 DEF Shares
<1> QED
  BY <1>3, <1>4, <1>6, SameNames

LEMMA SourceOfExisting ==
  ASSUME given.name \in Zone!Existing
  PROVE  Zone!Source = given.name
BY DEF Zone!Source

(* What is true of a type at the name, and what is claimed of it. *)
IsAbsent(type) == Zone!BitmapDenies(Zone!TypesAt(Zone!Source), type)

LEMMA NothingIsAbsent ==
  ASSUME NEW n, n \notin Zone!Owners, NEW type
  PROVE  Zone!BitmapDenies(Zone!TypesAt(n), type)
<1>1. Zone!TypesAt(n) = {}
  BY DEF Zone!TypesAt
<1> QED
  BY <1>1 DEF Zone!BitmapDenies, Zone!IsCut

LEMMA AbsentIs == IsAbsent(given.type) <=> ~Zone!Delegated /\ ~Zone!HasAnswer
BY DEF IsAbsent, Zone!BitmapDenies, Zone!Delegated, Zone!HasAnswer

-------------------------------------------------------------------------------
(* nsec.js.  The names of a gap, and which ancestors it shows to exist. *)
LEMMA NsecNextIs ==
  ASSUME DenialInv, NEW x \in Zone!Owners
  PROVE  /\ Zone!NsecOf(x).next \in Zone!Owners
         /\ IsNext(NameOrder, Zone!Owners, x, Zone!NsecOf(x).next)
<1> DEFINE S == Zone!Owners
           after == {y \in S : Zone!Less(x, y)}
           from == IF after = {} THEN S ELSE after
           next == CHOOSE y \in from : \A z \in from : z = y \/ Zone!Less(y, z)
<1>1. Zone!NsecOf(x).next = next
  BY DEF Zone!NsecOf, Zone!Successor
<1>2. S \in SUBSET Names /\ IsFiniteSet(S) /\ x \in S
  BY ZoneIs
<1> HIDE DEF S
<1>3. PICK w \in S : IsNext(NameOrder, S, x, w)
  BY ONLY <1>2, NextExists, NamesAreOrdered
<1>4. /\ \A y, z \in S : <<y, z>> \in NameOrder <=> Zone!Less(y, z)
      /\ from = IF \E z \in S : <<x, z>> \in NameOrder
                THEN {z \in S : <<x, z>> \in NameOrder} ELSE S
  BY <1>2, NamesAreOrdered
<1>5. from \subseteq S
  OBVIOUS
<1>6. \A y \in S : IsNext(NameOrder, S, x, y) <=>
                     y \in from /\ \A z \in from : z = y \/ Zone!Less(y, z)
  <2> HIDE DEF from
  <2> QED
    BY <1>4, <1>5 DEF IsNext, IsLeast
<1> HIDE DEF from
<1>7. next \in from /\ \A z \in from : z = next \/ Zone!Less(next, z)
  BY <1>3, <1>6
<1> QED
  BY <1>1, <1>5, <1>6, <1>7 DEF S

LEMMA NsecIs ==
  ASSUME DenialInv, given.scheme = "nsec", NEW rr \in call
  PROVE  /\ rr.owner \in Zone!Owners /\ rr.next \in Zone!Owners
         /\ rr.types = Zone!TypesAt(rr.owner)
         /\ IsNext(NameOrder, Zone!Owners, rr.owner, rr.next)
<1>1. PICK x \in Zone!Owners : rr = Zone!NsecOf(x)
  BY DEF DenialInv, Zone!Signed
<1>2. rr.owner = x /\ rr.types = Zone!TypesAt(x)
  BY <1>1 DEF Zone!NsecOf, Zone!TypesAt
<1> QED
  BY <1>1, <1>2, NsecNextIs

LEMMA NsecGapIs ==
  ASSUME NEW rr, rr.owner \in Names, rr.next \in Names, NEW n \in Names
  PROVE  Zone!NsecCovers(rr, n) <=> IsGap(NameOrder, rr.owner, rr.next, n)
BY NamesAreOrdered DEF Zone!NsecCovers, Zone!Gap, IsGap

LEMMA NsecCovered ==
  ASSUME DenialInv, given.scheme = "nsec", NEW rr \in call, NEW n \in Names,
         Zone!NsecCovers(rr, n)
  PROVE  /\ n \notin Zone!Owners
         /\ \A w \in Zone!Owners, k \in Nat :
              Shares(w, n, k) => Shares(rr.owner, n, k) \/ Shares(rr.next, n, k)
<1> DEFINE x == rr.owner
           y == rr.next
           S == Zone!Owners
<1>1. x \in S /\ y \in S /\ S \in SUBSET Names /\ IsNext(NameOrder, S, x, y)
  BY NsecIs, ZoneIs
<1>2. IsGap(NameOrder, x, y, n)
  BY <1>1, NsecGapIs
<1> HIDE DEF x, y, S
<1>3. /\ n \notin S
      /\ \A w \in S : \/ <<x, n>> \in NameOrder /\ (w = x \/ <<w, x>> \in NameOrder)
                      \/ <<n, y>> \in NameOrder /\ (w = y \/ <<y, w>> \in NameOrder)
  BY ONLY <1>1, <1>2, n \in Names, GapIsEmpty, NamesAreOrdered
<1>4. ASSUME NEW w \in S, NEW k \in Nat, Shares(w, n, k)
      PROVE  Shares(x, n, k) \/ Shares(y, n, k)
  <2>1. w \in Names /\ x \in Names /\ y \in Names
    BY <1>1
  <2>2. \/ w = x \/ w = y
        \/ Zone!Less(w, x) /\ Zone!Less(x, n)
        \/ Zone!Less(n, y) /\ Zone!Less(y, w)
    BY <1>3, <2>1, NamesAreOrdered
  <2>3. CASE w = x \/ w = y
    BY <1>4, <2>3
  <2>4. CASE Zone!Less(w, x) /\ Zone!Less(x, n)
    BY <1>4, <2>1, <2>4, Between, SharedIsMutual
  <2>5. CASE Zone!Less(n, y) /\ Zone!Less(y, w)
    <3>1. Shares(n, w, k)
      BY <1>4, <2>1, SharedIsMutual
    <3>2. Shares(n, y, k)
      BY <2>1, <2>5, <3>1, Between
    <3> QED
      BY <2>1, <3>2, SharedIsMutual
  <2> QED
    BY <2>2, <2>3, <2>4, <2>5
<1> QED
  BY <1>3, <1>4 DEF x, y, S

LEMMA NsecEncloserIs ==
  ASSUME DenialInv, given.scheme = "nsec", NEW rr \in call, NEW n \in Names,
         Zone!NsecCovers(rr, n)
  PROVE  IsEncloser(n, Zone!ClosestEncloser(rr, n))
<1> DEFINE x == rr.owner
           y == rr.next
           a == Zone!CommonSuffix(n, x)
           b == Zone!CommonSuffix(n, y)
           e == IF Len(a) >= Len(b) THEN a ELSE b
<1>1. Zone!ClosestEncloser(rr, n) = e
  BY DEF Zone!ClosestEncloser
<1>2. x \in Zone!Owners /\ y \in Zone!Owners /\ x \in Names /\ y \in Names
  BY NsecIs, ZoneIs
<1>3. \A w \in Zone!Owners, k \in Nat : Shares(w, n, k) => Shares(x, n, k) \/ Shares(y, n, k)
  BY NsecCovered
<1> HIDE DEF x, y
<1>4. /\ a \in Names /\ Shares(a, n, Len(a)) /\ Shares(a, x, Len(a))
      /\ \A k \in Nat : Shares(n, x, k) => k <= Len(a)
  BY ONLY <1>2, n \in Names, CommonSuffixIs
<1>5. /\ b \in Names /\ Shares(b, n, Len(b)) /\ Shares(b, y, Len(b))
      /\ \A k \in Nat : Shares(n, y, k) => k <= Len(b)
  BY ONLY <1>2, n \in Names, CommonSuffixIs
<1> HIDE DEF a, b
<1>6. a \in Zone!Existing /\ b \in Zone!Existing
  BY <1>2, <1>4, <1>5, ExistingIs
<1>7. Len(a) \in Nat /\ Len(b) \in Nat
  BY <1>4, <1>5, NameIs
<1>8. e \in Zone!Existing /\ Zone!IsUnder(n, e)
  BY <1>4, <1>5, <1>6, UnderIs
<1>9. ASSUME NEW o \in Zone!Existing, Zone!IsUnder(n, o)
      PROVE  Len(o) <= Len(e)
  <2>1. o \in Names /\ Len(o) \in Nat
    BY ExistingIs, NameIs
  <2>2. PICK w \in Zone!Owners : Shares(o, w, Len(o))
    BY <2>1, ExistingIs
  <2>3. w \in Names
    BY ZoneIs
  <2>4. Shares(o, n, Len(o))
    BY <1>9, <2>1, UnderIs
  <2>5. Shares(w, n, Len(o))
    BY <2>2, <2>4 DEF Shares
  <2>6. Shares(x, n, Len(o)) \/ Shares(y, n, Len(o))
    BY <1>3, <2>1, <2>5
  <2>7. Shares(n, x, Len(o)) \/ Shares(n, y, Len(o))
    BY <1>2, <2>6, SharedIsMutual
  <2>8. Len(o) <= Len(a) \/ Len(o) <= Len(b)
    BY <1>4, <1>5, <2>1, <2>7
  <2> QED
    BY <1>7, <2>1, <2>8
<1> QED
  BY <1>1, <1>8, <1>9 DEF IsEncloser

LEMMA NsecNoDataIsTrue ==
  ASSUME DenialInv, given.scheme = "nsec", NEW type,
         Zone!NsecProvesNoData(call, given.name, type)
  PROVE  IsAbsent(type)
<1> DEFINE n == given.name
<1>1. n \in Names
  BY ZoneIs
<1>2. CASE \E rr \in call : Zone!NsecMatches(rr, n)
  <2>1. PICK rr \in call : Zone!NsecMatches(rr, n) /\ Zone!BitmapDenies(rr.types, type)
    BY <1>2 DEF Zone!NsecProvesNoData
  <2>2. rr.owner = n /\ n \in Zone!Owners /\ rr.types = Zone!TypesAt(n)
    BY <2>1, NsecIs DEF Zone!NsecMatches
  <2>3. Zone!Source = n
    BY <2>2, ExistingIs, SourceOfExisting
  <2> QED
    BY <2>1, <2>2, <2>3 DEF IsAbsent
<1>3. CASE ~\E rr \in call : Zone!NsecMatches(rr, n)
  <2>1. PICK e \in Zone!Encloser(call, n) :
          \E rr \in call : Zone!NsecMatches(rr, Zone!Star(e)) /\ Zone!BitmapDenies(rr.types, type)
    BY <1>3 DEF Zone!NsecProvesNoData
  <2>2. PICK covers \in call : Zone!NsecCovers(covers, n) /\ e = Zone!ClosestEncloser(covers, n)
    BY <2>1 DEF Zone!Encloser
  <2>3. n \notin Zone!Owners
    BY <1>1, <2>2, NsecCovered
  <2>4. CASE n \in Zone!Existing
    BY <2>3, <2>4, SourceOfExisting, NothingIsAbsent DEF IsAbsent
  <2>5. CASE n \notin Zone!Existing
    <3>1. IsEncloser(n, e)
      BY <1>1, <2>2, NsecEncloserIs
    <3>2. Zone!Source = Zone!Star(e)
      BY <2>5, <3>1, SourceIs
    <3>3. PICK rr \in call : Zone!NsecMatches(rr, Zone!Star(e)) /\ Zone!BitmapDenies(rr.types, type)
      BY <2>1
    <3>4. rr.types = Zone!TypesAt(Zone!Star(e))
      BY <3>3, NsecIs DEF Zone!NsecMatches
    <3> QED
      BY <3>2, <3>3, <3>4 DEF IsAbsent
  <2> QED
    BY <2>4, <2>5
<1> QED
  BY <1>2, <1>3

LEMMA StarIsName ==
  ASSUME NEW e \in Names
  PROVE  Zone!Star(e) \in Names
BY AppendProperties DEF Zone!Star, Names

LEMMA NsecNxdomainIsTrue ==
  ASSUME DenialInv, given.scheme = "nsec", Zone!NsecProvesNxdomain(call, given.name), NEW type
  PROVE  IsAbsent(type)
<1> DEFINE n == given.name
<1>1. n \in Names
  BY ZoneIs
<1>2. PICK e \in Zone!Encloser(call, n) : \E rr \in call : Zone!NsecCovers(rr, Zone!Star(e))
  BY DEF Zone!NsecProvesNxdomain
<1>3. PICK covers \in call : Zone!NsecCovers(covers, n) /\ e = Zone!ClosestEncloser(covers, n)
  BY <1>2 DEF Zone!Encloser
<1>4. n \notin Zone!Owners
  BY <1>1, <1>3, NsecCovered
<1>5. CASE n \in Zone!Existing
  BY <1>4, <1>5, SourceOfExisting, NothingIsAbsent DEF IsAbsent
<1>6. CASE n \notin Zone!Existing
  <2>1. IsEncloser(n, e)
    BY <1>1, <1>3, NsecEncloserIs
  <2>2. Zone!Source = Zone!Star(e)
    BY <1>6, <2>1, SourceIs
  <2>3. Zone!Star(e) \in Names
    BY <2>1, ExistingIs, StarIsName DEF IsEncloser
  <2>4. Zone!Star(e) \notin Zone!Owners
    BY <1>2, <2>3, NsecCovered
  <2> QED
    BY <2>2, <2>4, NothingIsAbsent DEF IsAbsent
<1> QED
  BY <1>5, <1>6

LEMMA NsecNoExactMatchIsTrue ==
  ASSUME DenialInv, given.scheme = "nsec", Zone!NsecNoExactMatch(call, given.name)
  PROVE  given.name \notin Zone!Owners
BY ZoneIs, NsecCovered DEF Zone!NsecNoExactMatch

-------------------------------------------------------------------------------
(* nsec3.js.  The same of the hashes; of the names, a covered one is not   *)
(* there, nor is what is below it.                                         *)
Hashes == {Hash[m] : m \in Zone!Hashed}

LEMMA HashedIs ==
  ASSUME DenialInv
  PROVE  /\ Zone!Hashed \subseteq Zone!Existing /\ Zone!Hashed \subseteq DOMAIN Hash
         /\ ~given.optOut => Zone!Hashed = Zone!Existing
         /\ Hashes \in SUBSET Nat /\ IsFiniteSet(Hashes)
<1>1. Zone!Hashed \subseteq Zone!Existing /\ Zone!Hashed \subseteq DOMAIN Hash
  BY ExistingIs DEF Zone!Hashed
<1>2. ~given.optOut => Zone!Hashed = Zone!Existing
  <2> SUFFICES ASSUME ~given.optOut, NEW m \in Zone!Existing PROVE m \in Zone!Hashed
    BY <1>1
  <2>1. PICK o \in Zone!Owners : Shares(m, o, Len(m))
    BY ExistingIs
  <2>2. Zone!IsUnder(o, m)
    BY <2>1, ExistingIs, ZoneIs, UnderIs
  <2> QED
    BY <2>2 DEF Zone!Hashed
<1>3. Hashes \in SUBSET Nat
  BY <1>1, ZonesAssumption DEF Hashes
<1>4. IsFiniteSet(Hashes)
  <2> DEFINE f == [m \in Zone!Hashed |-> Hash[m]]
  <2>1. f \in Surjection(Zone!Hashed, Hashes)
    BY DEF Surjection, Hashes
  <2>2. IsFiniteSet(Zone!Hashed)
    <3>1. IsFiniteSet(DOMAIN Hash)
      BY ZonesAssumption
    <3> QED
      BY <1>1, <3>1, FS_Subset
  <2> HIDE DEF f
  <2> QED
    BY ONLY <2>1, <2>2, FS_Surjection
<1> QED
  BY <1>1, <1>2, <1>3, <1>4

LEMMA Nsec3NextIs ==
  ASSUME DenialInv, NEW x \in Zone!Hashed
  PROVE  /\ Zone!Nsec3Of(x).next \in Hashes
         /\ IsNext(HashOrder, Hashes, Hash[x], Zone!Nsec3Of(x).next)
<1> DEFINE S == Hashes
           h == Hash[x]
           after == {y \in S : h < y}
           from == IF after = {} THEN S ELSE after
           next == CHOOSE y \in from : \A z \in from : z = y \/ y < z
<1>1. Zone!Nsec3Of(x).next = next
  BY DEF Zone!Nsec3Of, Zone!Successor, Hashes
<1>2. S \in SUBSET Nat /\ IsFiniteSet(S) /\ h \in S
  BY HashedIs DEF Hashes
<1> HIDE DEF S, h
<1>3. PICK w \in S : IsNext(HashOrder, S, h, w)
  BY ONLY <1>2, NextExists, HashesAreOrdered
<1>4. /\ \A y, z \in S : <<y, z>> \in HashOrder <=> y < z
      /\ from = IF \E z \in S : <<h, z>> \in HashOrder
                THEN {z \in S : <<h, z>> \in HashOrder} ELSE S
  BY <1>2, HashesAreOrdered
<1>5. from \subseteq S
  OBVIOUS
<1>6. \A y \in S : IsNext(HashOrder, S, h, y) <=>
                     y \in from /\ \A z \in from : z = y \/ y < z
  <2> HIDE DEF from
  <2> QED
    BY <1>4, <1>5 DEF IsNext, IsLeast
<1> HIDE DEF from
<1>7. next \in from /\ \A z \in from : z = next \/ next < z
  BY <1>3, <1>6
<1> QED
  BY <1>1, <1>5, <1>6, <1>7 DEF S, h

LEMMA Nsec3Is ==
  ASSUME DenialInv, given.scheme # "nsec", NEW rr \in call
  PROVE  /\ \E x \in Zone!Hashed : rr.owner = Hash[x] /\ rr.types = Zone!TypesAt(x)
         /\ rr.optOut = given.optOut
         /\ rr.owner \in Hashes /\ rr.next \in Hashes
         /\ IsNext(HashOrder, Hashes, rr.owner, rr.next)
<1>1. PICK x \in Zone!Hashed : rr = Zone!Nsec3Of(x)
  BY DEF DenialInv, Zone!Signed
<1>2. rr.owner = Hash[x] /\ rr.types = Zone!TypesAt(x) /\ rr.optOut = given.optOut
  BY <1>1 DEF Zone!Nsec3Of
<1>3. rr.next \in Hashes /\ IsNext(HashOrder, Hashes, Hash[x], rr.next)
  BY <1>1, Nsec3NextIs
<1> QED
  BY <1>2, <1>3 DEF Hashes

LEMMA Nsec3Matched ==
  ASSUME DenialInv, given.scheme # "nsec", NEW rr \in call, NEW n \in DOMAIN Hash,
         Zone!Nsec3Matches(rr, n)
  PROVE  n \in Zone!Hashed /\ rr.types = Zone!TypesAt(n)
<1>1. PICK x \in Zone!Hashed : rr.owner = Hash[x] /\ rr.types = Zone!TypesAt(x)
  BY Nsec3Is
<1>2. x = n
  BY <1>1, HashedIs, ZonesAssumption DEF Zone!Nsec3Matches
<1> QED
  BY <1>1, <1>2

LEMMA Nsec3GapIs ==
  ASSUME NEW rr, rr.owner \in Nat, rr.next \in Nat, NEW n \in DOMAIN Hash
  PROVE  Zone!Nsec3Covers(rr, n) <=> IsGap(HashOrder, rr.owner, rr.next, Hash[n])
<1>1. Hash[n] \in Nat
  BY ZonesAssumption
<1> QED
  BY <1>1, HashesAreOrdered DEF Zone!Nsec3Covers, Zone!Gap, IsGap

LEMMA Nsec3Covered ==
  ASSUME DenialInv, given.scheme # "nsec", NEW rr \in call, NEW n \in DOMAIN Hash,
         Zone!Nsec3Covers(rr, n)
  PROVE  n \notin Zone!Hashed
<1> DEFINE x == rr.owner
           y == rr.next
           h == Hash[n]
           S == Hashes
<1>1. x \in S /\ y \in S /\ IsNext(HashOrder, S, x, y) /\ S \in SUBSET Nat
  BY Nsec3Is, HashedIs
<1>2. IsGap(HashOrder, x, y, h)
  BY <1>1, Nsec3GapIs
<1>3. h \in Nat
  BY ZonesAssumption
<1> HIDE DEF x, y, h, S
<1>4. h \notin S
  <2> DEFINE T == Nat
  <2>1. Orders(HashOrder, T) /\ S \in SUBSET T /\ h \in T
    BY <1>1, <1>3, HashesAreOrdered
  <2> HIDE DEF T
  <2>2. x \in S /\ y \in S /\ IsNext(HashOrder, S, x, y)
    BY <1>1
  <2>3. /\ h \notin S
        /\ \A w \in S : \/ <<x, h>> \in HashOrder /\ (w = x \/ <<w, x>> \in HashOrder)
                        \/ <<h, y>> \in HashOrder /\ (w = y \/ <<y, w>> \in HashOrder)
    BY ONLY <1>2, <2>1, <2>2, GapIsEmpty
  <2> QED
    BY <2>3
<1> QED
  BY <1>4 DEF h, S, Hashes

LEMMA AncestorsExist ==
  ASSUME DenialInv, NEW m \in Names, NEW o \in Zone!Existing, Shares(m, o, Len(m))
  PROVE  m \in Zone!Existing
<1>1. PICK w \in Zone!Owners : Shares(o, w, Len(o))
  BY ExistingIs
<1>2. Len(m) \in Nat /\ Len(o) \in Nat
  BY ExistingIs, NameIs
<1>3. Shares(m, w, Len(m))
  BY <1>1, <1>2 DEF Shares
<1> QED
  BY <1>3, ExistingIs

(* The ancestors of a name that is asked for. *)
LEMMA AskedIs ==
  ASSUME DenialInv, NEW i \in 0 .. Len(given.name)
  PROVE  LET a == SubSeq(given.name, 1, i)
         IN  /\ a \in Names /\ a \in DOMAIN Hash /\ Len(a) = i
             /\ Shares(a, given.name, i) /\ Zone!IsUnder(given.name, a)
             /\ Zone!Star(a) \in DOMAIN Hash
<1> DEFINE n == given.name
           a == SubSeq(n, 1, i)
<1>1. n \in Names /\ n \in DOMAIN Hash /\ n \in ZoneQuestions /\ Len(n) \in Nat
  BY ZoneIs, NameIs DEF DenialInv
<1>2. a \in Names /\ Len(a) = i /\ \A j \in 1 .. i : a[j] = n[j]
  BY <1>1, AncestorIs
<1>3. a \in DOMAIN Hash /\ Zone!Star(a) \in DOMAIN Hash
  BY <1>1, ZonesAssumption DEF Zone!Star
<1> HIDE DEF a
<1>4. Shares(a, n, i)
  BY <1>1, <1>2 DEF Shares
<1>5. Zone!IsUnder(n, a)
  BY <1>1, <1>2, <1>4, UnderIs
<1> QED
  BY <1>2, <1>3, <1>4, <1>5 DEF a

LEMMA LastMatched ==
  ASSUME NEW n \in Nat, NEW M \in SUBSET (0 .. n), M # {}
  PROVE  \E i \in M : \A j \in M : j <= i
<1> DEFINE D == {n - i : i \in M}
<1>1. D \in SUBSET Nat /\ D # {}
  <2>1. \A i \in M : n - i \in Nat
    OBVIOUS
  <2> QED
    BY <2>1
<1>2. PICK d \in D : \A c \in D : d <= c
  BY ONLY <1>1, Smallest
<1>3. PICK i \in M : d = n - i
  OBVIOUS
<1>4. \A j \in M : n - i <= n - j
  BY <1>2, <1>3
<1> HIDE DEF D
<1> QED
  BY <1>4

(* A proof of the closest encloser: it is there, and the next name down to *)
(* the one asked for is not in the chain.                                  *)
LEMMA EncloserProofIs ==
  ASSUME DenialInv, given.scheme # "nsec",
         NEW p \in Zone!ClosestEncloserProof(call, given.name)
  PROVE  /\ p.optOut = given.optOut
         /\ \E top \in 0 .. Len(given.name) :
              /\ top + 1 \in 0 .. Len(given.name)
              /\ p.encloser = SubSeq(given.name, 1, top) /\ p.encloser \in Zone!Hashed
              /\ SubSeq(given.name, 1, top + 1) \notin Zone!Hashed
<1> DEFINE n == given.name
           matched == {i \in 0 .. Len(n) : \E rr \in call : Zone!Nsec3Matches(rr, SubSeq(n, 1, i))}
           top == CHOOSE i \in matched : \A j \in matched : j <= i
           covers == {rr \in call : Zone!Nsec3Covers(rr, SubSeq(n, 1, top + 1))}
<1>1. /\ matched # {} /\ Len(n) \notin matched
      /\ \E rr \in covers : p = [encloser |-> SubSeq(n, 1, top), optOut |-> rr.optOut]
  BY DEF Zone!ClosestEncloserProof
<1>2. Len(n) \in Nat /\ n \in DOMAIN Hash
  BY ZoneIs, NameIs
<1>3. top \in matched
  <2>1. matched \in SUBSET (0 .. Len(n))
    OBVIOUS
  <2> HIDE DEF matched
  <2>2. \E i \in matched : \A j \in matched : j <= i
    BY ONLY <1>1, <1>2, <2>1, LastMatched
  <2> QED
    BY <2>2
<1>4. top \in 0 .. Len(n) /\ \E rr \in call : Zone!Nsec3Matches(rr, SubSeq(n, 1, top))
  BY <1>3
<1>5. top # Len(n)
  BY <1>1, <1>3
<1> HIDE DEF matched, top
<1>6. top + 1 \in 0 .. Len(n)
  BY <1>2, <1>4, <1>5
<1>7. SubSeq(n, 1, top) \in Zone!Hashed
  BY <1>4, AskedIs, Nsec3Matched
<1>8. PICK rr \in call : /\ Zone!Nsec3Covers(rr, SubSeq(n, 1, top + 1))
                         /\ p = [encloser |-> SubSeq(n, 1, top), optOut |-> rr.optOut]
  BY <1>1
<1>9. SubSeq(n, 1, top + 1) \notin Zone!Hashed
  BY <1>6, <1>8, AskedIs, Nsec3Covered
<1>10. p.optOut = given.optOut /\ p.encloser = SubSeq(n, 1, top)
  BY <1>8, Nsec3Is
<1> QED
  BY <1>4, <1>6, <1>7, <1>9, <1>10

(* Without opt-out it is the encloser. *)
LEMMA EncloserIsProven ==
  ASSUME DenialInv, given.scheme # "nsec",
         NEW p \in Zone!ClosestEncloserProof(call, given.name), ~p.optOut
  PROVE  /\ ~given.optOut /\ given.name \notin Zone!Existing
         /\ IsEncloser(given.name, p.encloser) /\ Zone!Star(p.encloser) \in DOMAIN Hash
<1> DEFINE n == given.name
           e == p.encloser
<1>1. PICK top \in 0 .. Len(n) : /\ top + 1 \in 0 .. Len(n) /\ e = SubSeq(n, 1, top)
                                 /\ e \in Zone!Hashed /\ SubSeq(n, 1, top + 1) \notin Zone!Hashed
  BY EncloserProofIs
<1>2. ~given.optOut /\ Zone!Hashed = Zone!Existing
  BY EncloserProofIs, HashedIs
<1> DEFINE x == SubSeq(n, 1, top + 1)
<1>3. Len(e) = top /\ Zone!IsUnder(n, e) /\ Zone!Star(e) \in DOMAIN Hash
  BY <1>1, AskedIs
<1>4. x \in Names /\ Len(x) = top + 1 /\ Shares(x, n, top + 1) /\ x \notin Zone!Existing
  BY <1>1, <1>2, AskedIs
<1>5. n \in Names /\ Len(n) \in Nat
  BY ZoneIs, NameIs
<1> HIDE DEF x, e
<1>6. ASSUME NEW o \in Zone!Existing, Shares(o, n, Len(o))
      PROVE  Len(o) <= top
  <2> SUFFICES ASSUME top + 1 <= Len(o) PROVE FALSE
    BY <1>5, ExistingIs, NameIs
  <2>1. Len(o) \in Nat
    BY ExistingIs, NameIs
  <2>2. Shares(x, o, Len(x))
    BY <1>4, <1>6, <2>1 DEF Shares
  <2> QED
    BY <1>4, <2>2, AncestorsExist
<1>7. \A o \in Zone!Existing : Zone!IsUnder(n, o) => Len(o) <= Len(e)
  BY <1>3, <1>5, <1>6, ExistingIs, UnderIs
<1>8. n \notin Zone!Existing
  <2> SUFFICES ASSUME n \in Zone!Existing PROVE FALSE
    OBVIOUS
  <2>1. Shares(n, n, Len(n))
    BY <1>5 DEF Shares
  <2>2. Len(n) <= top
    BY <1>6, <2>1
  <2> QED
    BY <1>1, <1>5, <2>2
<1> QED
  BY <1>1, <1>2, <1>3, <1>7, <1>8 DEF IsEncloser, e

LEMMA Nsec3NoDataIsTrue ==
  ASSUME DenialInv, given.scheme # "nsec", NEW type,
         Zone!Nsec3ProvesNoData(call, given.name, type)
  PROVE  IsAbsent(type)
<1> DEFINE n == given.name
<1>1. n \in DOMAIN Hash
  BY ZoneIs
<1>2. CASE \E rr \in call : Zone!Nsec3Matches(rr, n)
  <2>1. PICK rr \in call : Zone!Nsec3Matches(rr, n) /\ Zone!BitmapDenies(rr.types, type)
    BY <1>2 DEF Zone!Nsec3ProvesNoData
  <2>2. n \in Zone!Existing /\ rr.types = Zone!TypesAt(n)
    BY <1>1, <2>1, Nsec3Matched, HashedIs
  <2> QED
    BY <2>1, <2>2, SourceOfExisting DEF IsAbsent
<1>3. CASE ~\E rr \in call : Zone!Nsec3Matches(rr, n)
  <2>1. PICK p \in Zone!RefusingOptOut(Zone!ClosestEncloserProof(call, n)) :
          \E rr \in call : /\ Zone!Nsec3Matches(rr, Zone!Star(p.encloser))
                           /\ Zone!BitmapDenies(rr.types, type)
    BY <1>3 DEF Zone!Nsec3ProvesNoData
  <2>2. p \in Zone!ClosestEncloserProof(call, n) /\ ~p.optOut
    BY <2>1 DEF Zone!RefusingOptOut
  <2>3. /\ n \notin Zone!Existing /\ IsEncloser(n, p.encloser)
        /\ Zone!Star(p.encloser) \in DOMAIN Hash
    BY <2>2, EncloserIsProven
  <2>4. Zone!Source = Zone!Star(p.encloser)
    BY <2>3, SourceIs
  <2>5. PICK rr \in call : /\ Zone!Nsec3Matches(rr, Zone!Star(p.encloser))
                           /\ Zone!BitmapDenies(rr.types, type)
    BY <2>1
  <2>6. rr.types = Zone!TypesAt(Zone!Star(p.encloser))
    BY <2>3, <2>5, Nsec3Matched
  <2> QED
    BY <2>4, <2>5, <2>6 DEF IsAbsent
<1> QED
  BY <1>2, <1>3

LEMMA Nsec3NxdomainIsTrue ==
  ASSUME DenialInv, given.scheme # "nsec", Zone!Nsec3ProvesNxdomain(call, given.name), NEW type
  PROVE  IsAbsent(type)
<1> DEFINE n == given.name
<1>1. PICK p \in Zone!RefusingOptOut(Zone!ClosestEncloserProof(call, n)) :
        \E rr \in call : Zone!Nsec3Covers(rr, Zone!Star(p.encloser))
  BY DEF Zone!Nsec3ProvesNxdomain
<1>2. p \in Zone!ClosestEncloserProof(call, n) /\ ~p.optOut
  BY <1>1 DEF Zone!RefusingOptOut
<1>3. /\ ~given.optOut /\ n \notin Zone!Existing /\ IsEncloser(n, p.encloser)
      /\ Zone!Star(p.encloser) \in DOMAIN Hash
  BY <1>2, EncloserIsProven
<1>4. Zone!Source = Zone!Star(p.encloser)
  BY <1>3, SourceIs
<1>5. Zone!Star(p.encloser) \notin Zone!Owners
  <2>1. Zone!Star(p.encloser) \notin Zone!Hashed
    BY <1>1, <1>3, Nsec3Covered
  <2> QED
    BY <1>3, <2>1, HashedIs, ExistingIs
<1> QED
  BY <1>4, <1>5, NothingIsAbsent DEF IsAbsent

LEMMA Nsec3NoExactMatchIsTrue ==
  ASSUME DenialInv, given.scheme # "nsec", Zone!Nsec3NoExactMatch(call, given.name)
  PROVE  given.name \notin Zone!Owners
<1>1. PICK p \in Zone!ClosestEncloserProof(call, given.name) : ~p.optOut
  BY DEF Zone!Nsec3NoExactMatch, Zone!RefusingOptOut
<1> QED
  BY <1>1, EncloserIsProven, ExistingIs

(* What an opt-out gap leaves out is unsigned. *)
LEMMA OptOutIsUnsigned ==
  ASSUME DenialInv, given.scheme # "nsec",
         NEW p \in Zone!ClosestEncloserProof(call, given.name), p.optOut,
         given.name \in Zone!Owners
  PROVE  "DS" \notin Zone!TypesAt(given.name)
<1> DEFINE n == given.name
<1>1. PICK top \in 0 .. Len(n) : /\ top + 1 \in 0 .. Len(n)
                                 /\ SubSeq(n, 1, top + 1) \notin Zone!Hashed
  BY EncloserProofIs
<1> DEFINE x == SubSeq(n, 1, top + 1)
<1>2. x \in Names /\ Len(x) = top + 1 /\ Shares(x, n, top + 1) /\ Zone!IsUnder(n, x)
  BY <1>1, AskedIs
<1>3. x \in Zone!Existing /\ x \notin Zone!Hashed
  BY <1>1, <1>2, ExistingIs
<1> HIDE DEF x
<1>4. n \in Zone!UnsignedCuts
  BY <1>2, <1>3 DEF Zone!Hashed
<1> QED
  BY <1>4 DEF Zone!UnsignedCuts, Zone!TypesAt

-------------------------------------------------------------------------------
(* With all of its records a zone can prove what it has not. *)
LEMMA NsecCoverIsThere ==
  ASSUME DenialInv, given.scheme = "nsec", call = Zone!Signed,
         NEW n \in Names, n \notin Zone!Owners
  PROVE  \E rr \in call : Zone!NsecCovers(rr, n)
<1> DEFINE S == Zone!Owners
<1>1. S \in SUBSET Names /\ IsFiniteSet(S) /\ S # {} /\ n \notin S
  BY ZoneIs
<1> HIDE DEF S
<1>2. PICK x \in S : \A y \in S : IsNext(NameOrder, S, x, y) => IsGap(NameOrder, x, y, n)
  BY ONLY <1>1, n \in Names, GapExists, NamesAreOrdered
<1> DEFINE rr == Zone!NsecOf(x)
<1>3. rr \in call /\ rr.owner = x
  BY DEF Zone!Signed, Zone!NsecOf, S
<1>4. rr.next \in S /\ IsNext(NameOrder, S, x, rr.next)
  BY NsecNextIs DEF S
<1> HIDE DEF rr
<1>5. IsGap(NameOrder, rr.owner, rr.next, n)
  BY <1>2, <1>3, <1>4
<1>6. Zone!NsecCovers(rr, n)
  BY <1>1, <1>3, <1>4, <1>5, NsecGapIs
<1> QED
  BY <1>3, <1>6

LEMMA Nsec3CoverIsThere ==
  ASSUME DenialInv, given.scheme # "nsec", call = Zone!Signed, ~given.optOut,
         NEW n \in DOMAIN Hash, n \notin Zone!Hashed
  PROVE  \E rr \in call : Zone!Nsec3Covers(rr, n)
<1> DEFINE S == Hashes
           h == Hash[n]
<1>1. S \in SUBSET Nat /\ IsFiniteSet(S) /\ S # {} /\ h \in Nat /\ h \notin S
  <2>1. <<>> \in Zone!Hashed
    BY HashedIs, ExistingIs, ZoneIs
  <2>2. Zone!Hashed \subseteq DOMAIN Hash
    BY HashedIs
  <2>3. h \notin S /\ h \in Nat
    BY <2>2, ZonesAssumption DEF Hashes
  <2>4. S # {}
    BY <2>1 DEF Hashes
  <2> QED
    BY <2>3, <2>4, HashedIs
<1> HIDE DEF S, h
<1>2. PICK a \in S : \A y \in S : IsNext(HashOrder, S, a, y) => IsGap(HashOrder, a, y, h)
  BY ONLY <1>1, GapExists, HashesAreOrdered
<1>3. PICK x \in Zone!Hashed : a = Hash[x]
  BY DEF S, Hashes
<1> DEFINE rr == Zone!Nsec3Of(x)
<1>4. rr \in call /\ rr.owner = a
  BY <1>3 DEF Zone!Signed, Zone!Nsec3Of
<1>5. rr.next \in S /\ IsNext(HashOrder, S, a, rr.next)
  BY <1>3, Nsec3NextIs DEF S
<1> HIDE DEF rr
<1>6. IsGap(HashOrder, rr.owner, rr.next, h)
  BY <1>2, <1>4, <1>5
<1>7. Zone!Nsec3Covers(rr, n)
  BY <1>1, <1>4, <1>5, <1>6, Nsec3GapIs DEF h
<1> QED
  BY <1>4, <1>7

LEMMA NsecIsHonest ==
  ASSUME DenialInv, given.scheme = "nsec", call = Zone!Signed, IsAbsent(given.type),
         given.name \notin Zone!Existing \ Zone!Owners,
         \A n \in Zone!Owners : "DNAME" \notin given.zone[n]
  PROVE  Zone!NsecProvesDenial(call, given.name, given.type)
<1> DEFINE n == given.name
           type == given.type
<1>1. n \in Names
  BY ZoneIs
<1>2. \A rr \in call : "DNAME" \notin rr.types
  BY NsecIs DEF Zone!TypesAt
<1>3. \A o \in Zone!Owners : /\ Zone!NsecOf(o) \in call
                             /\ Zone!NsecMatches(Zone!NsecOf(o), o)
  BY DEF Zone!Signed, Zone!NsecOf, Zone!NsecMatches
<1>4. \A o : \A rr \in call : Zone!NsecMatches(rr, o) =>
                            o \in Zone!Owners /\ rr.types = Zone!TypesAt(o)
  BY NsecIs DEF Zone!NsecMatches
<1>5. CASE n \in Zone!Owners
  <2>1. Zone!Source = n
    BY <1>5, ExistingIs, SourceOfExisting
  <2>2. \A rr \in call : Zone!NsecMatches(rr, n) => Zone!BitmapDenies(rr.types, type)
    BY <1>4, <2>1 DEF IsAbsent
  <2>3. \E rr \in call : Zone!NsecMatches(rr, n)
    BY <1>3, <1>5
  <2> QED
    BY <1>2, <2>2, <2>3 DEF Zone!NsecProvesDenial, Zone!NsecProvesNoData
<1>6. CASE n \notin Zone!Existing
  <2>1. n \notin Zone!Owners
    BY <1>6, ExistingIs
  <2>2. PICK covers \in call : Zone!NsecCovers(covers, n)
    BY <1>1, <2>1, NsecCoverIsThere
  <2> DEFINE e == Zone!ClosestEncloser(covers, n)
  <2>3. IsEncloser(n, e)
    BY <1>1, <2>2, NsecEncloserIs
  <2>4. e \in Zone!Encloser(call, n)
    BY <1>6, <2>2, <2>3 DEF Zone!Encloser, IsEncloser
  <2> HIDE DEF e
  <2>5. Zone!Source = Zone!Star(e)
    BY <1>6, <2>3, SourceIs
  <2>6. CASE Zone!Star(e) \in Zone!Owners
    <3>1. ~\E rr \in call : Zone!NsecMatches(rr, n)
      BY <1>4, <2>1
    <3>2. \E rr \in call : Zone!NsecMatches(rr, Zone!Star(e)) /\ Zone!BitmapDenies(rr.types, type)
      BY <1>3, <1>4, <2>5, <2>6 DEF IsAbsent
    <3>3. Zone!NsecProvesNoData(call, n, type)
      BY <2>4, <3>1, <3>2 DEF Zone!NsecProvesNoData
    <3> QED
      BY <1>2, <3>3 DEF Zone!NsecProvesDenial
  <2>7. CASE Zone!Star(e) \notin Zone!Owners
    <3>1. Zone!Star(e) \in Names
      BY <2>3, ExistingIs, StarIsName DEF IsEncloser
    <3>2. \E rr \in call : Zone!NsecCovers(rr, Zone!Star(e))
      BY <2>7, <3>1, NsecCoverIsThere
    <3>3. \A rr \in call : ~Zone!NsecMatches(rr, Zone!Star(e))
      BY <1>4, <2>7
    <3>4. Zone!NsecProvesNxdomain(call, n)
      BY <2>4, <3>2, <3>3 DEF Zone!NsecProvesNxdomain
    <3> QED
      BY <1>2, <3>4 DEF Zone!NsecProvesDenial
  <2> QED
    BY <2>6, <2>7
<1> QED
  BY <1>5, <1>6

LEMMA EncloserProofIsThere ==
  ASSUME DenialInv, given.scheme # "nsec", call = Zone!Signed, ~given.optOut,
         ~Zone!BelowCut, given.name \notin Zone!Existing
  PROVE  \E p \in Zone!ClosestEncloserProof(call, given.name) : ~p.optOut
<1> DEFINE n == given.name
           matched == {i \in 0 .. Len(n) : \E rr \in call : Zone!Nsec3Matches(rr, SubSeq(n, 1, i))}
           top == CHOOSE i \in matched : \A j \in matched : j <= i
           e == SubSeq(n, 1, top)
           covers == {rr \in call : Zone!Nsec3Covers(rr, SubSeq(n, 1, top + 1))}
<1>1. n \in Names /\ Len(n) \in Nat
  BY ZoneIs, NameIs
<1>2. Zone!Hashed = Zone!Existing
  BY HashedIs
<1>3. \A m \in Zone!Existing : \E rr \in call : Zone!Nsec3Matches(rr, m)
  <2> TAKE m \in Zone!Existing
  <2>1. Zone!Nsec3Of(m) \in call
    BY <1>2 DEF Zone!Signed
  <2>2. Zone!Nsec3Matches(Zone!Nsec3Of(m), m)
    BY DEF Zone!Nsec3Of, Zone!Nsec3Matches
  <2> QED
    BY <2>1, <2>2
<1>4. \A i \in 0 .. Len(n) : i \in matched <=> SubSeq(n, 1, i) \in Zone!Existing
  BY <1>2, <1>3, AskedIs, Nsec3Matched
<1>5. 0 \in matched
  <2> DEFINE a == SubSeq(n, 1, 0)
  <2>1. 0 \in 0 .. Len(n)
    BY <1>1
  <2>2. a \in Names /\ Len(a) = 0
    BY <2>1, AskedIs
  <2>3. <<>> \in Zone!Existing
    BY ZoneIs, ExistingIs
  <2> HIDE DEF a
  <2>4. Shares(a, <<>>, Len(a))
    BY <2>2, EmptySeq DEF Shares
  <2>5. a \in Zone!Existing
    BY <2>2, <2>3, <2>4, AncestorsExist
  <2> QED
    BY <1>4, <2>1, <2>5 DEF a
<1>6. Len(n) \notin matched
  <2>1. SubSeq(n, 1, Len(n)) = n
    BY <1>1, SubSeqFull DEF Names
  <2> QED
    BY <1>1, <1>4, <2>1
<1>7. matched \in SUBSET (0 .. Len(n))
  OBVIOUS
<1>8. Zone!ClosestEncloserProof(call, n) =
        IF matched = {} \/ Len(n) \in matched THEN {}
        ELSE IF \E rr \in call : Zone!Nsec3Matches(rr, e) /\ Zone!IsCut(rr.types) THEN {}
        ELSE {[encloser |-> e, optOut |-> rr.optOut] : rr \in covers}
  BY DEF Zone!ClosestEncloserProof
<1> HIDE DEF matched
<1>9. top \in matched /\ \A j \in matched : j <= top
  <2>1. \E i \in matched : \A j \in matched : j <= i
    BY ONLY <1>1, <1>5, <1>7, LastMatched
  <2> QED
    BY <2>1
<1> HIDE DEF top
<1>10. top \in 0 .. Len(n) /\ top + 1 \in 0 .. Len(n) /\ top + 1 \notin matched
  BY <1>1, <1>6, <1>7, <1>9
<1>11. e \in Zone!Existing /\ SubSeq(n, 1, top + 1) \notin Zone!Existing
  BY <1>4, <1>9, <1>10
<1>12. ~\E rr \in call : Zone!Nsec3Matches(rr, e) /\ Zone!IsCut(rr.types)
  <2> SUFFICES ASSUME NEW rr \in call, Zone!Nsec3Matches(rr, e), Zone!IsCut(rr.types)
               PROVE  FALSE
    OBVIOUS
  <2>1. e \in DOMAIN Hash /\ Zone!IsUnder(n, e)
    BY <1>10, AskedIs
  <2>2. rr.types = Zone!TypesAt(e)
    BY <2>1, Nsec3Matched
  <2>3. e \in Zone!Owners /\ Zone!IsCut(given.zone[e])
    BY <2>2 DEF Zone!TypesAt, Zone!IsCut
  <2>4. e # n
    BY <1>11
  <2> QED
    BY <2>1, <2>3, <2>4 DEF Zone!BelowCut
<1>13. PICK rr \in call : Zone!Nsec3Covers(rr, SubSeq(n, 1, top + 1))
  BY <1>2, <1>10, <1>11, AskedIs, Nsec3CoverIsThere
<1> DEFINE p == [encloser |-> e, optOut |-> rr.optOut]
<1>14. p \in Zone!ClosestEncloserProof(call, n)
  BY <1>5, <1>6, <1>8, <1>12, <1>13
<1>15. ~p.optOut
  BY Nsec3Is
<1> QED
  BY <1>14, <1>15

LEMMA Nsec3IsHonest ==
  ASSUME DenialInv, given.scheme # "nsec", call = Zone!Signed, ~given.optOut,
         IsAbsent(given.type), ~Zone!BelowCut
  PROVE  Zone!Nsec3ProvesDenial(call, given.name, given.type)
<1> DEFINE n == given.name
           type == given.type
<1>1. n \in DOMAIN Hash /\ Zone!Hashed = Zone!Existing
  BY ZoneIs, HashedIs
<1>2. \A m \in Zone!Hashed : \E rr \in call : Zone!Nsec3Matches(rr, m)
  <2> TAKE m \in Zone!Hashed
  <2>1. Zone!Nsec3Of(m) \in call
    BY DEF Zone!Signed
  <2>2. Zone!Nsec3Matches(Zone!Nsec3Of(m), m)
    BY DEF Zone!Nsec3Of, Zone!Nsec3Matches
  <2> QED
    BY <2>1, <2>2
<1>3. CASE n \in Zone!Existing
  <2>1. \A rr \in call : Zone!Nsec3Matches(rr, n) => Zone!BitmapDenies(rr.types, type)
    BY <1>1, <1>3, Nsec3Matched, SourceOfExisting DEF IsAbsent
  <2>2. \E rr \in call : Zone!Nsec3Matches(rr, n)
    BY <1>1, <1>2, <1>3
  <2> QED
    BY <2>1, <2>2 DEF Zone!Nsec3ProvesDenial, Zone!Nsec3ProvesNoData
<1>4. CASE n \notin Zone!Existing
  <2>1. PICK p \in Zone!ClosestEncloserProof(call, n) : ~p.optOut
    BY <1>4, EncloserProofIsThere
  <2>2. p \in Zone!RefusingOptOut(Zone!ClosestEncloserProof(call, n))
    BY <2>1 DEF Zone!RefusingOptOut
  <2> DEFINE star == Zone!Star(p.encloser)
  <2>3. IsEncloser(n, p.encloser) /\ star \in DOMAIN Hash
    BY <2>1, EncloserIsProven
  <2>4. Zone!Source = star
    BY <1>4, <2>3, SourceIs
  <2>5. CASE star \in Zone!Hashed
    <3>1. ~\E rr \in call : Zone!Nsec3Matches(rr, n)
      BY <1>1, <1>4, Nsec3Matched
    <3>2. PICK rr \in call : Zone!Nsec3Matches(rr, star)
      BY <1>2, <2>5
    <3>3. Zone!BitmapDenies(rr.types, type)
      BY <2>3, <2>4, <3>2, Nsec3Matched DEF IsAbsent
    <3>4. Zone!Nsec3ProvesNoData(call, n, type)
      BY <2>2, <3>1, <3>2, <3>3 DEF Zone!Nsec3ProvesNoData
    <3> QED
      BY <3>4 DEF Zone!Nsec3ProvesDenial
  <2>6. CASE star \notin Zone!Hashed
    <3>1. PICK rr \in call : Zone!Nsec3Covers(rr, star)
      BY <2>3, <2>6, Nsec3CoverIsThere
    <3>2. ~rr.optOut
      BY Nsec3Is
    <3>3. \A q \in call : ~Zone!Nsec3Matches(q, star)
      BY <2>3, <2>6, Nsec3Matched
    <3>4. Zone!Nsec3ProvesNxdomain(call, n)
      BY <2>2, <3>1, <3>2, <3>3 DEF Zone!Nsec3ProvesNxdomain
    <3> QED
      BY <3>4 DEF Zone!Nsec3ProvesDenial
  <2> QED
    BY <2>5, <2>6
<1> QED
  BY <1>3, <1>4

LEMMA ZoneStands ==
  ASSUME given' = given
  PROVE  Zone!Signed' = Zone!Signed
<1>1. Zone!Owners' = Zone!Owners
  BY DEF Zone!Owners
<1>2. Zone!Existing' = Zone!Existing
  BY <1>1 DEF Zone!Existing
<1>3. Zone!Hashed' = Zone!Hashed
  BY <1>1, <1>2 DEF Zone!Hashed, Zone!UnsignedCuts
<1>4. \A n : Zone!NsecOf(n)' = Zone!NsecOf(n)
  BY <1>1 DEF Zone!NsecOf, Zone!Successor
<1>5. \A n : Zone!Nsec3Of(n)' = Zone!Nsec3Of(n)
  BY <1>1, <1>3 DEF Zone!Nsec3Of, Zone!Successor, Zone!TypesAt
<1> QED
  BY <1>1, <1>3, <1>4, <1>5 DEF Zone!Signed

LEMMA DenialIsKept ==
  /\ Init => (kind = "zone" => DenialInv)
  /\ (kind = "zone" => DenialInv) /\ [Next]_vars => (kind = "zone" => DenialInv)'
<1>1. Init => (kind = "zone" => DenialInv)
  <2> SUFFICES ASSUME Zone!Init PROVE DenialInv
    BY BeginsAsItsKind
  <2>1. given \in [zone : Zones, scheme : {"nsec", "nsec3"}, optOut : BOOLEAN,
                   name : ZoneQuestions, type : Zone!Types]
        /\ call = Zone!Signed
    BY DEF Zone!Init
  <2> QED
    BY <2>1 DEF DenialInv
<1>2. (kind = "zone" => DenialInv) /\ [Next]_vars => (kind = "zone" => DenialInv)'
  <2> SUFFICES ASSUME kind = "zone", DenialInv, [Next]_vars PROVE DenialInv'
    BY OfItsKind
  <2>1. given' = given /\ call' \subseteq call
    <3>1. [Zone!Next]_request
      BY OfItsKind
    <3>2. CASE UNCHANGED request
      BY <3>2 DEF request
    <3>3. CASE Zone!Next
      BY <3>3 DEF Zone!Next, Zone!Withhold
    <3> QED
      BY <3>1, <3>2, <3>3
  <2>2. Zone!Signed' = Zone!Signed
    BY <2>1, ZoneStands
  <2> QED
    BY <2>1, <2>2 DEF DenialInv
<1> QED
  BY <1>1, <1>2

(* Whatever a zone has, and whichever of its records reach nsec.js or       *)
(* nsec3.js: a denial that is accepted is true with wildcards considered, a *)
(* delegation read as unsigned has no DS, and a wildcard does not answer   *)
(* for a name with records of its own.                                     *)
THEOREM AcceptedDenialsAreTrue == Spec => []DenialIsTrueAbove
<1>1. DenialInv => Zone!DenialIsTrueAbove
  <2> SUFFICES ASSUME DenialInv PROVE Zone!DenialIsTrueAbove
    OBVIOUS
  <2> DEFINE n == given.name
  <2>1. ASSUME Zone!ProvesDenial PROVE ~Zone!Delegated /\ ~Zone!HasAnswer
    <3>1. CASE given.scheme = "nsec"
      BY <2>1, <3>1, NsecNoDataIsTrue, NsecNxdomainIsTrue, AbsentIs
         DEF Zone!ProvesDenial, Zone!NsecProvesDenial
    <3>2. CASE given.scheme # "nsec"
      BY <2>1, <3>2, Nsec3NoDataIsTrue, Nsec3NxdomainIsTrue, AbsentIs
         DEF Zone!ProvesDenial, Zone!Nsec3ProvesDenial
    <3> QED
      BY <3>1, <3>2
  <2>2. ASSUME Zone!ProvesInsecureDelegation, n \in Zone!Owners
        PROVE  "DS" \notin Zone!TypesAt(n)
    <3>1. IsAbsent("DS") => "DS" \notin Zone!TypesAt(n)
      BY <2>2, ExistingIs, SourceOfExisting DEF IsAbsent, Zone!BitmapDenies
    <3>2. CASE given.scheme = "nsec"
      BY <2>2, <3>1, <3>2, NsecNoDataIsTrue DEF Zone!ProvesInsecureDelegation
    <3>3. CASE given.scheme # "nsec"
      BY <2>2, <3>1, <3>3, Nsec3NoDataIsTrue, OptOutIsUnsigned
         DEF Zone!ProvesInsecureDelegation, Zone!Nsec3ProvesInsecureDelegation
    <3> QED
      BY <3>2, <3>3
  <2>3. ASSUME Zone!ProvesNoExactMatch PROVE n \notin Zone!Owners
    BY <2>3, NsecNoExactMatchIsTrue, Nsec3NoExactMatchIsTrue DEF Zone!ProvesNoExactMatch
  <2> QED
    BY <2>1, <2>2, <2>3 DEF Zone!DenialIsTrueAbove, Zone!TakesExpansion
<1>2. (kind = "zone" => DenialInv) => DenialIsTrueAbove
  BY <1>1 DEF DenialIsTrueAbove
<1> QED
  BY <1>2, DenialIsKept, PTL DEF Spec

(* And what is not there can be proven: a zone that shows all its records  *)
(* has its denial accepted, but for the cases the property names.          *)
THEOREM AbsencesAreProvable == Spec => []HonestDenialIsProven
<1>1. DenialInv => Zone!HonestDenialIsProven
  <2> SUFFICES ASSUME DenialInv,
                      call = Zone!Signed, ~Zone!Delegated, ~Zone!HasAnswer, ~Zone!BelowCut,
                      ~given.optOut,
                      given.scheme = "nsec" => given.name \notin Zone!Existing \ Zone!Owners,
                      \A n \in Zone!Owners : "DNAME" \notin given.zone[n]
               PROVE  Zone!ProvesDenial
    BY DEF Zone!HonestDenialIsProven
  <2>1. IsAbsent(given.type)
    BY AbsentIs
  <2>2. CASE given.scheme = "nsec"
    BY <2>1, <2>2, NsecIsHonest DEF Zone!ProvesDenial
  <2>3. CASE given.scheme # "nsec"
    BY <2>1, <2>3, Nsec3IsHonest DEF Zone!ProvesDenial
  <2> QED
    BY <2>2, <2>3
<1>2. (kind = "zone" => DenialInv) => HonestDenialIsProven
  BY <1>1 DEF HonestDenialIsProven
<1> QED
  BY <1>2, DenialIsKept, PTL DEF Spec
===============================================================================
