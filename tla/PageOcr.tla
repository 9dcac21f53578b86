-------------------------------- MODULE PageOcr --------------------------------
(***************************************************************************)
(* The recognition of pages (OCRPolicy): the first provider, the second    *)
(* when the first fails or is not sure of its answer, and a circuit        *)
(* breaker for each, shared by the pages of one worker.                    *)
(*                                                                         *)
(* The worker is one event loop: what it does between two awaits is one    *)
(* step here.  Times are kept as ages, in ticks, up to the largest that is *)
(* asked about.                                                            *)
(***************************************************************************)
EXTENDS Naturals, Sequences, FiniteSets

CONSTANTS
  Pages,      \* pages recognised at one time
  Adapters,   \* second providers a deployment may have
  Threshold,  \* CIRCUIT_BREAKER_FAILURE_THRESHOLD
  Window,     \* seconds in which failures are counted, in ticks
  HalfOpen,   \* CIRCUIT_BREAKER_HALF_OPEN_AFTER_S, in ticks
  Kept,       \* failures a breaker remembers, deque(maxlen=20)
  Nothing

VARIABLES
  second,     \* the adapter of the fallback, or Nothing
  breaker,    \* the circuit breaker of each provider
  page,       \* what is recognised now
  bucket      \* ocr-raw: the pages whose response is there

pvars == <<second, breaker, page, bucket>>

(* What an adapter may return.                                             *)
Recognitions == [by : {"google", "azure", "paddle"}, confidence : {"low", "high"}, raw : Pages \cup {Nothing}]

ASSUME OcrAssumption ==
  /\ IsFiniteSet(Pages)
  /\ {Threshold, Window, HalfOpen, Kept} \subseteq Nat /\ Threshold > 0 /\ HalfOpen > 0 /\ Kept >= Threshold
  /\ Adapters \subseteq {"azure", "paddle", Nothing}
  /\ Nothing \notin Nat /\ Nothing \notin Recognitions

Chain == {"primary", "fallback"}

(* No page, one that waits for a provider or for the storage, one that is  *)
(* recognised or given up; and the uncertain answer of the first.          *)
Blank == [pc |-> "none", kept |-> Nothing, result |-> Nothing]

OcrInit ==
  /\ second \in Adapters
  /\ breaker = [x \in Chain |-> [failures |-> <<>>, opened |-> Nothing]]
  /\ page = [p \in Pages |-> Blank]
  /\ bucket = {}

-------------------------------------------------------------------------------
(* _CircuitBreakerState.                                                   *)

(* Mutant: the circuit opens one failure late.                             *)
OpenedLate(b) == IF b.opened = Nothing /\ Len(b.failures) > Threshold THEN 0 ELSE b.opened

(* is_open opens it, and never anew once it is half open.                  *)
Opened(b) == IF b.opened = Nothing /\ Len(b.failures) >= Threshold THEN 0 ELSE b.opened

IsOpen(b) == Opened(b) # Nothing /\ Opened(b) < HalfOpen

Looked(bs, x) == [bs EXCEPT ![x].opened = Opened(bs[x])]

Failed(bs, x) == [bs EXCEPT ![x].failures = Append(IF Len(@) = Kept THEN Tail(@) ELSE @, 0)]
Succeeded(bs, x) == [bs EXCEPT ![x] = [failures |-> <<>>, opened |-> Nothing]]

-------------------------------------------------------------------------------
(* What an adapter returns, or an error of any kind: no credentials, a     *)
(* timeout, a refusal, a response that is no JSON.  The key it announces   *)
(* for the raw response is where Google has stored it, and nowhere for the *)
(* other two.                                                              *)

Results(adapter, keys) == [by : {adapter}, confidence : {"low", "high"}, raw : keys]

GoogleResults(p) == Results("google", {p})

(* The analysis is started without an image, and polled until it ends.     *)
AzureResults == Results("azure", {Nothing})

(* A service of one's own; the adapter is there only if it is enabled.     *)
PaddleResults == Results("paddle", {Nothing})

SecondResults == IF second = "azure" THEN AzureResults ELSE PaddleResults

-------------------------------------------------------------------------------
(* analyze_page.                                                           *)

Ends(p, bs, kept) ==
  /\ breaker' = bs
  /\ page' = [page EXCEPT ![p].pc = IF kept = Nothing THEN "failed" ELSE "done", ![p].result = kept]

Calls(p, bs, x, kept) ==
  /\ breaker' = bs
  /\ page' = [page EXCEPT ![p].pc = x, ![p].kept = kept]

(* The second provider is tried, unless there is none or its circuit is    *)
(* open; an uncertain answer of the first is kept.                         *)
FallsBack(p, bs, kept) ==
  IF second = Nothing THEN Ends(p, bs, kept)
  ELSE IF IsOpen(bs.fallback) THEN Ends(p, Looked(bs, "fallback"), kept)
  ELSE Calls(p, Looked(bs, "fallback"), "fallback", kept)

AnalyzePage(p) ==
  /\ page[p].pc \in {"none", "done", "failed"}
  /\ bucket' = bucket \ {p}
  /\ LET bs == Looked(breaker, "primary")
         Fresh(pc) == [Blank EXCEPT !.pc = pc] IN
       IF ~IsOpen(breaker.primary) THEN breaker' = bs /\ page' = [page EXCEPT ![p] = Fresh("primary")]
       ELSE IF second = Nothing THEN breaker' = bs /\ page' = [page EXCEPT ![p] = Fresh("failed")]
       ELSE /\ breaker' = Looked(bs, "fallback")
            /\ page' = [page EXCEPT ![p] = Fresh(IF IsOpen(breaker.fallback) THEN "failed" ELSE "fallback")]
  /\ UNCHANGED second

(* No answer, or one that was not stored, or stored and not confirmed.     *)
PrimaryFails(p) ==
  /\ page[p].pc \in {"primary", "persist"}
  /\ bucket' \in {bucket} \cup {b \in {bucket \cup {p}} : page[p].pc = "persist"}
  /\ FallsBack(p, Failed(breaker, "primary"), Nothing)
  /\ UNCHANGED second

PrimaryResponds(p) ==
  /\ page[p].pc = "primary"
  /\ \E r \in GoogleResults(p) : page' = [page EXCEPT ![p].result = r, ![p].pc = "persist"]
  /\ UNCHANGED <<second, breaker, bucket>>

(* Mutant: the key is announced whether or not the response is stored.     *)
PersistOrNot(p) ==
  /\ page[p].pc = "persist"
  /\ bucket' \in {bucket, bucket \cup {p}}
  /\ LET r == page[p].result  bs == Succeeded(breaker, "primary") IN
       IF r.confidence = "low" THEN FallsBack(p, bs, r) ELSE Ends(p, bs, r)
  /\ UNCHANGED second

(* The raw response is stored, which may fail, before its key is announced. *)
Persist(p) ==
  /\ page[p].pc = "persist"
  /\ bucket' = bucket \cup {p}
  /\ LET r == page[p].result  bs == Succeeded(breaker, "primary") IN
       IF r.confidence = "low" THEN FallsBack(p, bs, r) ELSE Ends(p, bs, r)
  /\ UNCHANGED second

FallbackAnswers(p) ==
  /\ page[p].pc = "fallback"
  /\ \E r \in SecondResults : Ends(p, Succeeded(breaker, "fallback"), r)
  /\ UNCHANGED <<second, bucket>>

(* An uncertain answer is better than none.                                *)
FallbackFails(p) ==
  /\ page[p].pc = "fallback"
  /\ Ends(p, Failed(breaker, "fallback"), page[p].kept)
  /\ UNCHANGED <<second, bucket>>

(* Failures leave the window, the oldest first; a circuit becomes half     *)
(* open.                                                                   *)
Tick ==
  /\ LET Older(b) ==
           LET gone == Cardinality({i \in DOMAIN b.failures : b.failures[i] + 1 >= Window}) IN
             [failures |-> [i \in 1 .. Len(b.failures) - gone |-> b.failures[i + gone] + 1],
              opened |-> IF b.opened = Nothing \/ b.opened = HalfOpen THEN b.opened ELSE b.opened + 1] IN
       breaker' = [x \in Chain |-> Older(breaker[x])]
  /\ UNCHANGED <<second, page, bucket>>

OcrNext ==
  \/ \E p \in Pages : \/ AnalyzePage(p) \/ PrimaryFails(p) \/ PrimaryResponds(p) \/ Persist(p)
                      \/ FallbackAnswers(p) \/ FallbackFails(p)
  \/ Tick

-------------------------------------------------------------------------------
(* Pages that fail together find a provider down at once, but no more than *)
(* were on their way: within one window, until the circuit is half open, a *)
(* provider fails less often than the threshold and the pages at one time. *)
BreakerHolds ==
  \A x \in Chain : LET b == breaker[x] IN
    b.opened = Nothing \/ b.opened < HalfOpen => Len(b.failures) < Threshold + Cardinality(Pages)

(* No page is given up although a provider answered it, and a page that is *)
(* recognised by Google has its raw response in the storage, whatever      *)
(* fails after the answer.                                                 *)
EvidenceIsKept ==
  \A p \in Pages :
    /\ page[p].pc = "failed" => page[p].kept = Nothing
    /\ page[p].pc = "done" /\ page[p].result.by = "google" => p \in bucket

(* Whatever fails, and in whatever order: the circuits hold, and what was  *)
(* recognised once is not lost.                                            *)
RecognitionIsSound == BreakerHolds /\ EvidenceIsKept
===============================================================================
