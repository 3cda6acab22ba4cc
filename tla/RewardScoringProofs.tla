------------------------ MODULE RewardScoringProofs -------------------------
(***************************************************************************)
(* Proofs about RewardScoring, for every set of examples, databases, gold  *)
(* queries and outputs.                                                    *)
(***************************************************************************)
EXTENDS RewardScoring, TLAPS

USE GoldAssumption, CompletionAssumption, NoProcessAssumption, NoTraceAssumption

\* What executing a query gives is a result.
LEMMA ExecutedType == \A sql \in Runnable : Executed(sql) \subseteq Result
  BY DEF Executed, Result, Runnable, Answerable

\* The verifier's verdict is one of its kinds.
LEMMA KindType ==
  ASSUME NEW sql, NEW candidate, NEW gold, NEW found
  PROVE  KindOf(sql, candidate, gold, found) \in Kind \ {"none"}
  BY DEF KindOf, Kind

\* Only an executed answer can be equivalent or earn the credit for empty results.
LEMMA KindNeedsAnswer ==
  ASSUME NEW sql \in Runnable, NEW candidate \in Executed(sql), NEW gold \in Result, NEW found,
         KindOf(sql, candidate, gold, found) = "equivalent"
  PROVE  candidate = "rows"
<1>1. candidate # "failed" /\ sql = "same_rows"
  BY DEF KindOf, Result
<1>2. Executed("same_rows") = {"failed", "rows"}
  BY DEF Executed
<1>3. QED
  BY <1>1, <1>2

\* A reward lies between -1.00 and 1.25.
LEMMA TotalRange ==
  ASSUME NEW o, NEW candidate, NEW kind
  PROVE  Total(o, candidate, kind) \in -100 .. 125
<1>1. FormatReward(o.wrapper) \in -40 .. 5
  BY DEF FormatReward
<1>2. ParseReward(o.sql) \in -40 .. 5
  BY DEF ParseReward
<1>3. o.sql # "unsafe" => SafetyReward(o.sql) \in 0 .. 5
  BY DEF SafetyReward
<1>4. ExecutionReward(candidate) \in 0 .. 10
  BY DEF ExecutionReward
<1>5. CorrectnessReward(kind) \in 0 .. 100
  BY DEF CorrectnessReward
<1> HIDE DEF FormatReward, ParseReward, SafetyReward, ExecutionReward, CorrectnessReward
<1>6. CASE o.sql = "unsafe"
  BY <1>6 DEF Total
<1>7. CASE o.sql # "unsafe"
  <2> DEFINE sum == FormatReward(o.wrapper) + ParseReward(o.sql) + SafetyReward(o.sql)
                    + ExecutionReward(candidate) + CorrectnessReward(kind)
  <2>1. SafetyReward(o.sql) \in 0 .. 5
    BY <1>3, <1>7
  <2>2. sum \in -80 .. 125
    <3>1. \A a \in -40 .. 5, b \in -40 .. 5, c \in 0 .. 5, d \in 0 .. 10, e \in 0 .. 100 :
            a + b + c + d + e \in -80 .. 125
      OBVIOUS
    <3>2. QED
      BY <1>1, <1>2, <2>1, <1>4, <1>5, <3>1
  <2>3. Total(o, candidate, kind) = Clamp(sum)
    BY <1>7 DEF Total
  <2> HIDE DEF sum
  <2>4. QED
    BY <2>2, <2>3 DEF Clamp
<1>8. QED
  BY <1>6, <1>7

\* An equivalent result is worth 0.80 however it is wrapped.
LEMMA EquivalentIsWorth ==
  ASSUME NEW o \in Output, o.sql \in Runnable
  PROVE  Total(o, "rows", "equivalent") >= 80
  BY DEF Total, Clamp, FormatReward, ParseReward, SafetyReward, ExecutionReward,
         CorrectnessReward, Runnable, Answerable

\* Nothing else is worth more than 0.50.
LEMMA OthersAreWorth ==
  ASSUME NEW o, NEW candidate, NEW kind, kind # "equivalent"
  PROVE  Total(o, candidate, kind) <= 50
<1>1. FormatReward(o.wrapper) \in -40 .. 5
  BY DEF FormatReward
<1>2. ParseReward(o.sql) \in -40 .. 5
  BY DEF ParseReward
<1>3. o.sql # "unsafe" => SafetyReward(o.sql) \in 0 .. 5
  BY DEF SafetyReward
<1>4. ExecutionReward(candidate) \in 0 .. 10
  BY DEF ExecutionReward
<1>5. CorrectnessReward(kind) \in 0 .. 25
  BY DEF CorrectnessReward
<1> HIDE DEF FormatReward, ParseReward, SafetyReward, ExecutionReward, CorrectnessReward
<1>6. QED
  BY <1>1, <1>2, <1>3, <1>4, <1>5 DEF Total, Clamp
-----------------------------------------------------------------------------
\* Every gold result a scoring may use belongs to its key.
LEMMA GoldEntriesSound ==
  ASSUME RewardInv, fingerprint # NoProcess, NEW e \in Example, NEW gold \in GoldEntries(e)
  PROVE  /\ fingerprint = database /\ database \in Database
         /\ gold \in Entry /\ gold # NoEntry
         /\ gold.from = database /\ gold.result \in Result
         /\ gold.result \in Executed(GoldOf[<<database, e>>])
         /\ cache[<<database, e>>] # NoEntry => gold = cache[<<database, e>>]
<1>1. fingerprint = database /\ database \in Database
  BY DEF RewardInv, CacheInv, TypeOK
<1> DEFINE key == <<database, e>>
<1>2. key \in Database \X Example
  BY <1>1
<1>3. GoldOf[key] \in Runnable
  BY <1>2
<1>4. Executed(GoldOf[key]) \subseteq Result
  BY <1>3, ExecutedType
<1>5. CASE cache[key] # NoEntry
  <2>1. gold = cache[key]
    BY <1>1, <1>5 DEF GoldEntries
  <2>2. gold \in Entry /\ gold.from = key[1] /\ gold.result \in Executed(GoldOf[key])
    BY <2>1, <1>2, <1>5 DEF RewardInv, TypeOK, CacheInv
  <2>3. QED
    BY <2>1, <2>2, <1>1, <1>4, <1>5
<1>6. CASE cache[key] = NoEntry
  <2>1. gold \in [result : Executed(GoldOf[key]), from : {database}]
    BY <1>1, <1>6 DEF GoldEntries
  <2>2. gold \in [result : Result, from : Database]
    BY <2>1, <1>1, <1>4
  <2>3. "from" \in DOMAIN gold /\ "from" \notin DOMAIN NoEntry
    BY <2>1 DEF NoEntry
  <2>4. QED
    BY <2>1, <2>2, <2>3, <1>1, <1>4, <1>6 DEF Entry
<1>7. QED
  BY <1>5, <1>6

\* Storing a gold result under its key keeps the cache sound.
LEMMA StoreKeepsCache ==
  ASSUME RewardInv, fingerprint # NoProcess, NEW e \in Example, NEW gold \in GoldEntries(e),
         cache' = [cache EXCEPT ![<<fingerprint, e>>] = gold], UNCHANGED database
  PROVE  /\ cache' \in [Database \X Example -> Entry]
         /\ \A key \in Database \X Example :
              cache'[key] # NoEntry =>
                cache'[key].from = key[1] /\ cache'[key].result \in Executed(GoldOf[key])
         /\ cache'[<<database, e>>] = gold
         /\ \A key \in Database \X Example : cache[key] # NoEntry => cache'[key] = cache[key]
<1> DEFINE this == <<database, e>>
<1>1. /\ fingerprint = database /\ this \in Database \X Example
      /\ gold \in Entry /\ gold.from = database
      /\ gold.result \in Executed(GoldOf[this])
      /\ cache[this] # NoEntry => gold = cache[this]
  BY GoldEntriesSound
<1>2. cache \in [Database \X Example -> Entry]
  BY DEF RewardInv, TypeOK
<1>3. cache' = [cache EXCEPT ![this] = gold]
  BY <1>1
<1>4. \A key \in Database \X Example : cache'[key] = IF key = this THEN gold ELSE cache[key]
  BY <1>2, <1>3
<1>5. cache' \in [Database \X Example -> Entry]
  BY <1>1, <1>2, <1>3
<1>6. ASSUME NEW key \in Database \X Example, cache'[key] # NoEntry
      PROVE  cache'[key].from = key[1] /\ cache'[key].result \in Executed(GoldOf[key])
  <2>1. CASE key = this
    BY <2>1, <1>1, <1>4
  <2>2. CASE key # this
    BY <2>2, <1>4, <1>6 DEF RewardInv, CacheInv
  <2>3. QED
    BY <2>1, <2>2
<1>7. QED
  BY <1>1, <1>4, <1>5, <1>6
-----------------------------------------------------------------------------
\* What TraceInv says of one trace.
Justified(t, entries) ==
  /\ t.total = Total(t.completion, t.candidate, t.kind)
  /\ IF t.completion.sql \in Runnable
     THEN /\ t.candidate \in Executed(t.completion.sql)
          /\ t.gold # NoEntry /\ t.gold = entries[<<t.on, t.example>>]
          /\ \E found \in {"known", "lost"} :
               t.kind = KindOf(t.completion.sql, t.candidate, t.gold.result, found)
     ELSE t.candidate = "none" /\ t.gold = NoEntry /\ t.kind = "none"

\* A step that returns a justified trace, and changes no entry of the cache that
\* is there, keeps TraceInv.
LEMMA ReturnKeepsTraces ==
  ASSUME RewardInv, NEW t \in Trace, Justified(t, cache'), Returns(t),
         \A key \in Database \X Example : cache[key] # NoEntry => cache'[key] = cache[key]
  PROVE  /\ TraceInv'
         /\ trace' \in Trace \cup {NoTrace} /\ kept' \in Trace \cup {NoTrace}
<1>1. trace' \in Trace \cup {NoTrace} /\ kept' \in Trace \cup {NoTrace}
  BY DEF Returns, RewardInv, TypeOK
<1>2. ASSUME NEW s \in Scored PROVE Justified(s, cache')
  <2>1. Justified(s, cache) /\ s \in Trace
    <3>1. s \in Trace
      BY <1>2 DEF RewardInv, TypeOK, Scored
    <3>2. Justified(s, cache)
      BY <1>2 DEF RewardInv, TraceInv, Justified
    <3>3. QED
      BY <3>1, <3>2
  <2>2. CASE s.completion.sql \in Runnable
    <3> DEFINE key == <<s.on, s.example>>
    <3>1. key \in Database \X Example
      BY <2>1 DEF Trace
    <3>2. cache[key] # NoEntry /\ s.gold = cache[key]
      BY <2>1, <2>2 DEF Justified
    <3>3. cache'[key] = cache[key]
      BY <3>1, <3>2
    <3>4. QED
      BY <2>1, <2>2, <3>2, <3>3 DEF Justified
  <2>3. CASE s.completion.sql \notin Runnable
    BY <2>1, <2>3 DEF Justified
  <2>4. QED
    BY <2>2, <2>3
<1>3. \A s \in Scored' : s = t \/ s \in Scored
  BY DEF Scored, Returns
<1>4. \A s \in Scored' : Justified(s, cache')
  BY <1>2, <1>3
<1>5. TraceInv'
  BY <1>4 DEF TraceInv, Justified
<1>6. QED
  BY <1>1, <1>5

\* A step that returns nothing and changes no entry that is there keeps TraceInv.
LEMMA QuietKeepsTraces ==
  ASSUME RewardInv, UNCHANGED <<trace, kept>>,
         \A key \in Database \X Example : cache[key] # NoEntry => cache'[key] = cache[key]
  PROVE  TraceInv' /\ trace' \in Trace \cup {NoTrace} /\ kept' \in Trace \cup {NoTrace}
<1>1. trace' \in Trace \cup {NoTrace} /\ kept' \in Trace \cup {NoTrace}
  BY DEF RewardInv, TypeOK
<1>2. ASSUME NEW s \in Scored PROVE Justified(s, cache')
  <2>1. Justified(s, cache) /\ s \in Trace
    BY <1>2 DEF RewardInv, TypeOK, TraceInv, Scored, Justified
  <2> DEFINE key == <<s.on, s.example>>
  <2>2. key \in Database \X Example
    BY <2>1 DEF Trace
  <2>3. QED
    BY <2>1, <2>2 DEF Justified
<1>3. Scored' = Scored
  BY DEF Scored
<1>4. TraceInv'
  BY <1>2, <1>3 DEF TraceInv, Justified
<1>5. QED
  BY <1>1, <1>4

LEMMA InitInv == Init => RewardInv
  BY DEF Init, RewardInv, TypeOK, CacheInv, TraceInv, Scored, Entry

LEMMA NextInv == RewardInv /\ [Next]_vars => RewardInv'
<1> SUFFICES ASSUME RewardInv, [Next]_vars PROVE RewardInv'
  OBVIOUS
<1>1. CASE Start
  <2>1. TraceInv' /\ trace' \in Trace \cup {NoTrace} /\ kept' \in Trace \cup {NoTrace}
    BY <1>1, QuietKeepsTraces DEF Start
  <2>2. QED
    BY <1>1, <2>1 DEF Start, RewardInv, TypeOK, CacheInv
<1>2. CASE Stop
  <2>1. TraceInv' /\ trace' \in Trace \cup {NoTrace} /\ kept' \in Trace \cup {NoTrace}
    BY <1>2, QuietKeepsTraces DEF Stop
  <2>2. QED
    BY <1>2, <2>1 DEF Stop, RewardInv, TypeOK, CacheInv
<1>3. CASE ReplaceDatabase
  <2>1. TraceInv' /\ trace' \in Trace \cup {NoTrace} /\ kept' \in Trace \cup {NoTrace}
    BY <1>3, QuietKeepsTraces DEF ReplaceDatabase
  <2>2. QED
    BY <1>3, <2>1 DEF ReplaceDatabase, RewardInv, TypeOK, CacheInv
<1>4. ASSUME NEW e \in Example, NEW o \in Completion, ScoreUnexecuted(e, o)
      PROVE  RewardInv'
  <2> DEFINE t == [example |-> e, completion |-> o, candidate |-> "none", gold |-> NoEntry,
                   kind |-> "none", total |-> Total(o, "none", "none"), on |-> database]
  <2>1. t \in Trace
    BY TotalRange DEF Trace, Entry, Kind, RewardInv, TypeOK
  <2>2. Justified(t, cache')
    BY <1>4 DEF ScoreUnexecuted, Justified
  <2>3. Returns(t) /\ UNCHANGED <<database, cache, fingerprint, tables>>
    BY <1>4 DEF ScoreUnexecuted
  <2>4. TraceInv' /\ trace' \in Trace \cup {NoTrace} /\ kept' \in Trace \cup {NoTrace}
    BY <2>1, <2>2, <2>3, ReturnKeepsTraces
  <2>5. QED
    BY <2>3, <2>4 DEF RewardInv, TypeOK, CacheInv
<1>5. ASSUME NEW e \in Example, NEW o \in Completion, Score(e, o)
      PROVE  RewardInv'
  <2>1. PICK candidate \in Executed(o.sql), gold \in GoldEntries(e), found \in TableLookups :
          /\ cache' = [cache EXCEPT ![<<fingerprint, e>>] = gold]
          /\ tables' = found
          /\ Returns([example |-> e, completion |-> o, candidate |-> candidate,
                      gold |-> gold, kind |-> KindOf(o.sql, candidate, gold.result, found),
                      total |-> Total(o, candidate, KindOf(o.sql, candidate, gold.result, found)),
                      on |-> database])
    BY <1>5 DEF Score
  <2> DEFINE kind == KindOf(o.sql, candidate, gold.result, found)
             t == [example |-> e, completion |-> o, candidate |-> candidate,
                   gold |-> gold, kind |-> kind, total |-> Total(o, candidate, kind),
                   on |-> database]
  <2>2. fingerprint # NoProcess /\ o.sql \in Runnable /\ UNCHANGED <<database, fingerprint>>
    BY <1>5 DEF Score
  <2>3. gold \in Entry /\ gold # NoEntry /\ fingerprint = database /\ database \in Database
    BY <2>2, GoldEntriesSound
  <2>4. found \in {"known", "lost"}
    BY <1>5 DEF TableLookups, RewardInv, TypeOK
  <2>5. candidate \in Result
    BY <2>2, ExecutedType
  <2>6. t \in Trace
    <3>1. kind \in Kind
      BY KindType
    <3>2. Total(o, candidate, kind) \in -100 .. 125
      BY TotalRange
    <3> HIDE DEF kind
    <3>3. QED
      BY <2>3, <2>5, <3>1, <3>2 DEF Trace
  <2>7. /\ cache' \in [Database \X Example -> Entry]
        /\ \A key \in Database \X Example :
             cache'[key] # NoEntry =>
               cache'[key].from = key[1] /\ cache'[key].result \in Executed(GoldOf[key])
        /\ cache'[<<database, e>>] = gold
        /\ \A key \in Database \X Example : cache[key] # NoEntry => cache'[key] = cache[key]
    BY <2>1, <2>2, StoreKeepsCache
  <2>8. Justified(t, cache')
    BY <2>2, <2>3, <2>4, <2>7 DEF Justified
  <2>9. TraceInv' /\ trace' \in Trace \cup {NoTrace} /\ kept' \in Trace \cup {NoTrace}
    BY <2>1, <2>6, <2>7, <2>8, ReturnKeepsTraces
  <2>10. QED
    BY <2>1, <2>2, <2>3, <2>4, <2>7, <2>9 DEF RewardInv, TypeOK, CacheInv
<1>6. ASSUME NEW e \in Example, NEW o \in Completion, KilledInScore(e, o)
      PROVE  RewardInv'
  <2>1. PICK gold \in GoldEntries(e) : cache' = [cache EXCEPT ![<<fingerprint, e>>] = gold]
    BY <1>6 DEF KilledInScore
  <2>2. /\ fingerprint # NoProcess /\ fingerprint' = NoProcess
        /\ UNCHANGED <<database, tables, trace, kept>>
    BY <1>6 DEF KilledInScore
  <2>3. /\ cache' \in [Database \X Example -> Entry]
        /\ \A key \in Database \X Example :
             cache'[key] # NoEntry =>
               cache'[key].from = key[1] /\ cache'[key].result \in Executed(GoldOf[key])
        /\ \A key \in Database \X Example : cache[key] # NoEntry => cache'[key] = cache[key]
    BY <2>1, <2>2, StoreKeepsCache
  <2>4. TraceInv' /\ trace' \in Trace \cup {NoTrace} /\ kept' \in Trace \cup {NoTrace}
    BY <2>2, <2>3, QuietKeepsTraces
  <2>5. QED
    BY <2>2, <2>3, <2>4 DEF RewardInv, TypeOK, CacheInv
<1>7. CASE UNCHANGED vars
  <2>1. TraceInv' /\ trace' \in Trace \cup {NoTrace} /\ kept' \in Trace \cup {NoTrace}
    BY <1>7, QuietKeepsTraces DEF vars
  <2>2. QED
    BY <1>7, <2>1 DEF vars, RewardInv, TypeOK, CacheInv
<1>8. QED
  BY <1>1, <1>2, <1>3, <1>4, <1>5, <1>6, <1>7 DEF Next

\* The invariant holds in every reachable state.
THEOREM RewardInvariance == Spec => []RewardInv
  BY InitInv, NextInv, PTL DEF Spec

\* Every variable keeps its type; in particular every reward lies between -1.00
\* and 1.25.
THEOREM RewardTypeCorrect == Spec => []TypeOK
<1>1. RewardInv => TypeOK
  BY DEF RewardInv
<1>2. QED
  BY <1>1, RewardInvariance, PTL

\* Correctness outweighs everything else a reward is made of.
THEOREM CorrectOutputsScoreHighest == Spec => []CorrectnessDominates
<1>1. RewardInv => CorrectnessDominates
  <2> SUFFICES ASSUME RewardInv, NEW s \in Scored, NEW t \in Scored,
                      s.kind = "equivalent", t.kind # "equivalent"
               PROVE  s.total > t.total
    BY DEF CorrectnessDominates
  <2>1. s \in Trace /\ t \in Trace
    BY DEF RewardInv, TypeOK, Scored
  <2>2. t.total <= 50
    <3>1. t.total = Total(t.completion, t.candidate, t.kind)
      BY DEF RewardInv, TraceInv
    <3>2. QED
      BY <3>1, OthersAreWorth
  <2>3. s.completion \in Output /\ s.completion.sql \in Runnable
    BY <2>1 DEF Trace, RewardInv, TraceInv
  <2>4. s.candidate = "rows"
    <3>1. PICK found \in {"known", "lost"} :
            s.kind = KindOf(s.completion.sql, s.candidate, s.gold.result, found)
      BY <2>3 DEF RewardInv, TraceInv
    <3>2. s.candidate \in Executed(s.completion.sql) /\ s.gold \in Entry /\ s.gold # NoEntry
      BY <2>1, <2>3 DEF RewardInv, TraceInv, Trace
    <3>3. s.gold.result \in Result
      BY <3>2 DEF Entry
    <3>4. QED
      BY <2>3, <3>1, <3>2, <3>3, KindNeedsAnswer
  <2>5. s.total >= 80
    BY <2>3, <2>4, EquivalentIsWorth DEF RewardInv, TraceInv
  <2>6. s.total \in Int /\ t.total \in Int
    BY <2>1 DEF Trace
  <2>7. QED
    BY <2>2, <2>5, <2>6
<1>2. QED
  BY <1>1, RewardInvariance, PTL

\* The same output earns the same reward again.
THEOREM RewardsAreReproducible == Spec => []RewardReproducible
<1>1. RewardInv => RewardReproducible
  <2> SUFFICES ASSUME RewardInv, NEW s \in Scored, NEW t \in Scored,
                      s.example = t.example, s.completion = t.completion,
                      s.candidate = t.candidate, s.on = t.on,
                      ~(s.gold.result = "empty" /\ s.candidate = "empty")
               PROVE  s.total = t.total
    BY DEF RewardReproducible
  <2>1. s.kind = t.kind
    <3>1. CASE s.completion.sql \in Runnable
      <4>1. s.gold = t.gold
        BY <3>1 DEF RewardInv, TraceInv
      <4>2. PICK f \in {"known", "lost"} :
              s.kind = KindOf(s.completion.sql, s.candidate, s.gold.result, f)
        BY <3>1 DEF RewardInv, TraceInv
      <4>3. PICK g \in {"known", "lost"} :
              t.kind = KindOf(t.completion.sql, t.candidate, t.gold.result, g)
        BY <3>1 DEF RewardInv, TraceInv
      <4>4. QED
        BY <4>1, <4>2, <4>3 DEF KindOf
    <3>2. CASE s.completion.sql \notin Runnable
      BY <3>2 DEF RewardInv, TraceInv
    <3>3. QED
      BY <3>1, <3>2
  <2>2. QED
    BY <2>1 DEF RewardInv, TraceInv
<1>2. QED
  BY <1>1, RewardInvariance, PTL

\* No stale gold result is used.
THEOREM GoldResultsAreFresh == Spec => []GoldIsFresh
<1>1. RewardInv => GoldIsFresh
  <2> SUFFICES ASSUME RewardInv, NEW t \in Scored, t.gold # NoEntry
               PROVE  t.gold.from = t.on
    BY DEF GoldIsFresh
  <2>1. t \in Trace /\ t.completion.sql \in Runnable /\ t.gold = cache[<<t.on, t.example>>]
    BY DEF RewardInv, TypeOK, TraceInv, Scored
  <2> DEFINE key == <<t.on, t.example>>
  <2>2. key \in Database \X Example /\ cache[key] # NoEntry
    BY <2>1 DEF Trace
  <2>3. cache[key].from = key[1]
    BY <2>2 DEF RewardInv, CacheInv
  <2>4. QED
    BY <2>1, <2>3
<1>2. QED
  BY <1>1, RewardInvariance, PTL
=============================================================================
