-------------------------- MODULE MicrophoneProofs --------------------------
(***************************************************************************)
(* Proofs about MicrophoneManager, for queues, thresholds and sessions of  *)
(* any size: speech is told in order and in whole utterances, and close()  *)
(* leaves nothing behind.                                                  *)
(***************************************************************************)
EXTENDS MicrophoneManager, SequenceTheorems, FiniteSetTheorems, TLAPS

Local == [at : {"new", "checking", "waiting", "transcribing", "putting", "evicting",
                "again", "off"},
          pre : Seq(Block), heard : Seq(Block), speech : Nat, silence : Nat]

(* The blocks that a worker holds: the pre-roll, or what it has heard.      *)
Mine(w) == IF worker[w].heard = <<>> THEN worker[w].pre ELSE worker[w].heard

Telling == {"transcribing", "putting", "evicting", "again"}

-----------------------------------------------------------------------------
(* The owner and its worker.  A stop event that is set has no thread to     *)
(* stop but in stop_worker, so a session that is over has no worker; and    *)
(* while close() clears the queues nothing fills them.                      *)
SessionIInv ==
    /\ owner = "starting" => stream = "active" /\ starts \in Worker
    /\ owner \in {"stopping", "joining", "releasing", "clearing"} => stream # "active"
    /\ owner \in {"joining", "releasing", "clearing"} => stop
    /\ stop /\ owner # "joining" => current = NoWorker
    /\ ~outlived => \A w \in Worker : Alive(w) => w = current
    /\ owner = "clearing" => stream = "none" /\ audio = <<>>
    /\ Closed /\ stop /\ ~outlived => audio = <<>> /\ results = <<>>

(* What the parts of an utterance have to do with one another.              *)
Starts(heard, s) ==
    /\ s \in DOMAIN heard /\ heard[s].loud
    /\ \A i \in DOMAIN heard : i < s => ~heard[i].loud

(* The pre-roll is silent.  Of an utterance, speech counts the sounds and   *)
(* silence what came after the last of them, and it is complete when the    *)
(* worker tells it and not before.                                          *)
UtteranceOK(me) ==
    /\ Len(me.pre) <= PreRoll
    /\ \A i \in DOMAIN me.pre : ~me.pre[i].loud
    /\ me.at \in Telling => me.heard # <<>>
    /\ me.heard = <<>> => me.silence = 0
    /\ me.heard # <<>> =>
          /\ me.pre = <<>> /\ Len(me.heard) <= MaxLength
          /\ me.speech = Cardinality(Loud(me.heard, Len(me.heard)))
          /\ me.silence < Len(me.heard) /\ me.heard[Len(me.heard) - me.silence].loud
          /\ \A i \in DOMAIN me.heard : i > Len(me.heard) - me.silence => ~me.heard[i].loud
          /\ \E s \in 1..PreRoll :
                /\ Starts(me.heard, s)
                /\ \A k \in DOMAIN me.heard : k > s =>
                      (Complete(me.heard, k) <=> k = Len(me.heard) /\ me.at \in Telling)

UtteranceIInv == \A w \in Worker : UtteranceOK(worker[w])

(* Blocks are held in the order in which they were recorded ...             *)
Ascending(blocks) == \A i, j \in DOMAIN blocks : i < j => blocks[i].n < blocks[j].n

BlocksOrdered ==
    /\ Ascending(audio)
    /\ \A w \in Worker : Alive(w) =>
          /\ Ascending(Mine(w))
          /\ \A i \in DOMAIN Mine(w), j \in DOMAIN audio : Mine(w)[i].n < audio[j].n

(* ... and so are the texts.                                                *)
TextsOrdered ==
    /\ told <= recorded
    /\ \A i \in DOMAIN results : /\ told < results[i].first
                                 /\ results[i].first <= results[i].last
                                 /\ results[i].last <= recorded
    /\ \A i, j \in DOMAIN results : i < j => results[i].last < results[j].first

(* What is still held comes after all that has been told ...                *)
Has(blocks, n) == \E i \in DOMAIN blocks : blocks[i].n = n

IsHeld(n) == Has(audio, n) \/ \E w \in Worker : Alive(w) /\ Has(Mine(w), n)

HeldIsNew ==
    \A n \in 1..MaxBlocks : IsHeld(n) =>
        told < n /\ n <= recorded /\ \A k \in DOMAIN results : results[k].last < n

(* ... and what was recorded after a block that is still held is held       *)
(* itself, waits in the queue, or was lost when the queue was full.         *)
Kept(n) == n \in dropped \/ Has(audio, n)

KeptIInv ==
    /\ \A n \in 1..recorded, i \in DOMAIN audio : audio[i].n < n => Kept(n)
    /\ \A w \in Worker : Alive(w) =>
          \A n \in 1..recorded, i \in DOMAIN Mine(w) :
              Mine(w)[i].n < n => Kept(n) \/ Has(Mine(w), n)

OrderIInv == BlocksOrdered /\ TextsOrdered /\ HeldIsNew /\ KeptIInv

(* The inductive invariant.  A worker that has outlived its join shares the *)
(* queues with the next one, so it says nothing about order then.           *)
MicIInv ==
    /\ TypeOK /\ SessionIInv /\ UtteranceIInv
    /\ ~outlived => OrderIInv

-----------------------------------------------------------------------------
(* A worker takes a block *)

LEMMA Constants ==
    /\ AudioSize \in Nat /\ AudioSize > 0 /\ ResultSize \in Nat /\ ResultSize > 0
    /\ PreRoll \in Nat /\ PreRoll > 0 /\ MaxLength \in Nat /\ PreRoll < MaxLength
    /\ MinSpeech \in Nat /\ SilenceLimit \in Nat /\ SilenceLimit > 0
    /\ MaxBlocks \in Nat /\ MaxStarts \in Nat
BY MicrophoneAssumption

(* Blocks joined by one more, which may have pushed out the first of them.  *)
Joined(blocks, b, joined) ==
    /\ joined \in Seq(Block) /\ Len(joined) \in Nat \ {0} /\ joined[Len(joined)] = b
    /\ \E d \in {0, 1} :
          /\ Len(joined) + d = Len(blocks) + 1
          /\ \A i \in 1..(Len(joined) - 1) : /\ i + d \in DOMAIN blocks
                                             /\ joined[i] = blocks[i + d]

LEMMA AppendJoins ==
    ASSUME NEW s \in Seq(Block), NEW b \in Block
    PROVE  Joined(s, b, Append(s, b)) /\ Len(Append(s, b)) = Len(s) + 1
<1>1. /\ Append(s, b) \in Seq(Block) /\ Len(Append(s, b)) = Len(s) + 1 /\ Len(s) \in Nat
      /\ \A i \in 1..Len(s) : Append(s, b)[i] = s[i]
      /\ Append(s, b)[Len(s) + 1] = b
  BY AppendProperties
<1>2. \A i \in 1..(Len(Append(s, b)) - 1) : i + 0 \in DOMAIN s /\ Append(s, b)[i] = s[i + 0]
  BY <1>1
<1>3. QED
  BY <1>1, <1>2 DEF Joined

(* deque(maxlen=pre_roll_block_count) holds no more than that.              *)
LEMMA RolledJoins ==
    ASSUME NEW pre \in Seq(Block), NEW b \in Block, Len(pre) <= PreRoll
    PROVE  Joined(pre, b, Rolled(pre, b)) /\ Len(Rolled(pre, b)) <= PreRoll
<1> DEFINE all == Append(pre, b)
<1>1. /\ all \in Seq(Block) /\ Len(all) = Len(pre) + 1 /\ Len(pre) \in Nat
      /\ all # <<>>
      /\ \A i \in 1..Len(pre) : all[i] = pre[i]
      /\ all[Len(pre) + 1] = b
  BY AppendProperties
<1>2. Rolled(pre, b) = IF Len(all) > PreRoll THEN Tail(all) ELSE all
  BY DEF Rolled
<1> HIDE DEF all
<1>3. CASE Len(all) <= PreRoll
  <2>1. Rolled(pre, b) = all
    BY <1>1, <1>2, <1>3, Constants
  <2>2. QED
    BY <1>3, <2>1, AppendJoins DEF all
<1>4. CASE Len(all) > PreRoll
  <2>1. Rolled(pre, b) = Tail(all) /\ Len(pre) = PreRoll
    BY <1>1, <1>2, <1>4, Constants
  <2>2. /\ Tail(all) \in Seq(Block) /\ Len(Tail(all)) = Len(pre)
        /\ \A i \in 1..Len(pre) : Tail(all)[i] = all[i + 1]
    BY <1>1, HeadTailProperties
  <2>3. Tail(all)[Len(pre)] = b /\ Len(pre) \in Nat \ {0}
    BY <1>1, <2>1, <2>2, Constants
  <2>4. \A i \in 1..(Len(pre) - 1) : i + 1 \in DOMAIN pre /\ Tail(all)[i] = pre[i + 1]
    BY <1>1, <2>2
  <2>5. QED
    BY <2>1, <2>2, <2>3, <2>4 DEF Joined
<1>5. QED
  BY <1>1, <1>3, <1>4, Constants

LEMMA HeadAndTail ==
    ASSUME NEW S, NEW s \in Seq(S), s # <<>>
    PROVE  /\ Head(s) = s[1] /\ 1 \in DOMAIN s /\ Head(s) \in S
           /\ Tail(s) \in Seq(S) /\ Len(Tail(s)) = Len(s) - 1
           /\ \A i \in DOMAIN Tail(s) : i + 1 \in DOMAIN s /\ Tail(s)[i] = s[i + 1]
<1>1. Len(s) \in Nat \ {0} /\ Head(s) = s[1]
  OBVIOUS
<1>2. /\ Head(s) \in S /\ Tail(s) \in Seq(S) /\ Len(Tail(s)) = Len(s) - 1
      /\ \A i \in 1..Len(Tail(s)) : Tail(s)[i] = s[i + 1]
  BY HeadTailProperties
<1>3. QED
  BY <1>1, <1>2

-----------------------------------------------------------------------------
(* Utterances *)

LEMMA LoudGrows ==
    ASSUME NEW s \in Seq(Block), NEW b \in Block
    PROVE  LET t == Append(s, b)
               n == Len(s)
           IN  /\ \A k \in 0..n : Loud(t, k) = Loud(s, k)
               /\ Loud(t, n + 1) = IF b.loud THEN Loud(s, n) \cup {n + 1} ELSE Loud(s, n)
               /\ Cardinality(Loud(t, n + 1)) =
                     Cardinality(Loud(s, n)) + (IF b.loud THEN 1 ELSE 0)
               /\ Cardinality(Loud(s, n)) \in Nat
<1> DEFINE t == Append(s, b)
           n == Len(s)
<1>1. /\ t \in Seq(Block) /\ Len(t) = n + 1 /\ n \in Nat
      /\ \A i \in 1..n : t[i] = s[i]
      /\ t[n + 1] = b
  BY AppendProperties
<1> HIDE DEF t
<1>2. \A k \in 0..n : Loud(t, k) = Loud(s, k)
  BY <1>1 DEF Loud
<1>3. Loud(t, n + 1) = IF b.loud THEN Loud(s, n) \cup {n + 1} ELSE Loud(s, n)
  BY <1>1 DEF Loud
<1>4. Loud(s, n) \in SUBSET (1..n) /\ IsFiniteSet(1..n)
  BY <1>1, FS_Interval DEF Loud
<1>5. IsFiniteSet(Loud(s, n)) /\ n + 1 \notin Loud(s, n)
  BY <1>1, <1>4, FS_Subset
<1>6. Cardinality(Loud(s, n)) \in Nat
  BY <1>5, FS_CardinalityType
<1>7. Cardinality(Loud(s, n) \cup {n + 1}) = Cardinality(Loud(s, n)) + 1
  BY <1>5, FS_AddElement
<1>8. Cardinality(Loud(t, n + 1)) = Cardinality(Loud(s, n)) + (IF b.loud THEN 1 ELSE 0)
  BY <1>3, <1>6, <1>7
<1>9. QED
  BY <1>2, <1>3, <1>6, <1>8 DEF t

LEMMA WaitedOK ==
    ASSUME NEW me \in Local, NEW b \in Block, UtteranceOK(me), me.at = "waiting",
           me.heard = <<>>
    PROVE  UtteranceOK(Waited(me, b)) /\ Waited(me, b) \in Local
<1> DEFINE r == Rolled(me.pre, b)
<1>1. me.pre \in Seq(Block) /\ me.silence = 0 /\ Len(me.pre) <= PreRoll
      /\ \A i \in DOMAIN me.pre : ~me.pre[i].loud
  BY DEF Local, UtteranceOK
<1>2. Joined(me.pre, b, r) /\ Len(r) <= PreRoll
  BY <1>1, RolledJoins
<1>3. Waited(me, b) =
        IF b.loud
        THEN [me EXCEPT !.at = "checking", !.pre = <<>>, !.heard = r, !.speech = 1]
        ELSE [me EXCEPT !.at = "checking", !.pre = r]
  BY DEF Waited
<1> HIDE DEF r
<1> DEFINE n == Len(r)
<1>4. r \in Seq(Block) /\ n \in Nat \ {0} /\ r[n] = b /\ DOMAIN r = 1..n /\ r # <<>>
  BY <1>2 DEF Joined
<1>5. \A i \in 1..(n - 1) : ~r[i].loud
  BY <1>1, <1>2 DEF Joined
<1>6. "checking" \notin Telling
  BY DEF Telling
<1>7. CASE ~b.loud
  <2>1. \A i \in DOMAIN r : ~r[i].loud
    BY <1>4, <1>5, <1>7
  <2>2. Waited(me, b) = [me EXCEPT !.at = "checking", !.pre = r]
    BY <1>3, <1>7
  <2>3. QED
    BY <1>1, <1>2, <1>4, <1>6, <2>1, <2>2 DEF UtteranceOK, Local
<1>8. CASE b.loud
  <2> DEFINE new == Waited(me, b)
  <2>1. new = [me EXCEPT !.at = "checking", !.pre = <<>>, !.heard = r, !.speech = 1]
    BY <1>3, <1>8
  <2>2. new \in Local
    <3>1. <<>> \in Seq(Block) /\ r \in Seq(Block) /\ 1 \in Nat
      BY <1>4
    <3> HIDE DEF new
    <3>2. QED
      BY <2>1, <3>1 DEF Local
  <2>3. /\ new.at = "checking" /\ new.pre = <<>> /\ new.heard = r
        /\ new.speech = 1 /\ new.silence = 0
    BY <1>1, <2>1 DEF Local
  <2> HIDE DEF new
  <2>4. Loud(r, n) = {n}
    BY <1>4, <1>5, <1>8 DEF Loud
  <2>5. Cardinality(Loud(r, n)) = 1
    BY <2>4, FS_Singleton
  <2>6. Starts(r, n) /\ n \in 1..PreRoll /\ n <= MaxLength
    BY <1>2, <1>4, <1>5, <1>8, Constants DEF Starts
  <2>7. \A k \in DOMAIN r : ~(k > n)
    BY <1>4
  <2>8. /\ 0 < n /\ r[n - 0].loud
        /\ \A i \in DOMAIN r : ~(i > n - 0)
    BY <1>4, <1>8
  <2>9. UtteranceOK(new)
    <3>1. Len(new.pre) <= PreRoll /\ \A i \in DOMAIN new.pre : ~new.pre[i].loud
      BY <2>3, Constants
    <3>2. \E s \in 1..PreRoll :
             /\ Starts(new.heard, s)
             /\ \A k \in DOMAIN new.heard : k > s =>
                   (Complete(new.heard, k) <=> k = Len(new.heard) /\ new.at \in Telling)
      BY <2>3, <2>6, <2>7
    <3>3. QED
      BY <1>4, <1>6, <2>3, <2>5, <2>6, <2>8, <3>1, <3>2 DEF UtteranceOK
  <2>10. QED
    BY <2>2, <2>9 DEF new
<1>9. QED
  BY <1>7, <1>8

LEMMA ListenedOK ==
    ASSUME NEW me \in Local, NEW b \in Block, UtteranceOK(me), me.at = "waiting",
           me.heard # <<>>
    PROVE  UtteranceOK(Listened(me, b)) /\ Listened(me, b) \in Local
<1> DEFINE n == Len(me.heard)
           t == Append(me.heard, b)
           speech == me.speech + (IF b.loud THEN 1 ELSE 0)
           silence == IF b.loud THEN 0 ELSE me.silence + 1
           over == (speech >= MinSpeech /\ silence >= SilenceLimit) \/ n + 1 >= MaxLength
           at == IF over THEN "transcribing" ELSE "checking"
           new == Listened(me, b)
<1>1. /\ me.heard \in Seq(Block) /\ me.speech \in Nat /\ me.silence \in Nat
      /\ me.pre = <<>> /\ n \in Nat \ {0} /\ n <= MaxLength
      /\ me.speech = Cardinality(Loud(me.heard, n))
      /\ me.silence < n /\ me.heard[n - me.silence].loud
      /\ \A i \in 1..n : i > n - me.silence => ~me.heard[i].loud
  BY DEF Local, UtteranceOK
<1>2. /\ t \in Seq(Block) /\ Len(t) = n + 1 /\ DOMAIN t = 1..(n + 1) /\ t # <<>>
      /\ \A i \in 1..n : t[i] = me.heard[i]
      /\ t[n + 1] = b
  BY <1>1, AppendProperties
<1>3. /\ \A k \in 0..n : Loud(t, k) = Loud(me.heard, k)
      /\ Cardinality(Loud(t, n + 1)) = speech
  BY <1>1, LoudGrows
<1>4. new = [me EXCEPT !.at = at, !.heard = t, !.speech = speech, !.silence = silence]
  BY <1>2 DEF Listened
<1>5. /\ new.at = at /\ new.heard = t /\ new.speech = speech /\ new.silence = silence
      /\ new.pre = <<>>
  BY <1>1, <1>4 DEF Local
<1>6. speech \in Nat /\ silence \in Nat /\ b.loud \in BOOLEAN
  BY <1>1 DEF Block
<1>7. new \in Local
  <2>1. at \in {"transcribing", "checking"} /\ t \in Seq(Block)
    BY <1>2
  <2> HIDE DEF at, t, speech, silence, over, new
  <2>2. QED
    BY <1>4, <1>6, <2>1 DEF Local
<1> HIDE DEF t, new
<1>8. /\ silence < n + 1 /\ t[n + 1 - silence].loud
      /\ \A i \in 1..(n + 1) : i > n + 1 - silence => ~t[i].loud
  <2>1. CASE b.loud
    BY <1>1, <1>2, <2>1
  <2>2. CASE ~b.loud
    <3>1. silence = me.silence + 1 /\ n + 1 - silence = n - me.silence
          /\ n - me.silence \in 1..n
      BY <1>1, <2>2
    <3>2. t[n - me.silence].loud
      BY <1>1, <1>2, <3>1
    <3>3. ASSUME NEW i \in 1..(n + 1), i > n - me.silence PROVE ~t[i].loud
      <4>1. i \in 1..n \/ i = n + 1
        BY <1>1
      <4>2. QED
        BY <1>1, <1>2, <2>2, <3>3, <4>1
    <3>4. QED
      BY <1>1, <3>1, <3>2, <3>3
  <2>3. QED
    BY <2>1, <2>2
<1>9. PICK s \in 1..PreRoll :
         /\ Starts(me.heard, s)
         /\ \A k \in DOMAIN me.heard : k > s => ~Complete(me.heard, k)
  <2>1. me.at \notin Telling
    BY DEF Telling
  <2>2. QED
    BY <2>1 DEF UtteranceOK
<1>10. s \in 1..n /\ Starts(t, s)
  <2>1. s \in 1..n /\ me.heard[s].loud /\ \A i \in 1..n : i < s => ~me.heard[i].loud
    BY <1>1, <1>9 DEF Starts
  <2>2. \A i \in DOMAIN t : i < s => i \in 1..n
    BY <1>1, <1>2, <2>1
  <2>3. s \in DOMAIN t /\ t[s] = me.heard[s]
    BY <1>1, <1>2, <2>1
  <2>4. \A i \in DOMAIN t : i < s => t[i] = me.heard[i]
    BY <1>2, <2>2
  <2>5. QED
    BY <2>1, <2>2, <2>3, <2>4 DEF Starts
<1>11. n < MaxLength
  <2>1. CASE n = s
    BY <2>1, Constants
  <2>2. CASE n > s
    <3>1. ~Complete(me.heard, n)
      BY <1>1, <1>9, <2>2
    <3>2. QED
      BY <1>1, <3>1, Constants DEF Complete
  <2>3. QED
    BY <1>1, <1>10, <2>1, <2>2
<1>12. \A k \in 1..n : k > s => ~Complete(t, k)
  <2> SUFFICES ASSUME NEW k \in 1..n, k > s, Complete(t, k) PROVE FALSE
    OBVIOUS
  <2>1. Loud(t, k) = Loud(me.heard, k)
    BY <1>1, <1>3
  <2>2. \A i \in 1..k : t[i] = me.heard[i]
    BY <1>1, <1>2
  <2>3. Complete(me.heard, k)
    BY <2>1, <2>2 DEF Complete
  <2>4. QED
    BY <1>1, <1>9, <2>3
<1>13. Complete(t, n + 1) <=> over
  <2>1. n + 1 >= MaxLength <=> n + 1 = MaxLength
    BY <1>1, <1>11, Constants
  <2>2. (\A i \in 1..(n + 1) : i > n + 1 - SilenceLimit => ~t[i].loud)
          <=> silence >= SilenceLimit
    <3>1. n + 1 - silence \in 1..(n + 1)
      BY <1>1, <1>6, <1>8
    <3>2. CASE silence >= SilenceLimit
      BY <1>1, <1>6, <1>8, <3>2, Constants
    <3>3. CASE ~(silence >= SilenceLimit)
      <4>1. n + 1 - silence > n + 1 - SilenceLimit
        BY <1>1, <1>6, <3>3, Constants
      <4>2. QED
        BY <1>8, <3>1, <3>3, <4>1
    <3>4. QED
      BY <3>2, <3>3
  <2>3. Cardinality(Loud(t, n + 1)) = speech
    BY <1>3
  <2> DEFINE Pause == \A i \in 1..(n + 1) : i > n + 1 - SilenceLimit => ~t[i].loud
  <2>4. Complete(t, n + 1) <=>
           n + 1 = MaxLength \/ (Cardinality(Loud(t, n + 1)) >= MinSpeech /\ Pause)
    BY <1>1, <1>2, Constants DEF Complete
  <2>5. Pause <=> silence >= SilenceLimit
    BY <2>2
  <2> HIDE DEF speech, silence, Pause
  <2>6. QED
    BY <2>1, <2>3, <2>4, <2>5
<1>14. at \in Telling <=> over
  BY DEF Telling
<1>15. \A k \in DOMAIN t : k > s => (Complete(t, k) <=> k = n + 1 /\ at \in Telling)
  <2> SUFFICES ASSUME NEW k \in 1..(n + 1), k > s
               PROVE  Complete(t, k) <=> k = n + 1 /\ at \in Telling
    BY <1>2
  <2>1. k \in 1..n \/ k = n + 1
    BY <1>1
  <2>2. k \in 1..n => k # n + 1
    BY <1>1
  <2> HIDE DEF at, over
  <2>3. QED
    BY <1>12, <1>13, <1>14, <2>1, <2>2
<1>16. UtteranceOK(new)
  <2>1. Len(new.pre) <= PreRoll /\ \A i \in DOMAIN new.pre : ~new.pre[i].loud
    BY <1>5, Constants
  <2>2. new.heard # <<>> /\ Len(new.heard) = n + 1 /\ n + 1 <= MaxLength
    BY <1>1, <1>2, <1>5, <1>11, Constants
  <2>3. /\ new.speech = Cardinality(Loud(new.heard, n + 1))
        /\ new.silence < n + 1 /\ new.heard[n + 1 - new.silence].loud
        /\ \A i \in DOMAIN new.heard : i > n + 1 - new.silence => ~new.heard[i].loud
    BY <1>2, <1>3, <1>5, <1>8
  <2>4. \A k \in DOMAIN new.heard : k > s =>
           (Complete(new.heard, k) <=> k = n + 1 /\ new.at \in Telling)
    BY <1>5, <1>15
  <2>5. Starts(new.heard, s)
    BY <1>5, <1>10
  <2>6. \E u \in 1..PreRoll :
           /\ Starts(new.heard, u)
           /\ \A k \in DOMAIN new.heard : k > u =>
                 (Complete(new.heard, k) <=> k = Len(new.heard) /\ new.at \in Telling)
    BY <2>2, <2>4, <2>5
  <2>7. /\ new.speech = Cardinality(Loud(new.heard, Len(new.heard)))
        /\ new.silence < Len(new.heard)
        /\ new.heard[Len(new.heard) - new.silence].loud
        /\ \A i \in DOMAIN new.heard :
              i > Len(new.heard) - new.silence => ~new.heard[i].loud
    <3>1. new.heard \in Seq(Block) /\ new.silence \in Nat /\ n \in Nat
      BY <1>1, <1>7 DEF Local
    <3>2. new.speech = Cardinality(Loud(new.heard, Len(new.heard)))
      BY <2>2, <2>3, <3>1
    <3>3. new.silence < Len(new.heard) /\ new.heard[Len(new.heard) - new.silence].loud
      BY <2>2, <2>3, <3>1
    <3>4. \A i \in DOMAIN new.heard :
             i > Len(new.heard) - new.silence => ~new.heard[i].loud
      BY <2>2, <2>3, <3>1
    <3>5. QED
      BY <3>2, <3>3, <3>4
  <2>8. new.pre = <<>> /\ Len(new.heard) <= MaxLength
    BY <1>5, <2>2
  <2> HIDE DEF new, n
  <2>9. QED
    BY <2>1, <2>2, <2>6, <2>7, <2>8, Zenon DEF UtteranceOK
<1>17. QED
  BY <1>7, <1>16 DEF new

-----------------------------------------------------------------------------
(* The worker's steps *)

LEMMA FreshOK ==
    /\ Fresh \in Local /\ UtteranceOK(Fresh)
    /\ [Fresh EXCEPT !.at = "new"] \in Local /\ UtteranceOK([Fresh EXCEPT !.at = "new"])
<1>1. <<>> \in Seq(Block) /\ Len(<<>>) = 0 /\ DOMAIN <<>> = {}
  BY EmptySeq
<1>2. Fresh = [at |-> "checking", pre |-> <<>>, heard |-> <<>>, speech |-> 0, silence |-> 0]
  BY DEF Fresh
<1>3. [Fresh EXCEPT !.at = "new"] =
        [at |-> "new", pre |-> <<>>, heard |-> <<>>, speech |-> 0, silence |-> 0]
  BY DEF Fresh
<1>4. \A a \in {"new", "checking"} :
         LET me == [at |-> a, pre |-> <<>>, heard |-> <<>>, speech |-> 0, silence |-> 0]
         IN  me \in Local /\ UtteranceOK(me)
  BY <1>1, Constants DEF Local, UtteranceOK, Telling
<1>5. QED
  BY <1>2, <1>3, <1>4

(* A worker goes on without having touched its blocks.                      *)
LEMMA GoesOn ==
    ASSUME NEW me \in Local, UtteranceOK(me),
           NEW a \in {"new", "checking", "waiting", "transcribing", "putting", "evicting",
                      "again", "off"},
           a \in Telling <=> me.at \in Telling
    PROVE  [me EXCEPT !.at = a] \in Local /\ UtteranceOK([me EXCEPT !.at = a])
<1> DEFINE new == [me EXCEPT !.at = a]
<1>1. new \in Local /\ new.at = a /\ new.pre = me.pre /\ new.heard = me.heard
      /\ new.speech = me.speech /\ new.silence = me.silence
  BY DEF Local
<1> HIDE DEF new
<1>2. UtteranceOK(new)
  <2>1. CASE me.heard = <<>>
    BY <1>1, <2>1 DEF UtteranceOK
  <2>2. CASE me.heard # <<>>
    <3>1. PICK s \in 1..PreRoll :
             /\ Starts(me.heard, s)
             /\ \A k \in DOMAIN me.heard : k > s =>
                   (Complete(me.heard, k) <=> k = Len(me.heard) /\ me.at \in Telling)
      BY <2>2 DEF UtteranceOK
    <3>2. /\ Starts(new.heard, s)
          /\ \A k \in DOMAIN new.heard : k > s =>
                (Complete(new.heard, k) <=> k = Len(new.heard) /\ new.at \in Telling)
      BY <1>1, <3>1
    <3>3. /\ Len(new.pre) <= PreRoll /\ new.pre = <<>> /\ Len(new.heard) <= MaxLength
          /\ new.speech = Cardinality(Loud(new.heard, Len(new.heard)))
          /\ new.silence < Len(new.heard)
          /\ new.heard[Len(new.heard) - new.silence].loud
          /\ \A i \in DOMAIN new.pre : ~new.pre[i].loud
          /\ \A i \in DOMAIN new.heard :
                i > Len(new.heard) - new.silence => ~new.heard[i].loud
      BY <1>1, <2>2 DEF UtteranceOK
    <3>4. new.heard # <<>>
      BY <1>1, <2>2
    <3>5. QED
      BY <3>2, <3>3, <3>4 DEF UtteranceOK
  <2>3. QED
    BY <2>1, <2>2
<1>3. QED
  BY <1>1, <1>2 DEF new

LEMMA TypesUnfolded ==
    ASSUME TypeOK
    PROVE  /\ worker \in [Worker -> Local] /\ audio \in Seq(Block) /\ results \in Seq(Text)
           /\ \A w \in Worker : worker[w] \in Local /\ Mine(w) \in Seq(Block)
<1>1. worker \in [Worker -> Local] /\ audio \in Seq(Block) /\ results \in Seq(Text)
  BY DEF TypeOK, Local
<1>2. \A w \in Worker : worker[w] \in Local
  BY <1>1
<1>3. \A w \in Worker : worker[w].pre \in Seq(Block) /\ worker[w].heard \in Seq(Block)
  BY <1>2 DEF Local
<1>4. QED
  BY <1>1, <1>2, <1>3 DEF Mine

LEMMA TextOfUtterance ==
    ASSUME TypeOK, UtteranceIInv, NEW w \in Worker, worker[w].at \in Telling
    PROVE  /\ TextOf(w) \in Text /\ Mine(w) = worker[w].heard
           /\ 1 \in DOMAIN Mine(w) /\ Len(Mine(w)) \in DOMAIN Mine(w)
           /\ TextOf(w).first = Mine(w)[1].n /\ TextOf(w).last = Mine(w)[Len(Mine(w))].n
<1>1. worker[w].heard # <<>> /\ worker[w].heard \in Seq(Block)
  BY TypesUnfolded DEF UtteranceIInv, UtteranceOK, Local
<1> DEFINE h == worker[w].heard
<1>2. Len(h) \in Nat \ {0} /\ Head(h) = h[1] /\ h[1] \in Block /\ h[Len(h)] \in Block
  BY <1>1
<1>3. TextOf(w) = [first |-> h[1].n, last |-> h[Len(h)].n]
  BY <1>2 DEF TextOf, Last
<1>4. h[1].n \in 1..MaxBlocks /\ h[Len(h)].n \in 1..MaxBlocks
  BY <1>2 DEF Block
<1>5. Mine(w) = h
  BY <1>1 DEF Mine
<1>6. TextOf(w) \in Text
  BY <1>3, <1>4 DEF Text
<1> HIDE DEF h
<1>7. DOMAIN h = 1..Len(h)
  BY <1>1 DEF h
<1>8. QED
  BY <1>2, <1>3, <1>5, <1>6, <1>7 DEF h

(* Whatever a worker does, it stays as the invariant wants it.              *)
LEMMA WorkerMoves ==
    ASSUME TypeOK, UtteranceIInv, NEW w \in Worker, WorkerStep(w)
    PROVE  \E me \in Local : UtteranceOK(me) /\ Becomes(w, me) /\ Alive(w)
<1>1. worker[w] \in Local /\ UtteranceOK(worker[w]) /\ audio \in Seq(Block)
  BY TypesUnfolded DEF UtteranceIInv
<1>2. CASE CheckStop(w)
  <2> DEFINE a == IF stop THEN "off" ELSE "waiting"
  <2>1. a \in {"off", "waiting"} /\ a \notin Telling /\ worker[w].at \notin Telling
    BY <1>2 DEF CheckStop, Telling
  <2>2. Becomes(w, [worker[w] EXCEPT !.at = a]) /\ Alive(w)
    BY <1>2 DEF CheckStop, Alive
  <2> HIDE DEF a
  <2>3. QED
    BY <1>1, <2>1, <2>2, GoesOn
<1>3. CASE GetTimesOut(w)
  <2>1. worker[w].at \notin Telling /\ "checking" \notin Telling
    BY <1>3 DEF GetTimesOut, Telling
  <2>2. Becomes(w, [worker[w] EXCEPT !.at = "checking"]) /\ Alive(w)
    BY <1>3 DEF GetTimesOut, Alive
  <2>3. QED
    BY <1>1, <2>1, <2>2, GoesOn
<1>4. CASE GetBlock(w)
  <2>1. worker[w].at = "waiting" /\ audio # <<>> /\ Head(audio) \in Block /\ Alive(w)
    BY <1>1, <1>4, HeadAndTail DEF GetBlock, Alive
  <2>2. CASE worker[w].heard = <<>>
    <3>1. Becomes(w, Waited(worker[w], Head(audio)))
      BY <1>4, <2>2 DEF GetBlock
    <3>2. QED
      BY <1>1, <2>1, <2>2, <3>1, WaitedOK
  <2>3. CASE worker[w].heard # <<>>
    <3>1. Becomes(w, Listened(worker[w], Head(audio)))
      BY <1>4, <2>3 DEF GetBlock
    <3>2. QED
      BY <1>1, <2>1, <2>3, <3>1, ListenedOK
  <2>4. QED
    BY <2>2, <2>3
<1>5. CASE Transcribe(w)
  <2>1. worker[w].at \in Telling /\ "putting" \in Telling /\ Alive(w)
    BY <1>5 DEF Transcribe, Telling, Alive
  <2>2. Becomes(w, [worker[w] EXCEPT !.at = "putting"]) \/ Becomes(w, Fresh)
    BY <1>5 DEF Transcribe, NextUtterance
  <2>3. QED
    BY <1>1, <2>1, <2>2, GoesOn, FreshOK
<1>6. CASE PutResult(w)
  <2>1. worker[w].at \in Telling /\ "evicting" \in Telling /\ Alive(w)
    BY <1>6 DEF PutResult, Telling, Alive
  <2>2. Becomes(w, [worker[w] EXCEPT !.at = "evicting"]) \/ Becomes(w, Fresh)
    BY <1>6 DEF PutResult, NextUtterance
  <2>3. QED
    BY <1>1, <2>1, <2>2, GoesOn, FreshOK
<1>7. CASE EvictResult(w)
  <2>1. worker[w].at \in Telling /\ "again" \in Telling /\ Alive(w)
    BY <1>7 DEF EvictResult, Telling, Alive
  <2>2. Becomes(w, [worker[w] EXCEPT !.at = "again"])
    BY <1>7 DEF EvictResult
  <2>3. QED
    BY <1>1, <2>1, <2>2, GoesOn
<1>8. QED
  BY <1>2, <1>3, <1>4, <1>5, <1>6, <1>7 DEF WorkerStep

-----------------------------------------------------------------------------
(* Types, utterances and sessions *)

LEMMA InitOK == Init => MicIInv
<1> SUFFICES ASSUME Init PROVE MicIInv
  OBVIOUS
<1>1. \A w \in Worker : worker[w] = [Fresh EXCEPT !.at = "new"]
  BY DEF Init
<1>2. worker \in [Worker -> Local]
  BY <1>1, FreshOK DEF Init
<1>3. audio \in Seq(Block) /\ results \in Seq(Text) /\ Len(audio) = 0 /\ Len(results) = 0
  BY EmptySeq DEF Init
<1>4. TypeOK
  <2>1. /\ owner = "idle" /\ stream = "none" /\ stop = FALSE /\ current = NoWorker
        /\ starts = 0 /\ recorded = 0 /\ dropped = {} /\ told = 0 /\ outlived = FALSE
    BY DEF Init
  <2>2. starts \in 0..MaxStarts /\ recorded \in 0..MaxBlocks /\ told \in 0..MaxBlocks
        /\ Len(audio) <= AudioSize /\ Len(results) <= ResultSize
    BY <1>3, <2>1, Constants
  <2>3. QED
    BY <1>2, <1>3, <2>1, <2>2 DEF TypeOK, Local
<1>5. UtteranceIInv
  BY <1>1, FreshOK DEF UtteranceIInv
<1>6. \A w \in Worker : ~Alive(w)
  BY <1>1 DEF Alive, Fresh
<1>7. SessionIInv
  BY <1>6 DEF SessionIInv, Init, Closed
<1>8. OrderIInv
  <2>1. DOMAIN audio = {} /\ DOMAIN results = {} /\ told = 0 /\ recorded = 0
    BY DEF Init
  <2>2. QED
    BY <1>6, <2>1
       DEF OrderIInv, BlocksOrdered, Ascending, TextsOrdered, HeldIsNew, IsHeld, Has, KeptIInv
<1>9. QED
  BY <1>4, <1>5, <1>7, <1>8 DEF MicIInv

LEMMA WorkersKept ==
    ASSUME TypeOK, UtteranceIInv, Next
    PROVE  worker' \in [Worker -> Local] /\ UtteranceIInv'
<1>1. worker \in [Worker -> Local] /\ \A w \in Worker : UtteranceOK(worker[w])
  BY TypesUnfolded DEF UtteranceIInv
<1>2. ASSUME NEW w \in Worker, WorkerStep(w)
      PROVE  worker' \in [Worker -> Local] /\ UtteranceIInv'
  <2>1. PICK me \in Local : UtteranceOK(me) /\ worker' = [worker EXCEPT ![w] = me]
    BY <1>2, WorkerMoves DEF Becomes
  <2>2. QED
    BY <1>1, <2>1 DEF UtteranceIInv
<1>3. CASE StartWorker
  <2>1. worker' = worker \/ worker' = [worker EXCEPT ![starts] = Fresh]
    BY <1>3 DEF StartWorker
  <2>2. worker' \in [Worker -> Local] /\ \A w \in Worker : worker'[w] \in {worker[w], Fresh}
    BY <1>1, <2>1, FreshOK
  <2>3. QED
    BY <1>1, <2>2, FreshOK DEF UtteranceIInv
<1>4. CASE AudioCallback \/ ReadText \/ StartStream \/ StopStream \/ Closing
  <2>1. worker' = worker
    BY <1>4 DEF AudioCallback, ReadText, StartStream, StopStream, Closing, StopWorker,
                JoinWorker, CloseStream, ClearResults
  <2>2. QED
    BY <1>1, <2>1 DEF UtteranceIInv
<1>5. QED
  BY <1>2, <1>3, <1>4 DEF Next

LEMMA TypesKept ==
    ASSUME TypeOK, UtteranceIInv, SessionIInv, Next
    PROVE  TypeOK'
<1>1. worker' \in [Worker -> Local] /\ audio \in Seq(Block) /\ results \in Seq(Text)
  BY WorkersKept, TypesUnfolded
<1>2. CASE AudioCallback
  <2>1. recorded' \in 1..MaxBlocks
    BY <1>2, Constants DEF AudioCallback, TypeOK
  <2>2. audio' \in Seq(Block) /\ Len(audio') <= AudioSize
    <3>1. PICK loud \in BOOLEAN :
             \/ Len(audio) < AudioSize /\ audio' = Append(audio, [n |-> recorded', loud |-> loud])
             \/ audio' = audio
      BY <1>2 DEF AudioCallback
    <3>2. [n |-> recorded', loud |-> loud] \in Block
      BY <2>1 DEF Block
    <3>3. CASE audio' = Append(audio, [n |-> recorded', loud |-> loud])
               /\ Len(audio) < AudioSize
      BY <1>1, <3>2, <3>3, AppendProperties, Constants
    <3>4. QED
      BY <3>1, <3>3 DEF TypeOK
  <2>3. dropped' \subseteq 1..MaxBlocks
    BY <1>2, <2>1 DEF AudioCallback, TypeOK
  <2>4. QED
    BY <1>1, <1>2, <2>1, <2>2, <2>3 DEF AudioCallback, TypeOK, Local
<1>3. ASSUME NEW w \in Worker, WorkerStep(w) PROVE TypeOK'
  <2>1. /\ owner' = owner /\ stream' = stream /\ stop' = stop /\ current' = current
        /\ starts' = starts /\ recorded' = recorded /\ dropped' = dropped
        /\ told' = told /\ outlived' = outlived
    BY <1>3, WorkerMoves DEF Becomes
  <2>2. audio' \in Seq(Block) /\ Len(audio') <= AudioSize
    <3>1. audio' = audio \/ (audio # <<>> /\ audio' = Tail(audio))
      BY <1>3 DEF WorkerStep, CheckStop, GetTimesOut, GetBlock, Transcribe, PutResult,
                  EvictResult
    <3>2. CASE audio # <<>> /\ audio' = Tail(audio)
      BY <1>1, <3>2, HeadTailProperties, Constants DEF TypeOK
    <3>3. QED
      BY <3>1, <3>2 DEF TypeOK
  <2>3. results' \in Seq(Text) /\ Len(results') <= ResultSize
    <3>1. \/ results' = results
          \/ results # <<>> /\ results' = Tail(results)
          \/ /\ worker[w].at \in {"putting", "again"} /\ Len(results) < ResultSize
             /\ results' = Append(results, TextOf(w))
      BY <1>3 DEF WorkerStep, CheckStop, GetTimesOut, GetBlock, Transcribe, PutResult,
                  EvictResult
    <3>2. CASE /\ worker[w].at \in {"putting", "again"} /\ Len(results) < ResultSize
               /\ results' = Append(results, TextOf(w))
      <4>1. TextOf(w) \in Text
        BY <3>2, TextOfUtterance DEF Telling
      <4>2. QED
        BY <1>1, <3>2, <4>1, AppendProperties, Constants
    <3>3. CASE results # <<>> /\ results' = Tail(results)
      BY <1>1, <3>3, HeadTailProperties, Constants DEF TypeOK
    <3>4. QED
      BY <3>1, <3>2, <3>3 DEF TypeOK
  <2>4. QED
    BY <1>1, <2>1, <2>2, <2>3 DEF TypeOK, Local
<1>4. CASE ReadText
  <2>1. results' \in Seq(Text) /\ Len(results') <= ResultSize /\ Head(results) \in Text
    BY <1>1, <1>4, HeadTailProperties, Constants DEF TypeOK, ReadText
  <2>2. told' \in 0..MaxBlocks
    BY <1>4, <2>1, Constants DEF ReadText, Text
  <2>3. QED
    BY <1>1, <1>4, <2>1, <2>2 DEF ReadText, TypeOK, Local
<1>5. CASE StartStream
  BY <1>1, <1>5, Constants DEF StartStream, TypeOK, Local
<1>6. CASE StartWorker
  <2>1. current' \in {NoWorker} \cup Worker
    BY <1>6 DEF StartWorker, TypeOK, SessionIInv
  <2>2. QED
    BY <1>1, <1>6, <2>1 DEF StartWorker, TypeOK, Local
<1>7. CASE StopStream
  BY <1>1, <1>7 DEF StopStream, TypeOK, Local
<1>8. CASE StopWorker
  BY <1>1, <1>8 DEF StopWorker, TypeOK, Local
<1>9. CASE JoinWorker
  BY <1>1, <1>9 DEF JoinWorker, TypeOK, Local, Alive
<1>10. CASE CloseStream
  BY <1>1, <1>10, EmptySeq, Constants DEF CloseStream, TypeOK, Local
<1>11. CASE ClearResults
  BY <1>1, <1>11, EmptySeq, Constants DEF ClearResults, TypeOK, Local
<1>12. QED
  BY <1>2, <1>3, <1>4, <1>5, <1>6, <1>7, <1>8, <1>9, <1>10, <1>11 DEF Next, Closing

(* Only start_worker brings a worker to life.                               *)
LEMMA NoneIsBorn ==
    ASSUME TypeOK, UtteranceIInv, Next, ~StartWorker
    PROVE  \A w \in Worker : Alive(w)' => Alive(w)
<1>1. CASE worker' = worker
  BY <1>1 DEF Alive
<1>2. ASSUME NEW v \in Worker, WorkerStep(v) PROVE \A w \in Worker : Alive(w)' => Alive(w)
  <2>1. PICK me \in Local : worker' = [worker EXCEPT ![v] = me] /\ Alive(v)
    BY <1>2, WorkerMoves DEF Becomes
  <2>2. \A w \in Worker : w # v => worker'[w] = worker[w]
    BY <2>1, TypesUnfolded
  <2>3. QED
    BY <2>1, <2>2 DEF Alive
<1>3. QED
  BY <1>1, <1>2 DEF Next, AudioCallback, ReadText, StartStream, StopStream, Closing,
     StopWorker, JoinWorker, CloseStream, ClearResults

LEMMA SessionKept ==
    ASSUME TypeOK, UtteranceIInv, SessionIInv, Next
    PROVE  SessionIInv'
<1>1. worker \in [Worker -> Local] /\ starts \in 0..MaxStarts /\ 0 \notin Worker
  BY TypesUnfolded DEF TypeOK, Worker
<1>2. CASE StartWorker
  <2>1. CASE UNCHANGED <<stop, current, worker>>
    BY <1>2, <2>1 DEF StartWorker, SessionIInv, Alive, Closed
  <2>2. CASE /\ ~Alive(current) /\ stop' = FALSE /\ current' = starts
             /\ worker' = [worker EXCEPT ![starts] = Fresh]
    <3>1. \A w \in Worker : w # starts => worker'[w] = worker[w]
      BY <1>1, <2>2
    <3>2. ~outlived => \A w \in Worker : ~Alive(w)
      BY <2>2 DEF SessionIInv
    <3>3. ~outlived' => \A w \in Worker : Alive(w)' => w = current'
      BY <1>2, <2>2, <3>1, <3>2 DEF StartWorker, Alive
    <3>4. owner = "starting" /\ owner' = "idle" /\ stream' = stream /\ stream = "active"
      BY <1>2 DEF StartWorker, SessionIInv
    <3>5. QED
      BY <2>2, <3>3, <3>4 DEF SessionIInv, Closed
  <2>3. QED
    BY <1>2, <2>1, <2>2 DEF StartWorker
<1>3. CASE ~StartWorker
  <2>1. \A w \in Worker : Alive(w)' => Alive(w)
    BY <1>3, NoneIsBorn
  <2>2. CASE AudioCallback
    BY <2>1, <2>2 DEF AudioCallback, SessionIInv, Closed
  <2>3. ASSUME NEW v \in Worker, WorkerStep(v) PROVE SessionIInv'
    <3>1. /\ owner' = owner /\ stream' = stream /\ stop' = stop /\ current' = current
          /\ starts' = starts /\ outlived' = outlived /\ Alive(v)
      BY <2>3, WorkerMoves DEF Becomes
    <3>2. audio = <<>> => audio' = <<>>
      BY <2>3 DEF WorkerStep, CheckStop, GetTimesOut, GetBlock, Transcribe, PutResult,
                  EvictResult
    <3>3. ~(Closed /\ stop /\ ~outlived)
      BY <1>1, <3>1 DEF SessionIInv, Closed, NoWorker
    <3>4. QED
      BY <2>1, <3>1, <3>2, <3>3 DEF SessionIInv, Closed
  <2>4. CASE ReadText
    BY <2>1, <2>4 DEF ReadText, SessionIInv, Closed
  <2>5. CASE StartStream
    <3>1. starts' \in Worker
      BY <1>1, <2>5, Constants DEF StartStream, Worker
    <3>2. QED
      BY <2>1, <2>5, <3>1 DEF StartStream, SessionIInv, Closed
  <2>6. CASE StopStream
    BY <2>1, <2>6 DEF StopStream, SessionIInv, Closed
  <2>7. CASE StopWorker
    BY <2>1, <2>7 DEF StopWorker, SessionIInv, Closed
  <2>8. CASE JoinWorker
    <3>1. ~outlived' => \A w \in Worker : ~Alive(w)
      BY <2>8 DEF JoinWorker, SessionIInv
    <3>2. QED
      BY <2>1, <2>8, <3>1 DEF JoinWorker, SessionIInv, Closed
  <2>9. CASE CloseStream
    BY <2>1, <2>9 DEF CloseStream, SessionIInv, Closed
  <2>10. CASE ClearResults
    BY <2>1, <2>10 DEF ClearResults, SessionIInv, Closed
  <2>11. QED
    BY <1>3, <2>2, <2>3, <2>4, <2>5, <2>6, <2>7, <2>8, <2>9, <2>10 DEF Next, Closing
<1>4. QED
  BY <1>2, <1>3

-----------------------------------------------------------------------------
(* The order of blocks and texts *)

LEMMA Numbers ==
    /\ \A blocks \in Seq(Block) : \A i \in DOMAIN blocks :
          i \in Nat /\ blocks[i] \in Block /\ blocks[i].n \in 1..MaxBlocks /\ blocks[i].n \in Nat
    /\ \A texts \in Seq(Text) : \A i \in DOMAIN texts :
          i \in Nat /\ texts[i].first \in Nat /\ texts[i].last \in Nat
<1>1. ASSUME NEW blocks \in Seq(Block), NEW i \in DOMAIN blocks
      PROVE  /\ i \in Nat /\ blocks[i] \in Block
             /\ blocks[i].n \in 1..MaxBlocks /\ blocks[i].n \in Nat
  <2>1. i \in Nat /\ blocks[i] \in Block
    OBVIOUS
  <2>2. QED
    BY <2>1, Constants DEF Block
<1>2. ASSUME NEW texts \in Seq(Text), NEW i \in DOMAIN texts
      PROVE  i \in Nat /\ texts[i].first \in Nat /\ texts[i].last \in Nat
  <2>1. i \in Nat /\ texts[i] \in Text
    OBVIOUS
  <2>2. QED
    BY <2>1, Constants DEF Text
<1>3. QED
  BY <1>1, <1>2

(* Steps that take no block: each worker that is alive keeps its blocks or  *)
(* has none, and the queue is emptied only when nobody is alive.            *)
BlocksUntouched ==
    /\ recorded' = recorded /\ dropped' = dropped
    /\ audio' = audio \/ (audio' = <<>> /\ \A w \in Worker : ~Alive(w)')
    /\ \A w \in Worker :
          Alive(w)' => Mine(w)' = <<>> \/ (Alive(w) /\ Mine(w)' = Mine(w))

LEMMA BlocksStay ==
    ASSUME BlocksOrdered, KeptIInv, BlocksUntouched
    PROVE  BlocksOrdered' /\ KeptIInv' /\ \A n : IsHeld(n)' => IsHeld(n)
<1>1. DOMAIN <<>> = {}
  BY EmptySeq
<1>2. \A w \in Worker : Alive(w)' => audio' = audio
  BY DEF BlocksUntouched
<1>3. BlocksOrdered'
  <2>1. Ascending(audio)'
    BY <1>1 DEF BlocksOrdered, BlocksUntouched, Ascending
  <2>2. ASSUME NEW w \in Worker, Alive(w)'
        PROVE  /\ Ascending(Mine(w))'
               /\ \A i \in DOMAIN Mine(w)', j \in DOMAIN audio' : Mine(w)'[i].n < audio'[j].n
    <3>1. CASE Mine(w)' = <<>>
      BY <1>1, <3>1 DEF Ascending
    <3>2. CASE Alive(w) /\ Mine(w)' = Mine(w)
      BY <1>2, <2>2, <3>2 DEF BlocksOrdered, Ascending
    <3>3. QED
      BY <2>2, <3>1, <3>2 DEF BlocksUntouched
  <2>3. QED
    BY <2>1, <2>2 DEF BlocksOrdered
<1>4. KeptIInv'
  <2>1. \A n \in 1..recorded', i \in DOMAIN audio' : audio'[i].n < n => Kept(n)'
    BY <1>1 DEF KeptIInv, BlocksUntouched, Kept, Has
  <2>2. ASSUME NEW w \in Worker, Alive(w)', NEW n \in 1..recorded', NEW i \in DOMAIN Mine(w)',
               Mine(w)'[i].n < n
        PROVE  Kept(n)' \/ Has(Mine(w), n)'
    <3>1. Alive(w) /\ Mine(w)' = Mine(w) /\ audio' = audio /\ n \in 1..recorded
          /\ dropped' = dropped
      BY <1>1, <1>2, <2>2 DEF BlocksUntouched
    <3>2. Kept(n) \/ Has(Mine(w), n)
      BY <2>2, <3>1 DEF KeptIInv
    <3>3. QED
      BY <3>1, <3>2 DEF Kept, Has
  <2>3. QED
    BY <2>1, <2>2 DEF KeptIInv
<1>5. ASSUME NEW n, IsHeld(n)' PROVE IsHeld(n)
  <2>1. CASE Has(audio, n)'
    BY <1>1, <2>1 DEF IsHeld, Has, BlocksUntouched
  <2>2. ASSUME NEW w \in Worker, Alive(w)', Has(Mine(w), n)' PROVE IsHeld(n)
    <3>1. Alive(w) /\ Mine(w)' = Mine(w)
      BY <1>1, <2>2 DEF BlocksUntouched, Has
    <3>2. QED
      BY <2>2, <3>1 DEF IsHeld, Has
  <2>3. QED
    BY <1>5, <2>1, <2>2 DEF IsHeld
<1>6. QED
  BY <1>3, <1>4, <1>5

(* The callback adds a block that is newer than all others, or loses it.    *)
LEMMA BlockRecorded ==
    ASSUME TypeOK, OrderIInv, AudioCallback
    PROVE  BlocksOrdered' /\ KeptIInv' /\ \A n : IsHeld(n)' => IsHeld(n) \/ n = recorded'
<1> DEFINE new == recorded + 1
<1>1. /\ recorded' = new /\ worker' = worker /\ recorded \in Nat /\ audio \in Seq(Block)
      /\ dropped \subseteq dropped'
  BY Constants DEF AudioCallback, TypeOK
<1>2. \A w \in Worker : (Alive(w)' <=> Alive(w)) /\ Mine(w)' = Mine(w) /\ Mine(w) \in Seq(Block)
  BY <1>1, TypesUnfolded DEF Alive, Mine
<1>3. \/ audio' = audio /\ new \in dropped'
      \/ \E b \in Block : b.n = new /\ audio' = Append(audio, b)
  <2>1. PICK loud \in BOOLEAN :
          IF Len(audio) < AudioSize
          THEN audio' = Append(audio, [n |-> recorded', loud |-> loud])
          ELSE dropped' = dropped \cup {recorded'} /\ audio' = audio
    BY DEF AudioCallback
  <2>2. recorded' \in 1..MaxBlocks
    BY <1>1, Constants DEF AudioCallback
  <2>3. [n |-> recorded', loud |-> loud] \in Block
    BY <2>2 DEF Block
  <2>4. QED
    BY <1>1, <2>1, <2>3
<1>4. /\ \A i \in DOMAIN audio : i \in DOMAIN audio' /\ audio'[i] = audio[i]
      /\ \A i \in DOMAIN audio' : \/ i \in DOMAIN audio /\ audio'[i] = audio[i]
                                  \/ i = Len(audio) + 1 /\ audio'[i].n = new
      /\ new \in dropped' \/ \E i \in DOMAIN audio' : audio'[i].n = new
  <2>1. CASE audio' = audio /\ new \in dropped'
    BY <2>1
  <2>2. ASSUME NEW b \in Block, b.n = new, audio' = Append(audio, b) PROVE <1>4
    <3>1. /\ audio' \in Seq(Block) /\ Len(audio') = Len(audio) + 1 /\ Len(audio) \in Nat
          /\ \A i \in 1..Len(audio) : audio'[i] = audio[i]
          /\ audio'[Len(audio) + 1] = b
      BY <1>1, <2>2, AppendProperties
    <3>2. Len(audio) + 1 \in DOMAIN audio' /\ DOMAIN audio = 1..Len(audio)
          /\ DOMAIN audio' = 1..(Len(audio) + 1)
      BY <1>1, <3>1
    <3>3. QED
      BY <2>2, <3>1, <3>2
  <2>3. QED
    BY <1>3, <2>1, <2>2
<1>5. /\ \A i \in DOMAIN audio : audio[i].n <= recorded /\ audio[i].n \in Nat /\ i \in Nat
                                 /\ i <= Len(audio)
      /\ \A w \in Worker : Alive(w) =>
            \A i \in DOMAIN Mine(w) : Mine(w)[i].n <= recorded /\ Mine(w)[i].n \in Nat
  <2>1. ASSUME NEW i \in DOMAIN audio
        PROVE  audio[i].n <= recorded /\ audio[i].n \in Nat /\ i \in Nat /\ i <= Len(audio)
    BY <1>1, Numbers DEF OrderIInv, HeldIsNew, IsHeld, Has
  <2>2. ASSUME NEW w \in Worker, Alive(w), NEW i \in DOMAIN Mine(w)
        PROVE  Mine(w)[i].n <= recorded /\ Mine(w)[i].n \in Nat
    BY <1>2, <2>2, Numbers DEF OrderIInv, HeldIsNew, IsHeld, Has
  <2>3. QED
    BY <2>1, <2>2
<1>6. BlocksOrdered'
  <2>1. ASSUME NEW i \in DOMAIN audio', NEW j \in DOMAIN audio', i < j
        PROVE  audio'[i].n < audio'[j].n
    <3>1. i \in DOMAIN audio /\ audio'[i] = audio[i]
      <4>1. CASE j \in DOMAIN audio
        BY <1>1, <1>4, <1>5, <2>1, <4>1
      <4>2. CASE j = Len(audio) + 1
        BY <1>1, <1>4, <2>1, <4>2
      <4>3. QED
        BY <1>4, <4>1, <4>2
    <3>2. QED
      BY <1>1, <1>4, <1>5, <2>1, <3>1 DEF OrderIInv, BlocksOrdered, Ascending
  <2>2. ASSUME NEW w \in Worker, Alive(w)'
        PROVE  /\ Ascending(Mine(w))'
               /\ \A i \in DOMAIN Mine(w)', j \in DOMAIN audio' : Mine(w)'[i].n < audio'[j].n
    <3>1. Ascending(Mine(w))'
      BY <1>2, <2>2 DEF OrderIInv, BlocksOrdered, Ascending
    <3>2. QED
      BY <1>1, <1>2, <1>4, <1>5, <2>2, <3>1 DEF OrderIInv, BlocksOrdered
  <2>3. QED
    BY <2>1, <2>2 DEF BlocksOrdered, Ascending
<1>7. \A n : n = new \/ Kept(n) => Kept(n)'
  BY <1>1, <1>4 DEF Kept, Has
<1>8. \A n \in 1..recorded' : n = new \/ n \in 1..recorded
  BY <1>1
<1>9. KeptIInv'
  <2>1. ASSUME NEW n \in 1..recorded', NEW i \in DOMAIN audio', audio'[i].n < n
        PROVE  Kept(n)'
    <3>1. CASE n = new
      BY <1>7, <3>1
    <3>2. CASE n \in 1..recorded
      <4>1. i \in DOMAIN audio /\ audio'[i] = audio[i]
        BY <1>1, <1>4, <2>1, <3>2
      <4>2. QED
        BY <1>7, <2>1, <3>2, <4>1 DEF OrderIInv, KeptIInv
    <3>3. QED
      BY <1>8, <3>1, <3>2
  <2>2. ASSUME NEW w \in Worker, Alive(w)', NEW n \in 1..recorded', NEW i \in DOMAIN Mine(w)',
               Mine(w)'[i].n < n
        PROVE  Kept(n)' \/ Has(Mine(w), n)'
    <3>1. CASE n = new
      BY <1>7, <3>1
    <3>2. CASE n \in 1..recorded
      <4>1. Kept(n) \/ Has(Mine(w), n)
        BY <1>2, <2>2, <3>2 DEF OrderIInv, KeptIInv
      <4>2. QED
        BY <1>2, <1>7, <4>1 DEF Has
    <3>3. QED
      BY <1>8, <3>1, <3>2
  <2>3. QED
    BY <2>1, <2>2 DEF KeptIInv
<1>10. ASSUME NEW n, IsHeld(n)' PROVE IsHeld(n) \/ n = recorded'
  <2>1. CASE Has(audio, n)'
    BY <1>1, <1>4, <2>1 DEF IsHeld, Has
  <2>2. CASE \E w \in Worker : Alive(w)' /\ Has(Mine(w), n)'
    BY <1>2, <2>2 DEF IsHeld, Has
  <2>3. QED
    BY <1>10, <2>1, <2>2 DEF IsHeld
<1>11. QED
  BY <1>6, <1>9, <1>10

LEMMA TakenIsJoined ==
    ASSUME TypeOK, UtteranceIInv, NEW w \in Worker, GetBlock(w)
    PROVE  Joined(Mine(w), audio[1], Mine(w)')
<1> DEFINE me == worker[w]
           b == Head(audio)
<1>1. /\ worker \in [Worker -> Local] /\ me \in Local /\ audio \in Seq(Block) /\ audio # <<>>
      /\ b = audio[1] /\ b \in Block
  BY TypesUnfolded, HeadAndTail DEF GetBlock
<1>2. UtteranceOK(me) /\ me.pre \in Seq(Block) /\ me.heard \in Seq(Block) /\ Len(me.pre) <= PreRoll
  BY <1>1 DEF UtteranceIInv, UtteranceOK, Local
<1>3. worker' = [worker EXCEPT ![w] = IF me.heard = <<>> THEN Waited(me, b)
                                      ELSE Listened(me, b)]
  BY DEF GetBlock, Becomes
<1>4. worker'[w] = IF me.heard = <<>> THEN Waited(me, b) ELSE Listened(me, b)
  BY <1>1, <1>3
<1>5. CASE me.heard = <<>>
  <2> DEFINE r == Rolled(me.pre, b)
  <2>1. Joined(me.pre, b, r)
    BY <1>1, <1>2, RolledJoins
  <2>2. r # <<>>
    BY <2>1 DEF Joined
  <2>3. Waited(me, b) =
          IF b.loud
          THEN [me EXCEPT !.at = "checking", !.pre = <<>>, !.heard = r, !.speech = 1]
          ELSE [me EXCEPT !.at = "checking", !.pre = r]
    BY DEF Waited
  <2> HIDE DEF r
  <2>4. IF b.loud THEN worker'[w].heard = r
        ELSE worker'[w].heard = me.heard /\ worker'[w].pre = r
    BY <1>1, <1>4, <1>5, <2>3 DEF Local
  <2>5. Mine(w)' = r
    BY <1>5, <2>2, <2>4 DEF Mine
  <2>6. Mine(w) = me.pre
    BY <1>5 DEF Mine
  <2>7. QED
    BY <1>1, <2>1, <2>5, <2>6
<1>6. CASE me.heard # <<>>
  <2>1. worker'[w].heard = Append(me.heard, b)
    BY <1>1, <1>4, <1>6 DEF Listened, Local
  <2>2. Mine(w)' = Append(me.heard, b) /\ Mine(w) = me.heard
    BY <1>1, <1>2, <1>6, <2>1, AppendProperties DEF Mine
  <2>3. QED
    BY <1>1, <1>2, <2>2, AppendJoins
<1>7. QED
  BY <1>5, <1>6

(* The block that is taken comes after all that the worker has, and before  *)
(* all that still wait.                                                     *)
LEMMA BlockTaken ==
    ASSUME TypeOK, UtteranceIInv, SessionIInv, ~outlived, OrderIInv,
           NEW w \in Worker, GetBlock(w)
    PROVE  BlocksOrdered' /\ KeptIInv' /\ \A n : IsHeld(n)' => IsHeld(n)
<1> DEFINE new == Mine(w)'
           old == Mine(w)
<1>1. /\ audio \in Seq(Block) /\ audio # <<>> /\ worker \in [Worker -> Local]
      /\ old \in Seq(Block) /\ Alive(w)
  BY TypesUnfolded DEF GetBlock, Alive
<1>2. /\ recorded' = recorded /\ dropped' = dropped /\ audio' = Tail(audio)
      /\ \A v \in Worker : v # w => worker'[v] = worker[v]
  BY <1>1 DEF GetBlock, Becomes
<1>3. \A v \in Worker : Alive(v)' => v = w
  BY <1>1, <1>2 DEF SessionIInv, Alive
<1>4. /\ 1 \in DOMAIN audio /\ audio' \in Seq(Block)
      /\ \A i \in DOMAIN audio' : i + 1 \in DOMAIN audio /\ audio'[i] = audio[i + 1]
      /\ Len(audio') = Len(audio) - 1
  BY <1>1, <1>2, HeadAndTail
<1>5. \A i \in DOMAIN audio : i = 1 \/ (i - 1 \in DOMAIN audio' /\ audio'[i - 1] = audio[i])
  BY <1>1, <1>4
<1>6. Joined(old, audio[1], new)
  BY TakenIsJoined
<1>7. PICK d \in {0, 1} :
          /\ Len(new) + d = Len(old) + 1
          /\ \A i \in 1..(Len(new) - 1) : i + d \in DOMAIN old /\ new[i] = old[i + d]
  BY <1>6 DEF Joined
<1>8. /\ new \in Seq(Block) /\ Len(new) \in Nat \ {0} /\ new[Len(new)] = audio[1]
      /\ DOMAIN new = 1..Len(new)
  BY <1>6 DEF Joined
<1> HIDE DEF new, old
<1>9. \A i \in DOMAIN new : \/ i = Len(new) /\ new[i] = audio[1]
                            \/ /\ i \in 1..(Len(new) - 1)
                               /\ i + d \in DOMAIN old /\ new[i] = old[i + d]
  <2>1. \A i \in DOMAIN new : i = Len(new) \/ i \in 1..(Len(new) - 1)
    BY <1>8
  <2>2. QED
    BY <1>7, <1>8, <2>1
<1>10. /\ \A i, j \in DOMAIN old : i < j => old[i].n < old[j].n
       /\ \A i \in DOMAIN old, j \in DOMAIN audio : old[i].n < audio[j].n
       /\ \A i, j \in DOMAIN audio : i < j => audio[i].n < audio[j].n
  BY <1>1 DEF OrderIInv, BlocksOrdered, Ascending, old
<1>11. \A j \in DOMAIN audio' : audio[1].n < audio'[j].n
  BY <1>4, <1>10
<1>12. Ascending(audio')
  <2>1. \A i, j \in DOMAIN audio' : i < j => i + 1 < j + 1
    BY <1>4
  <2>2. QED
    BY <1>4, <1>10, <2>1 DEF Ascending
<1>13. Ascending(new)
  <2>1. ASSUME NEW i \in DOMAIN new, NEW j \in DOMAIN new, i < j PROVE new[i].n < new[j].n
    <3>1. i \in 1..(Len(new) - 1) /\ i + d \in DOMAIN old /\ new[i] = old[i + d]
      BY <1>8, <1>9, <2>1
    <3>2. CASE j = Len(new)
      BY <1>4, <1>8, <1>10, <3>1, <3>2
    <3>3. CASE j \in 1..(Len(new) - 1)
      <4>1. j + d \in DOMAIN old /\ new[j] = old[j + d] /\ i + d < j + d
        BY <1>7, <2>1, <3>1, <3>3
      <4>2. QED
        BY <1>10, <3>1, <4>1
    <3>4. QED
      BY <1>9, <2>1, <3>2, <3>3
  <2>2. QED
    BY <2>1 DEF Ascending
<1>14. \A i \in DOMAIN new, j \in DOMAIN audio' : new[i].n < audio'[j].n
  BY <1>4, <1>9, <1>10, <1>11
<1>15. BlocksOrdered'
  <2>1. Ascending(audio)'
    BY <1>12 DEF Ascending
  <2>2. Ascending(Mine(w))'
    BY <1>13 DEF Ascending, new
  <2>3. QED
    BY <1>3, <1>14, <2>1, <2>2 DEF BlocksOrdered, new
<1>16. \A n : Kept(n) => Kept(n)' \/ n = audio[1].n
  BY <1>2, <1>5 DEF Kept, Has
<1>17. \A n : Has(new, n) => Has(old, n) \/ n = audio[1].n
  BY <1>9 DEF Has
<1>18. Has(new, audio[1].n)
  BY <1>8 DEF Has
<1>19. KeptIInv'
  <2>1. ASSUME NEW n \in 1..recorded', NEW i \in DOMAIN audio', audio'[i].n < n
        PROVE  Kept(n)'
    <3>1. Kept(n) /\ n # audio[1].n
      <4>1. i + 1 \in DOMAIN audio /\ audio[i + 1].n < n
        BY <1>4, <2>1
      <4>2. Kept(n)
        BY <1>2, <4>1 DEF OrderIInv, KeptIInv
      <4>3. audio[1].n < audio'[i].n /\ audio[1].n \in Nat /\ audio'[i].n \in Nat /\ n \in Int
        BY <1>1, <1>4, <1>11, <2>1, Numbers
      <4>4. QED
        BY <2>1, <4>2, <4>3
    <3>2. QED
      BY <1>16, <3>1
  <2>2. ASSUME NEW n \in 1..recorded', NEW i \in DOMAIN new, new[i].n < n
        PROVE  Kept(n)' \/ Has(new, n)
    <3>1. CASE new[i] = audio[1]
      <4>1. Kept(n)
        BY <1>2, <1>4, <2>2, <3>1 DEF OrderIInv, KeptIInv
      <4>2. QED
        BY <1>16, <1>18, <4>1
    <3>2. CASE i + d \in DOMAIN old /\ new[i] = old[i + d] /\ i \in 1..(Len(new) - 1)
      <4>1. Kept(n) \/ Has(old, n)
        BY <1>1, <1>2, <2>2, <3>2 DEF OrderIInv, KeptIInv, old
      <4>2. ASSUME NEW k \in DOMAIN old, old[k].n = n PROVE Has(new, n)
        <5>1. i + d < k
          <6>1. /\ old[i + d].n \in Nat /\ old[k].n \in Nat
                /\ i + d \in Nat /\ k \in Nat
            BY <1>1, <3>2, <4>2, Numbers DEF old
          <6>2. ~(k < i + d) /\ k # i + d
            BY <1>10, <2>2, <3>2, <4>2, <6>1
          <6>3. QED
            BY <6>1, <6>2
        <5>2. k - d \in 1..(Len(new) - 1) /\ (k - d) + d = k
          <6>1. k \in 1..Len(old) /\ Len(old) \in Nat
            BY <1>1 DEF old
          <6>2. QED
            BY <1>7, <1>8, <3>2, <5>1, <6>1
        <5>3. new[k - d] = old[k] /\ k - d \in DOMAIN new
          BY <1>7, <1>8, <5>2
        <5>4. QED
          BY <4>2, <5>3 DEF Has
      <4>3. QED
        BY <1>16, <1>18, <4>1, <4>2 DEF Has
    <3>3. QED
      BY <1>9, <2>2, <3>1, <3>2
  <2>3. QED
    BY <1>3, <2>1, <2>2 DEF KeptIInv, new, Has
<1>20. ASSUME NEW n, IsHeld(n)' PROVE IsHeld(n)
  <2>1. CASE Has(audio, n)'
    BY <1>4, <2>1 DEF IsHeld, Has
  <2>2. CASE Has(new, n)
    <3>1. Has(old, n) \/ Has(audio, n)
      BY <1>4, <1>17, <2>2 DEF Has
    <3>2. QED
      BY <1>1, <3>1 DEF IsHeld, Has, old
  <2>3. IsHeld(n)' => Has(audio, n)' \/ Has(new, n)
    BY <1>3 DEF IsHeld, Has, new
  <2>4. QED
    BY <1>20, <2>1, <2>2, <2>3
<1>21. QED
  BY <1>15, <1>19, <1>20

(* Texts are lost from the head of the queue only, to the reader, to the    *)
(* worker that needs room, or all at once.                                  *)
TextsTaken ==
    \/ told' = told /\ results' \in {results, <<>>}
    \/ results # <<>> /\ results' = Tail(results) /\ told' \in {told, Head(results).last}

LEMMA TextsStay ==
    ASSUME TypeOK, TypeOK', OrderIInv, TextsTaken,
           recorded' \in {recorded, recorded + 1},
           \A n : IsHeld(n)' => IsHeld(n) \/ (n = recorded' /\ recorded' = recorded + 1)
    PROVE  TextsOrdered' /\ HeldIsNew'
<1>1. /\ recorded \in Nat /\ told \in Nat /\ recorded' \in Nat /\ told' \in Nat
      /\ recorded <= recorded' /\ results \in Seq(Text) /\ results' \in Seq(Text)
  BY TypesUnfolded, Constants DEF TypeOK
<1>2. PICK d \in {0, 1} :
          /\ \A i \in DOMAIN results' : i + d \in DOMAIN results /\ results'[i] = results[i + d]
          /\ told' = told \/ (d = 1 /\ 1 \in DOMAIN results /\ told' = results[1].last)
  <2>1. CASE told' = told /\ results' \in {results, <<>>}
    <3>1. \A i \in DOMAIN results' : i + 0 \in DOMAIN results /\ results'[i] = results[i + 0]
      BY <1>1, <2>1, EmptySeq
    <3>2. QED
      BY <2>1, <3>1
  <2>2. CASE /\ results # <<>> /\ results' = Tail(results)
             /\ told' \in {told, Head(results).last}
    BY <1>1, <2>2, HeadAndTail
  <2>3. QED
    BY <2>1, <2>2 DEF TextsTaken
<1>3. /\ told <= recorded
      /\ \A i \in DOMAIN results : /\ told < results[i].first
                                   /\ results[i].first <= results[i].last
                                   /\ results[i].last <= recorded
      /\ \A i, j \in DOMAIN results : i < j => results[i].last < results[j].first
  BY DEF OrderIInv, TextsOrdered
<1>4. \A i \in DOMAIN results : /\ i \in Nat \ {0} /\ results[i].first \in Nat
                                /\ results[i].last \in Nat
  BY <1>1, Numbers
<1>5. told' <= recorded
  BY <1>2, <1>3
<1>6. ASSUME NEW i \in DOMAIN results'
      PROVE  /\ told' < results'[i].first /\ results'[i].first <= results'[i].last
             /\ results'[i].last <= recorded'
  <2>1. i + d \in DOMAIN results /\ results'[i] = results[i + d] /\ i \in Nat \ {0}
    BY <1>1, <1>2, <1>6
  <2>2. told' < results[i + d].first
    <3>1. CASE told' = told
      BY <1>3, <2>1, <3>1
    <3>2. CASE d = 1 /\ 1 \in DOMAIN results /\ told' = results[1].last
      BY <1>3, <2>1, <3>2
    <3>3. QED
      BY <1>2, <3>1, <3>2
  <2>3. QED
    BY <1>1, <1>3, <1>4, <2>1, <2>2
<1>7. ASSUME NEW i \in DOMAIN results', NEW j \in DOMAIN results', i < j
      PROVE  results'[i].last < results'[j].first
  <2>1. i \in Nat /\ j \in Nat /\ i + d < j + d
    BY <1>1, <1>7
  <2>2. QED
    BY <1>2, <1>3, <2>1
<1>8. TextsOrdered'
  BY <1>1, <1>5, <1>6, <1>7 DEF TextsOrdered
<1>9. HeldIsNew'
  <2> SUFFICES ASSUME NEW n \in 1..MaxBlocks, IsHeld(n)'
               PROVE  /\ told' < n /\ n <= recorded'
                      /\ \A k \in DOMAIN results' : results'[k].last < n
    BY DEF HeldIsNew
  <2>1. n \in Nat
    BY Constants
  <2>2. CASE IsHeld(n)
    <3>1. told < n /\ n <= recorded /\ \A k \in DOMAIN results : results[k].last < n
      BY <2>2 DEF OrderIInv, HeldIsNew
    <3>2. told' < n
      BY <1>2, <3>1
    <3>3. \A k \in DOMAIN results' : results'[k].last < n
      BY <1>2, <3>1
    <3>4. QED
      BY <1>1, <2>1, <3>1, <3>2, <3>3
  <2>3. CASE n = recorded' /\ recorded' = recorded + 1
    <3>1. \A k \in DOMAIN results' : results'[k].last < n
      BY <1>1, <1>2, <1>3, <1>4, <2>3
    <3>2. QED
      BY <1>1, <1>5, <2>3, <3>1
  <2>4. QED
    BY <2>2, <2>3
<1>10. QED
  BY <1>8, <1>9

(* The text of an utterance comes after those that wait, and before all     *)
(* blocks that still wait.                                                  *)
LEMMA TextPut ==
    ASSUME TypeOK, TypeOK', UtteranceIInv, SessionIInv, ~outlived, OrderIInv,
           NEW w \in Worker, worker[w].at \in Telling,
           results' = Append(results, TextOf(w)), worker' = [worker EXCEPT ![w] = Fresh],
           UNCHANGED <<current, audio, recorded, dropped, told, outlived>>
    PROVE  TextsOrdered' /\ HeldIsNew'
<1> DEFINE mine == Mine(w)
           text == TextOf(w)
           n == Len(results)
<1>1. /\ recorded \in Nat /\ told \in Nat /\ results \in Seq(Text) /\ audio \in Seq(Block)
      /\ worker \in [Worker -> Local] /\ mine \in Seq(Block) /\ Alive(w)
  <2>1. /\ results \in Seq(Text) /\ audio \in Seq(Block)
        /\ worker \in [Worker -> Local] /\ mine \in Seq(Block)
    BY TypesUnfolded
  <2>2. recorded \in Nat /\ told \in Nat
    BY Constants DEF TypeOK
  <2>3. Alive(w)
    BY DEF Alive, Telling
  <2>4. QED
    BY <2>1, <2>2, <2>3
<1>2. /\ text \in Text /\ 1 \in DOMAIN mine /\ Len(mine) \in DOMAIN mine
      /\ text.first = mine[1].n /\ text.last = mine[Len(mine)].n
  BY TextOfUtterance
<1>3. /\ results' \in Seq(Text) /\ Len(results') = n + 1 /\ n \in Nat
      /\ \A i \in 1..n : results'[i] = results[i]
      /\ results'[n + 1] = text
  BY <1>1, <1>2, AppendProperties
<1>4. DOMAIN results = 1..n /\ DOMAIN results' = 1..(n + 1)
  BY <1>1, <1>3
<1> HIDE DEF mine, text, n
<1>5. \A i \in DOMAIN mine : /\ told < mine[i].n /\ mine[i].n <= recorded
                             /\ \A k \in DOMAIN results : results[k].last < mine[i].n
                             /\ mine[i].n \in Nat
  <2> SUFFICES ASSUME NEW i \in DOMAIN mine
               PROVE  /\ told < mine[i].n /\ mine[i].n <= recorded
                      /\ \A k \in DOMAIN results : results[k].last < mine[i].n
                      /\ mine[i].n \in Nat
    OBVIOUS
  <2>1. mine[i].n \in 1..MaxBlocks /\ mine[i].n \in Nat
    BY <1>1, Numbers
  <2>2. IsHeld(mine[i].n)
    BY <1>1 DEF IsHeld, Has, mine
  <2>3. QED
    BY <2>1, <2>2 DEF OrderIInv, HeldIsNew
<1>6. text.first <= text.last /\ text.first \in Nat /\ text.last \in Nat
  <2>1. Len(mine) \in Nat /\ Len(mine) >= 1
    BY <1>1, <1>2
  <2>2. mine[1].n <= mine[Len(mine)].n
    <3>1. CASE Len(mine) = 1
      BY <1>2, <1>5, <3>1
    <3>2. CASE 1 < Len(mine)
      BY <1>1, <1>2, <1>5, <3>2 DEF OrderIInv, BlocksOrdered, Ascending, mine
    <3>3. \A k \in Nat : k >= 1 => k = 1 \/ 1 < k
      OBVIOUS
    <3>4. QED
      BY <2>1, <3>1, <3>2, <3>3
  <2>3. QED
    BY <1>2, <1>5, <2>2
<1>7. \A i \in 1..(n + 1) : i \in 1..n \/ i = n + 1
  BY <1>3
<1>8. TextsOrdered'
  <2>1. ASSUME NEW i \in DOMAIN results'
        PROVE  /\ told < results'[i].first /\ results'[i].first <= results'[i].last
               /\ results'[i].last <= recorded
    <3>1. CASE i \in 1..n
      BY <1>3, <1>4, <3>1 DEF OrderIInv, TextsOrdered
    <3>2. CASE i = n + 1
      BY <1>2, <1>3, <1>5, <1>6, <3>2
    <3>3. QED
      BY <1>4, <1>7, <2>1, <3>1, <3>2
  <2>2. ASSUME NEW i \in DOMAIN results', NEW j \in DOMAIN results', i < j
        PROVE  results'[i].last < results'[j].first
    <3>1. i \in 1..n
      BY <1>3, <1>4, <2>2
    <3>2. CASE j \in 1..n
      BY <1>3, <1>4, <2>2, <3>1, <3>2 DEF OrderIInv, TextsOrdered
    <3>3. CASE j = n + 1
      BY <1>2, <1>3, <1>4, <1>5, <3>1, <3>3
    <3>4. QED
      BY <1>4, <1>7, <2>2, <3>2, <3>3
  <2>3. QED
    BY <2>1, <2>2 DEF TextsOrdered, OrderIInv
<1>9. \A v \in Worker : v # w => ~Alive(v)'
  BY <1>1 DEF SessionIInv, Alive
<1>10. Mine(w)' = <<>>
  BY <1>1 DEF Mine, Fresh
<1>11. \A k : IsHeld(k)' => Has(audio, k)
  BY <1>9, <1>10, EmptySeq DEF IsHeld, Has
<1>12. HeldIsNew'
  <2> SUFFICES ASSUME NEW k \in 1..MaxBlocks, IsHeld(k)'
               PROVE  /\ told < k /\ k <= recorded
                      /\ \A i \in DOMAIN results' : results'[i].last < k
    BY DEF HeldIsNew
  <2>1. PICK j \in DOMAIN audio : audio[j].n = k
    BY <1>11 DEF Has
  <2>2. told < k /\ k <= recorded /\ \A i \in DOMAIN results : results[i].last < k
    BY <2>1 DEF OrderIInv, HeldIsNew, IsHeld, Has
  <2>3. text.last < k
    BY <1>1, <1>2, <2>1 DEF OrderIInv, BlocksOrdered, mine
  <2>4. QED
    BY <1>3, <1>4, <1>7, <2>2, <2>3
<1>13. QED
  BY <1>8, <1>12

LEMMA OrderKept ==
    ASSUME TypeOK, TypeOK', UtteranceIInv, SessionIInv, ~outlived => OrderIInv, Next
    PROVE  ~outlived' => OrderIInv'
<1> SUFFICES ASSUME ~outlived' PROVE OrderIInv'
  OBVIOUS
<1>1. ~outlived
  BY WorkerMoves DEF Next, AudioCallback, ReadText, StartStream, StartWorker, StopStream,
     Closing, StopWorker, JoinWorker, CloseStream, ClearResults, Becomes, TypeOK
<1>2. OrderIInv
  BY <1>1
<1>3. worker \in [Worker -> Local] /\ DOMAIN <<>> = {}
  BY TypesUnfolded
<1>4. recorded \in Nat
  BY Constants DEF TypeOK
<1>5. ASSUME BlocksUntouched, TextsTaken PROVE OrderIInv'
  <2>1. BlocksOrdered' /\ KeptIInv' /\ \A n : IsHeld(n)' => IsHeld(n)
    BY <1>2, <1>5, BlocksStay DEF OrderIInv
  <2>2. TextsOrdered' /\ HeldIsNew'
    BY <1>2, <1>5, <2>1, TextsStay DEF BlocksUntouched
  <2>3. QED
    BY <2>1, <2>2 DEF OrderIInv
<1>6. CASE AudioCallback
  <2>1. BlocksOrdered' /\ KeptIInv' /\ \A n : IsHeld(n)' => IsHeld(n) \/ n = recorded'
    BY <1>2, <1>6, BlockRecorded
  <2>2. recorded' = recorded + 1 /\ TextsTaken
    BY <1>6 DEF AudioCallback, TextsTaken
  <2>3. TextsOrdered' /\ HeldIsNew'
    BY <1>2, <2>1, <2>2, TextsStay
  <2>4. QED
    BY <2>1, <2>3 DEF OrderIInv
<1>7. ASSUME NEW w \in Worker, WorkerStep(w) PROVE OrderIInv'
  <2>1. PICK me \in Local : Becomes(w, me) /\ Alive(w)
    BY <1>7, WorkerMoves
  <2>2. /\ worker' = [worker EXCEPT ![w] = me] /\ worker'[w] = me
        /\ \A v \in Worker : v # w => worker'[v] = worker[v]
        /\ recorded' = recorded /\ dropped' = dropped /\ told' = told
    BY <1>3, <2>1 DEF Becomes
  <2>3. ASSUME \/ me.pre = worker[w].pre /\ me.heard = worker[w].heard
               \/ me = Fresh,
               audio' = audio
        PROVE  BlocksUntouched
    <3>1. Mine(w)' = Mine(w) \/ Mine(w)' = <<>>
      BY <2>2, <2>3 DEF Mine, Fresh
    <3>2. \A v \in Worker : v # w => Mine(v)' = Mine(v) /\ (Alive(v)' <=> Alive(v))
      BY <2>2 DEF Mine, Alive
    <3>3. QED
      BY <2>1, <2>2, <2>3, <3>1, <3>2 DEF BlocksUntouched
  <2>4. \A a : LET new == [worker[w] EXCEPT !.at = a]
               IN  new.pre = worker[w].pre /\ new.heard = worker[w].heard
    BY <1>3 DEF Local
  <2>5. \A other : Becomes(w, other) => worker'[w] = other
    BY <1>3 DEF Becomes
  <2>6. CASE CheckStop(w) \/ GetTimesOut(w)
    <3>1. /\ \E a : me = [worker[w] EXCEPT !.at = a]
          /\ audio' = audio /\ results' = results
      BY <2>2, <2>5, <2>6 DEF CheckStop, GetTimesOut
    <3>2. BlocksUntouched /\ TextsTaken
      BY <2>2, <2>3, <2>4, <3>1 DEF TextsTaken
    <3>3. QED
      BY <1>5, <3>2
  <2>7. CASE GetBlock(w)
    <3>1. BlocksOrdered' /\ KeptIInv' /\ \A n : IsHeld(n)' => IsHeld(n)
      BY <1>1, <1>2, <2>7, BlockTaken
    <3>2. TextsTaken
      BY <2>2, <2>7 DEF GetBlock, TextsTaken
    <3>3. TextsOrdered' /\ HeldIsNew'
      BY <1>2, <2>2, <3>1, <3>2, TextsStay
    <3>4. QED
      BY <3>1, <3>3 DEF OrderIInv
  <2>8. CASE Transcribe(w)
    <3>1. /\ me = Fresh \/ \E a : me = [worker[w] EXCEPT !.at = a]
          /\ audio' = audio /\ results' = results
      BY <2>2, <2>5, <2>8 DEF Transcribe, NextUtterance
    <3>2. BlocksUntouched /\ TextsTaken
      BY <2>2, <2>3, <2>4, <3>1 DEF TextsTaken
    <3>3. QED
      BY <1>5, <3>2
  <2>9. CASE PutResult(w)
    <3>1. audio' = audio /\ worker[w].at \in Telling
      BY <2>9 DEF PutResult, Telling
    <3>2. \/ me = Fresh /\ results' = Append(results, TextOf(w))
          \/ results' = results /\ (me = Fresh \/ \E a : me = [worker[w] EXCEPT !.at = a])
      BY <2>2, <2>5, <2>9 DEF PutResult, NextUtterance
    <3>3. BlocksUntouched
      BY <2>3, <2>4, <3>1, <3>2
    <3>4. CASE results' = results
      BY <1>5, <2>2, <3>3, <3>4 DEF TextsTaken
    <3>5. CASE me = Fresh /\ results' = Append(results, TextOf(w))
      <4>1. UNCHANGED <<current, audio, recorded, dropped, told, outlived>>
        BY <2>1, <3>1 DEF Becomes
      <4>2. worker' = [worker EXCEPT ![w] = Fresh]
        BY <2>2, <3>5
      <4>3. TextsOrdered' /\ HeldIsNew'
        BY <1>1, <1>2, <3>1, <3>5, <4>1, <4>2, TextPut
      <4>4. BlocksOrdered' /\ KeptIInv'
        BY <1>2, <3>3, BlocksStay DEF OrderIInv
      <4>5. QED
        BY <4>3, <4>4 DEF OrderIInv
    <3>6. QED
      BY <3>2, <3>4, <3>5
  <2>10. CASE EvictResult(w)
    <3>1. /\ \E a : me = [worker[w] EXCEPT !.at = a]
          /\ audio' = audio
          /\ results' = IF results = <<>> THEN results ELSE Tail(results)
      BY <2>2, <2>5, <2>10 DEF EvictResult
    <3>2. BlocksUntouched /\ TextsTaken
      BY <2>2, <2>3, <2>4, <3>1 DEF TextsTaken
    <3>3. QED
      BY <1>5, <3>2
  <2>11. QED
    BY <1>7, <2>6, <2>7, <2>8, <2>9, <2>10 DEF WorkerStep
<1>8. CASE StartWorker
  <2>1. \/ worker' = worker
        \/ /\ worker' = [worker EXCEPT ![starts] = Fresh]
           /\ \A w \in Worker : ~Alive(w)
    BY <1>1, <1>8 DEF StartWorker, SessionIInv
  <2>2. \A w \in Worker : \/ worker'[w] = worker[w]
                          \/ worker'[w] = Fresh
                          \/ ~Alive(w)'
    BY <1>3, <2>1
  <2>3. \A w \in Worker : Alive(w)' => Mine(w)' = <<>> \/ (Alive(w) /\ Mine(w)' = Mine(w))
    BY <2>2 DEF Mine, Alive, Fresh
  <2>4. BlocksUntouched /\ TextsTaken
    BY <1>8, <2>3 DEF StartWorker, BlocksUntouched, TextsTaken
  <2>5. QED
    BY <1>5, <2>4
<1>9. ASSUME worker' = worker PROVE \A w \in Worker : Mine(w)' = Mine(w) /\ (Alive(w)' <=> Alive(w))
  BY <1>9 DEF Mine, Alive
<1>10. CASE ReadText
  BY <1>5, <1>9, <1>10 DEF ReadText, BlocksUntouched, TextsTaken
<1>11. CASE StartStream \/ StopStream \/ StopWorker \/ JoinWorker
  BY <1>5, <1>9, <1>11
     DEF StartStream, StopStream, StopWorker, JoinWorker, BlocksUntouched, TextsTaken
<1>12. CASE CloseStream
  <2>1. \A w \in Worker : ~Alive(w)
    BY <1>1, <1>12 DEF CloseStream, SessionIInv, Alive, NoWorker, Worker
  <2>2. QED
    BY <1>5, <1>9, <1>12, <2>1 DEF CloseStream, BlocksUntouched, TextsTaken
<1>13. CASE ClearResults
  BY <1>5, <1>9, <1>13 DEF ClearResults, BlocksUntouched, TextsTaken
<1>14. QED
  BY <1>6, <1>7, <1>8, <1>10, <1>11, <1>12, <1>13 DEF Next, Closing

-----------------------------------------------------------------------------
(* THEOREMS *)

(* However the callback, the worker, the reader and the owner take turns.   *)
THEOREM MicrophoneInvariant == Spec => []MicIInv
<1>1. MicIInv /\ [Next]_vars => MicIInv'
  <2>1. CASE Next
    <3> SUFFICES ASSUME MicIInv PROVE MicIInv'
      BY <2>1
    <3>1. TypeOK /\ UtteranceIInv /\ SessionIInv /\ (~outlived => OrderIInv)
      BY DEF MicIInv
    <3>2. TypeOK' /\ UtteranceIInv' /\ SessionIInv'
      BY <2>1, <3>1, TypesKept, WorkersKept, SessionKept
    <3>3. ~outlived' => OrderIInv'
      BY <2>1, <3>1, <3>2, OrderKept
    <3>4. QED
      BY <3>2, <3>3 DEF MicIInv
  <2>2. CASE UNCHANGED vars
    BY <2>2 DEF vars, MicIInv, TypeOK, UtteranceIInv, SessionIInv, Closed, Alive, OrderIInv,
       BlocksOrdered, TextsOrdered, HeldIsNew, IsHeld, Has, Mine, KeptIInv, Kept
  <2>3. QED
    BY <2>1, <2>2
<1>2. QED
  BY <1>1, InitOK, PTL DEF Spec

LEMMA InvariantGivesOrder == MicIInv => SpeechStaysInOrder
<1> SUFFICES ASSUME MicIInv, ~outlived, NEW w \in Worker, Alive(w)
             PROVE  LET texts == <<[first |-> told, last |-> told]>> \o results
                        heard == worker[w].heard
                        waiting == worker[w].pre \o heard \o audio
                    IN  /\ \A i, j \in DOMAIN texts : i < j => texts[i].last < texts[j].first
                        /\ \A i, j \in DOMAIN waiting : i < j => waiting[i].n < waiting[j].n
                        /\ waiting # <<>> => Last(texts).last < Head(waiting).n
  BY DEF SpeechStaysInOrder
<1> DEFINE T == [first : 0..MaxBlocks, last : 0..MaxBlocks]
           one == [first |-> told, last |-> told]
           texts == <<one>> \o results
           mine == Mine(w)
           waiting == mine \o audio
           n == Len(results)
<1>1. /\ TypeOK /\ UtteranceOK(worker[w]) /\ OrderIInv /\ audio \in Seq(Block)
      /\ results \in Seq(Text) /\ mine \in Seq(Block) /\ worker[w] \in Local
  BY TypesUnfolded DEF MicIInv, UtteranceIInv
<1>2. worker[w].pre \o worker[w].heard = mine
  <2>1. worker[w].pre \in Seq(Block) /\ worker[w].heard \in Seq(Block)
    BY <1>1 DEF Local
  <2>2. worker[w].heard = <<>> \/ worker[w].pre = <<>>
    BY <1>1 DEF UtteranceOK
  <2>3. QED
    BY <2>1, <2>2, ConcatEmptySeq DEF Mine
<1>3. /\ texts \in Seq(T) /\ Len(texts) = n + 1 /\ n \in Nat /\ texts[1] = one
      /\ \A i \in 2..(n + 1) : texts[i] = results[i - 1] /\ i - 1 \in DOMAIN results
  <2>1. <<one>> \in Seq(T) /\ Len(<<one>>) = 1 /\ <<one>>[1] = one
    BY <1>1 DEF TypeOK
  <2>2. Text \subseteq T
    BY Constants DEF Text
  <2> HIDE DEF T, one
  <2>3. results \in Seq(T) /\ n \in Nat /\ DOMAIN results = 1..n
    <3>1. results \in Seq(T)
      BY <1>1, <2>2, SeqMonotonic
    <3>2. QED
      BY <3>1
  <2>4. /\ texts \in Seq(T) /\ Len(texts) = 1 + n
        /\ \A i \in 1..(1 + n) : texts[i] = IF i <= 1 THEN <<one>>[i] ELSE results[i - 1]
    BY <2>1, <2>3, ConcatProperties
  <2>5. QED
    BY <2>1, <2>3, <2>4
<1>4. /\ waiting \in Seq(Block) /\ Len(waiting) = Len(mine) + Len(audio)
      /\ Len(mine) \in Nat /\ Len(audio) \in Nat
      /\ \A i \in 1..Len(mine) : waiting[i] = mine[i] /\ i \in DOMAIN mine
      /\ \A i \in (Len(mine) + 1)..Len(waiting) :
            waiting[i] = audio[i - Len(mine)] /\ i - Len(mine) \in DOMAIN audio
  <2>1. /\ waiting \in Seq(Block) /\ Len(waiting) = Len(mine) + Len(audio)
        /\ \A i \in 1..(Len(mine) + Len(audio)) :
              waiting[i] = IF i <= Len(mine) THEN mine[i] ELSE audio[i - Len(mine)]
    BY <1>1, ConcatProperties
  <2>2. /\ Len(mine) \in Nat /\ Len(audio) \in Nat
        /\ DOMAIN mine = 1..Len(mine) /\ DOMAIN audio = 1..Len(audio)
    BY <1>1
  <2> HIDE DEF mine, waiting
  <2>3. QED
    BY <2>1, <2>2
<1>5. one.first = told /\ one.last = told
  OBVIOUS
<1> HIDE DEF texts, mine, waiting, T, one, n
<1>6. DOMAIN texts = 1..(n + 1) /\ DOMAIN waiting = 1..Len(waiting)
  BY <1>3, <1>4
<1>7. \A i, j \in DOMAIN texts : i < j => texts[i].last < texts[j].first
  <2> SUFFICES ASSUME NEW i \in 1..(n + 1), NEW j \in 1..(n + 1), i < j
               PROVE  texts[i].last < texts[j].first
    BY <1>6
  <2>1. texts[j] = results[j - 1] /\ j - 1 \in DOMAIN results
    BY <1>3
  <2>2. CASE i = 1
    BY <1>1, <1>3, <1>5, <2>1, <2>2 DEF OrderIInv, TextsOrdered
  <2>3. CASE i \in 2..(n + 1)
    <3>1. texts[i] = results[i - 1] /\ i - 1 \in DOMAIN results /\ i - 1 < j - 1
      BY <1>3, <2>3
    <3>2. QED
      BY <1>1, <2>1, <3>1 DEF OrderIInv, TextsOrdered
  <2>4. i = 1 \/ i \in 2..(n + 1)
    BY <1>3
  <2>5. QED
    BY <2>2, <2>3, <2>4
<1>8. \A i \in DOMAIN waiting : \/ i \in 1..Len(mine)
                                \/ i \in (Len(mine) + 1)..Len(waiting)
  BY <1>4, <1>6
<1>9. \A i, j \in DOMAIN waiting : i < j => waiting[i].n < waiting[j].n
  <2> SUFFICES ASSUME NEW i \in DOMAIN waiting, NEW j \in DOMAIN waiting, i < j
               PROVE  waiting[i].n < waiting[j].n
    OBVIOUS
  <2>1. /\ \A k, l \in DOMAIN mine : k < l => mine[k].n < mine[l].n
        /\ \A k, l \in DOMAIN audio : k < l => audio[k].n < audio[l].n
        /\ \A k \in DOMAIN mine, l \in DOMAIN audio : mine[k].n < audio[l].n
    BY <1>1 DEF OrderIInv, BlocksOrdered, Ascending, mine
  <2>2. CASE j \in 1..Len(mine)
    <3>1. i \in 1..Len(mine)
      BY <1>4, <1>6, <2>2
    <3>2. QED
      BY <1>4, <2>1, <2>2, <3>1
  <2>3. CASE j \in (Len(mine) + 1)..Len(waiting)
    <3>1. waiting[j] = audio[j - Len(mine)] /\ j - Len(mine) \in DOMAIN audio
      BY <1>4, <2>3
    <3>2. CASE i \in 1..Len(mine)
      BY <1>4, <2>1, <3>1, <3>2
    <3>3. CASE i \in (Len(mine) + 1)..Len(waiting)
      <4>1. /\ waiting[i] = audio[i - Len(mine)] /\ i - Len(mine) \in DOMAIN audio
            /\ i - Len(mine) < j - Len(mine)
        BY <1>4, <2>3, <3>3
      <4>2. QED
        BY <2>1, <3>1, <4>1
    <3>4. QED
      BY <1>8, <3>2, <3>3
  <2>4. QED
    BY <1>8, <2>2, <2>3
<1>10. waiting # <<>> => Last(texts).last < Head(waiting).n
  <2> SUFFICES ASSUME waiting # <<>> PROVE Last(texts).last < Head(waiting).n
    OBVIOUS
  <2>1. 1 \in DOMAIN waiting /\ Head(waiting) = waiting[1] /\ waiting[1].n \in 1..MaxBlocks
    BY <1>4, HeadAndTail, Numbers
  <2>2. IsHeld(waiting[1].n)
    <3>1. Has(mine, waiting[1].n) \/ Has(audio, waiting[1].n)
      BY <1>4, <1>8, <2>1 DEF Has
    <3>2. QED
      BY <3>1 DEF IsHeld, mine
  <2>3. told < waiting[1].n /\ \A k \in DOMAIN results : results[k].last < waiting[1].n
    BY <1>1, <2>1, <2>2 DEF OrderIInv, HeldIsNew
  <2>4. Last(texts) = texts[n + 1]
    BY <1>3 DEF Last
  <2>5. CASE n = 0
    BY <1>3, <1>5, <2>1, <2>3, <2>4, <2>5
  <2>6. CASE n # 0
    <3>1. n + 1 \in 2..(n + 1)
      BY <1>3, <2>6
    <3>2. texts[n + 1] = results[n + 1 - 1] /\ n + 1 - 1 \in DOMAIN results
      BY <1>3, <3>1
    <3>3. QED
      BY <2>1, <2>3, <2>4, <3>2
  <2>7. QED
    BY <2>5, <2>6
<1>11. QED
  BY <1>2, <1>7, <1>9, <1>10 DEF texts, waiting, one

LEMMA InvariantGivesWhole == MicIInv => UtterancesAreWhole
<1> SUFFICES ASSUME MicIInv, NEW w \in Worker, worker[w].at = "transcribing"
             PROVE  LET heard == worker[w].heard
                        start == CHOOSE i \in Loud(heard, Len(heard)) :
                                    \A j \in Loud(heard, Len(heard)) : i <= j
                    IN  /\ start <= PreRoll
                        /\ ~outlived => \A i \in 2..Len(heard) :
                              ((heard[i - 1].n + 1)..(heard[i].n - 1)) \subseteq dropped
                        /\ \A k \in (start + 1)..Len(heard) : Complete(heard, k) <=> k = Len(heard)
  BY DEF UtterancesAreWhole
<1> DEFINE h == worker[w].heard
           L == Loud(h, Len(h))
           start == CHOOSE i \in L : \A j \in L : i <= j
<1>1. /\ TypeOK /\ UtteranceOK(worker[w]) /\ h \in Seq(Block) /\ audio \in Seq(Block)
      /\ worker[w].at \in Telling
  BY TypesUnfolded DEF MicIInv, UtteranceIInv, Local, Telling
<1>2. h # <<>> /\ Mine(w) = h /\ Alive(w)
  BY <1>1 DEF UtteranceOK, Mine, Alive
<1>3. DOMAIN h = 1..Len(h) /\ Len(h) \in Nat
  BY <1>1
<1>4. PICK s \in 1..PreRoll :
         /\ Starts(h, s)
         /\ \A k \in DOMAIN h : k > s => (Complete(h, k) <=> k = Len(h))
  BY <1>1, <1>2 DEF UtteranceOK
<1> HIDE DEF h
<1>5. s \in L /\ \A j \in L : s <= j
  BY <1>3, <1>4 DEF Starts, Loud
<1>6. start = s
  <2>1. start \in L /\ \A j \in L : start <= j
    BY <1>5
  <2>2. \A j \in L : j \in Nat
    BY <1>3 DEF Loud
  <2> HIDE DEF start, L
  <2>3. QED
    BY <1>5, <2>1, <2>2
<1> HIDE DEF start
<1>7. start <= PreRoll
  BY <1>6, Constants
<1>8. ASSUME ~outlived, NEW i \in 2..Len(h), NEW m \in (h[i - 1].n + 1)..(h[i].n - 1)
      PROVE  m \in dropped
  <2>1. i - 1 \in DOMAIN h /\ i \in DOMAIN h /\ i \in Nat
    BY <1>3, <1>8
  <2>2. h[i - 1].n \in Nat /\ h[i].n \in Nat /\ h[i].n \in 1..MaxBlocks
    BY <1>1, <2>1, Numbers DEF h
  <2>3. h[i - 1].n < m /\ m < h[i].n /\ m \in Nat \ {0}
    BY <1>8, <2>2
  <2>4. OrderIInv
    BY <1>8 DEF MicIInv
  <2>5. h[i].n <= recorded /\ recorded \in Nat
    <3>1. IsHeld(h[i].n)
      BY <1>2, <2>1 DEF IsHeld, Has
    <3>2. QED
      BY <1>1, <2>2, <2>4, <3>1, Constants DEF OrderIInv, HeldIsNew, TypeOK
  <2>6. m \in 1..recorded
    BY <2>2, <2>3, <2>5
  <2>7. Kept(m) \/ Has(h, m)
    BY <1>2, <2>1, <2>3, <2>4, <2>6 DEF OrderIInv, KeptIInv
  <2>8. ~Has(audio, m)
    <3> SUFFICES ASSUME NEW j \in DOMAIN audio, audio[j].n = m PROVE FALSE
      BY DEF Has
    <3>1. h[i].n < audio[j].n
      BY <1>2, <2>1, <2>4 DEF OrderIInv, BlocksOrdered
    <3>2. QED
      BY <2>2, <2>3, <3>1
  <2>9. ~Has(h, m)
    <3> SUFFICES ASSUME NEW j \in DOMAIN h, h[j].n = m PROVE FALSE
      BY DEF Has
    <3>1. \A k, l \in DOMAIN h : k < l => h[k].n < h[l].n
      BY <1>2, <2>4 DEF OrderIInv, BlocksOrdered, Ascending
    <3>2. j \in Nat
      BY <1>3
    <3>3. ~(j < i - 1) /\ j # i - 1
      BY <2>1, <2>2, <2>3, <3>1
    <3>4. ~(i < j) /\ i # j
      BY <2>1, <2>2, <2>3, <3>1
    <3>5. QED
      BY <2>1, <3>2, <3>3, <3>4
  <2>10. QED
    BY <2>7, <2>8, <2>9 DEF Kept
<1>9. \A k \in (start + 1)..Len(h) : Complete(h, k) <=> k = Len(h)
  <2>1. \A k \in (start + 1)..Len(h) : k \in DOMAIN h /\ k > s
    BY <1>3, <1>6
  <2>2. QED
    BY <1>4, <2>1
<1>10. QED
  BY <1>7, <1>8, <1>9 DEF start, h

(* Every variable keeps its type: the queues never exceed their sizes.      *)
THEOREM MicrophoneTypes == Spec => []TypeOK
<1>1. MicIInv => TypeOK
  BY DEF MicIInv
<1>2. QED
  BY <1>1, MicrophoneInvariant, PTL

(* SpeechStaysInOrder: texts reach the reader in the order in which they    *)
(* were spoken (_put_latest_result, get_transcribed_text), as long as every *)
(* join of close() has succeeded.                                           *)
THEOREM SpeechIsToldInOrder == Spec => []SpeechStaysInOrder
BY MicrophoneInvariant, InvariantGivesOrder, PTL

(* UtterancesAreWhole: what is transcribed has no gaps but those of a full  *)
(* queue, has the pre-roll and no more, and ends when it is complete        *)
(* (collect_audio).                                                         *)
THEOREM UtterancesAreCutRight == Spec => []UtterancesAreWhole
BY MicrophoneInvariant, InvariantGivesWhole, PTL

(* NothingOutlivesClose: close() stops the intake before it clears the      *)
(* queues, so nothing of a session reaches the next one.                    *)
THEOREM CloseLeavesNothing == Spec => []NothingOutlivesClose
<1>1. MicIInv => NothingOutlivesClose
  <2> SUFFICES ASSUME MicIInv, Closed, stop, ~outlived
               PROVE  audio = <<>> /\ results = <<>> /\ \A w \in Worker : ~Alive(w)
    BY DEF NothingOutlivesClose
  <2>1. audio = <<>> /\ results = <<>>
    BY DEF MicIInv, SessionIInv
  <2>2. current = NoWorker
    BY DEF MicIInv, SessionIInv, Closed
  <2>3. QED
    BY <2>1, <2>2 DEF MicIInv, SessionIInv, Worker, NoWorker
<1>2. QED
  BY <1>1, MicrophoneInvariant, PTL
=============================================================================
