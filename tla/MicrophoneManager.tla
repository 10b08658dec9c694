------------------------- MODULE MicrophoneManager -------------------------
(***************************************************************************)
(* Whisper_Audio_Manager (voice_text_convert/mic_whisper_manager.py): the  *)
(* PortAudio callback that fills a bounded queue of audio blocks, the      *)
(* worker thread that cuts utterances out of them and transcribes them,    *)
(* the bounded queue of texts, the owner that starts and closes all this,  *)
(* and the reader of the texts, which may be another thread.               *)
(*                                                                         *)
(* Time is counted in blocks.  Of a block only its number matters and      *)
(* whether its level reaches vad_threshold; a text is the stretch of       *)
(* blocks it was made from.  A worker whose transcription takes longer     *)
(* than the join of three seconds outlives close(); the next start() of    *)
(* the same manager clears the stop event they share.                      *)
(***************************************************************************)
EXTENDS Naturals, Sequences, FiniteSets, SequencesExt

CONSTANTS AudioSize,     (* maxsize of __audio_queue                        *)
          ResultSize,    (* MAX_RESULT_QUEUE_SIZE                           *)
          PreRoll,       (* pre_roll_block_count                            *)
          MinSpeech,     (* vad_min_speech_seconds, in blocks               *)
          SilenceLimit,  (* vad_silence_seconds, in blocks                  *)
          MaxLength,     (* record_seconds, in blocks                       *)
          MaxBlocks,     (* bound on the blocks that are recorded           *)
          MaxStarts      (* bound on the calls of start()                   *)

ASSUME MicrophoneAssumption ==
       /\ {AudioSize, ResultSize, PreRoll, MaxLength} \subseteq Nat \ {0}
       /\ {MinSpeech, SilenceLimit, MaxBlocks, MaxStarts} \subseteq Nat
       /\ SilenceLimit > 0 /\ PreRoll < MaxLength

VARIABLES owner,     (* where the owner is in start() or close()            *)
          stream,    (* __stream: none, open or active                      *)
          audio,     (* __audio_queue                                       *)
          results,   (* __result_queue                                      *)
          stop,      (* __stop_event                                        *)
          current,   (* __worker_thread                                     *)
          worker,    (* the worker threads with their locals                *)
          starts,    (* calls of start() so far                             *)
          recorded,  (* blocks so far                                       *)
          dropped,   (* those that found the queue full                     *)
          told,      (* the last block of the text that was read last       *)
          outlived   (* a worker was still alive when its join timed out    *)

vars == <<owner, stream, audio, results, stop, current, worker, starts, recorded,
          dropped, told, outlived>>

Worker == 1..MaxStarts
NoWorker == 0
Block == [n : 1..MaxBlocks, loud : BOOLEAN]
Text == [first : 1..MaxBlocks, last : 1..MaxBlocks]

(* A worker at the top of its loop, with the locals of collect_audio.       *)
Fresh == [at |-> "checking", pre |-> <<>>, heard |-> <<>>, speech |-> 0, silence |-> 0]

Alive(w) == w \in Worker /\ worker[w].at \notin {"new", "off"}

TypeOK ==
    /\ owner \in {"idle", "starting", "stopping", "joining", "releasing", "clearing"}
    /\ stream \in {"none", "open", "active"}
    /\ audio \in Seq(Block) /\ Len(audio) <= AudioSize
    /\ results \in Seq(Text) /\ Len(results) <= ResultSize
    /\ stop \in BOOLEAN /\ outlived \in BOOLEAN
    /\ current \in {NoWorker} \cup Worker
    /\ worker \in [Worker ->
          [at : {"new", "checking", "waiting", "transcribing", "putting", "evicting",
                 "again", "off"},
           pre : Seq(Block), heard : Seq(Block), speech : Nat, silence : Nat]]
    /\ starts \in 0..MaxStarts /\ recorded \in 0..MaxBlocks
    /\ dropped \subseteq 1..MaxBlocks /\ told \in 0..MaxBlocks

Init ==
    /\ owner = "idle" /\ stream = "none"
    /\ audio = <<>> /\ results = <<>>
    /\ stop = FALSE /\ current = NoWorker
    /\ worker = [w \in Worker |-> [Fresh EXCEPT !.at = "new"]]
    /\ starts = 0 /\ recorded = 0 /\ dropped = {} /\ told = 0
    /\ outlived = FALSE

-----------------------------------------------------------------------------
(* The PortAudio callback: put_nowait, and a full queue loses the block.    *)
AudioCallback ==
    /\ stream = "active" /\ recorded < MaxBlocks
    /\ recorded' = recorded + 1
    /\ \E loud \in BOOLEAN :
          IF Len(audio) < AudioSize
          THEN /\ audio' = Append(audio, [n |-> recorded', loud |-> loud])
               /\ UNCHANGED dropped
          ELSE dropped' = dropped \cup {recorded'} /\ UNCHANGED audio
    /\ UNCHANGED <<owner, stream, results, stop, current, worker, starts, told, outlived>>

-----------------------------------------------------------------------------
(* The worker thread.                                                       *)
Becomes(w, state) ==
    /\ worker' = [worker EXCEPT ![w] = state]
    /\ UNCHANGED <<owner, stream, stop, current, starts, recorded, dropped, told, outlived>>

(* Variant: a worker that hears an utterance wants it to end first.         *)
FinishesUtterance(w) ==
    /\ worker[w].at = "checking"
    /\ Becomes(w, [worker[w] EXCEPT !.at = IF stop /\ worker[w].heard = <<>>
                                           THEN "off" ELSE "waiting"])
    /\ UNCHANGED <<audio, results>>

(* Both loops look at the stop event; collect_audio returning None ends the *)
(* worker.                                                                  *)
CheckStop(w) ==
    /\ worker[w].at = "checking"
    /\ Becomes(w, [worker[w] EXCEPT !.at = IF stop THEN "off" ELSE "waiting"])
    /\ UNCHANGED <<audio, results>>

(* Nothing in 0.2 seconds.                                                  *)
GetTimesOut(w) ==
    /\ worker[w].at = "waiting" /\ audio = <<>>
    /\ Becomes(w, [worker[w] EXCEPT !.at = "checking"])
    /\ UNCHANGED <<audio, results>>

(* deque(maxlen=pre_roll_block_count)                                       *)
Rolled(pre, block) == LET all == Append(pre, block)
                      IN  IF Len(all) > PreRoll THEN Tail(all) ELSE all

(* Before speech has started only the pre-roll is kept.                     *)
Waited(me, block) ==
    LET pre == Rolled(me.pre, block)
    IN  IF block.loud
        THEN [me EXCEPT !.at = "checking", !.pre = <<>>, !.heard = pre, !.speech = 1]
        ELSE [me EXCEPT !.at = "checking", !.pre = pre]

(* Variant: a sound does not interrupt the silence.                         *)
PausesAddUp(me, block) ==
    LET speech == me.speech + (IF block.loud THEN 1 ELSE 0)
        silence == me.silence + (IF block.loud THEN 0 ELSE 1)
        heard == Append(me.heard, block)
        over == (speech >= MinSpeech /\ silence >= SilenceLimit) \/ Len(heard) >= MaxLength
    IN  [me EXCEPT !.at = IF over THEN "transcribing" ELSE "checking",
                   !.heard = heard, !.speech = speech, !.silence = silence]

(* Speech goes on until it pauses or has become too long.                   *)
Listened(me, block) ==
    LET speech == me.speech + (IF block.loud THEN 1 ELSE 0)
        silence == IF block.loud THEN 0 ELSE me.silence + 1
        heard == Append(me.heard, block)
        over == (speech >= MinSpeech /\ silence >= SilenceLimit) \/ Len(heard) >= MaxLength
    IN  [me EXCEPT !.at = IF over THEN "transcribing" ELSE "checking",
                   !.heard = heard, !.speech = speech, !.silence = silence]

GetBlock(w) ==
    /\ worker[w].at = "waiting" /\ audio # <<>>
    /\ audio' = Tail(audio)
    /\ Becomes(w, IF worker[w].heard = <<>> THEN Waited(worker[w], Head(audio))
                  ELSE Listened(worker[w], Head(audio)))
    /\ UNCHANGED results

(* Variant: what was silent at the end is heard again.                      *)
AfterText(w) == [Fresh EXCEPT !.pre = <<Last(worker[w].heard)>>]

(* collect_audio starts anew for the next utterance.                        *)
NextUtterance(w) == Fresh

(* Whisper returns a text; or none, or it raises.                           *)
Transcribe(w) ==
    /\ worker[w].at = "transcribing"
    /\ \/ Becomes(w, [worker[w] EXCEPT !.at = "putting"])
       \/ Becomes(w, NextUtterance(w))
    /\ UNCHANGED <<audio, results>>

TextOf(w) == [first |-> Head(worker[w].heard).n, last |-> Last(worker[w].heard).n]

(* _put_latest_result: put_nowait; if the queue is full, get_nowait and     *)
(* put_nowait once more.                                                    *)
PutResult(w) ==
    /\ worker[w].at \in {"putting", "again"}
    /\ IF Len(results) < ResultSize
       THEN results' = Append(results, TextOf(w)) /\ Becomes(w, NextUtterance(w))
       ELSE /\ UNCHANGED results
            /\ Becomes(w, IF worker[w].at = "again" THEN NextUtterance(w)
                          ELSE [worker[w] EXCEPT !.at = "evicting"])
    /\ UNCHANGED audio

EvictResult(w) ==
    /\ worker[w].at = "evicting"
    /\ results' = IF results = <<>> THEN results ELSE Tail(results)
    /\ Becomes(w, [worker[w] EXCEPT !.at = "again"])
    /\ UNCHANGED audio

WorkerStep(w) ==
    \/ CheckStop(w) \/ GetTimesOut(w) \/ GetBlock(w)
    \/ Transcribe(w) \/ PutResult(w) \/ EvictResult(w)

-----------------------------------------------------------------------------
(* get_transcribed_text                                                     *)
ReadText ==
    /\ results # <<>>
    /\ told' = Head(results).last
    /\ results' = Tail(results)
    /\ UNCHANGED <<owner, stream, audio, stop, current, worker, starts, recorded,
                   dropped, outlived>>

(* start(): start_stream, which may raise and leave a stream that is open.  *)
StartStream ==
    /\ owner = "idle" /\ starts < MaxStarts
    /\ starts' = starts + 1
    /\ \/ stream' = "active" /\ owner' = "starting"
       \/ stream # "active" /\ stream' \in {stream, "open"} /\ UNCHANGED owner
    /\ UNCHANGED <<audio, results, stop, current, worker, recorded, dropped, told, outlived>>

(* start_worker: nothing if there is one; else the model is loaded if it is *)
(* not there yet, which may raise, and a thread is started.                 *)
StartWorker ==
    /\ owner = "starting" /\ owner' = "idle"
    /\ \/ /\ Alive(current) \/ \A w \in Worker : worker[w].at = "new"
          /\ UNCHANGED <<stop, current, worker>>
       \/ /\ ~Alive(current)
          /\ stop' = FALSE
          /\ current' = starts
          /\ worker' = [worker EXCEPT ![starts] = Fresh]
    /\ UNCHANGED <<stream, audio, results, starts, recorded, dropped, told, outlived>>

(* close(): stop_stream ...                                                 *)
StopStream ==
    /\ owner = "idle" /\ owner' = "stopping"
    /\ stream' = IF stream = "active" THEN "open" ELSE stream
    /\ UNCHANGED <<audio, results, stop, current, worker, starts, recorded, dropped,
                   told, outlived>>

(* ... stop_worker ...                                                      *)
StopWorker ==
    /\ owner = "stopping" /\ owner' = "joining"
    /\ stop' = TRUE
    /\ UNCHANGED <<stream, audio, results, current, worker, starts, recorded, dropped,
                   told, outlived>>

(* Variant: the thread is not waited for.                                   *)
NotJoined ==
    /\ owner = "joining" /\ owner' = "releasing"
    /\ current' = NoWorker
    /\ UNCHANGED <<stream, audio, results, stop, worker, starts, recorded, dropped,
                   told, outlived>>

(* ... with a join that gives up after three seconds: a get lasts 0.2 s, so *)
(* only a transcription may be at work by then ...                          *)
JoinWorker ==
    /\ owner = "joining" /\ owner' = "releasing"
    /\ Alive(current) => worker[current].at = "transcribing"
    /\ outlived' = (outlived \/ Alive(current))
    /\ current' = NoWorker
    /\ UNCHANGED <<stream, audio, results, stop, worker, starts, recorded, dropped, told>>

(* ... close_stream, and the queue of blocks is emptied ...                 *)
CloseStream ==
    /\ owner = "releasing" /\ owner' = "clearing"
    /\ stream' = "none"
    /\ audio' = <<>>
    /\ UNCHANGED <<results, stop, current, worker, starts, recorded, dropped, told, outlived>>

(* ... and the queue of texts.                                              *)
ClearResults ==
    /\ owner = "clearing" /\ owner' = "idle"
    /\ results' = <<>>
    /\ UNCHANGED <<stream, audio, stop, current, worker, starts, recorded, dropped,
                   told, outlived>>

Closing == StopWorker \/ JoinWorker \/ CloseStream \/ ClearResults

Next ==
    \/ AudioCallback
    \/ \E w \in Worker : WorkerStep(w)
    \/ ReadText
    \/ StartStream \/ StartWorker \/ StopStream \/ Closing

Spec == Init /\ [][Next]_vars

(* A worker runs, and every transcription returns.                          *)
FairSpec ==
    /\ Spec
    /\ \A w \in Worker : WF_vars(WorkerStep(w))
    /\ WF_vars(StartWorker) /\ WF_vars(Closing)

-----------------------------------------------------------------------------
(* PROPERTIES *)

(* Texts reach the reader in the order in which they were spoken, and no    *)
(* block is part of two of them: the texts read, those that wait, the       *)
(* utterance at work and the blocks that wait follow one another, as long   *)
(* as no worker has outlived its join.                                      *)
SpeechStaysInOrder ==
    ~outlived =>
        \A w \in Worker : Alive(w) =>
            LET texts == <<[first |-> told, last |-> told]>> \o results
                heard == worker[w].heard
                waiting == worker[w].pre \o heard \o audio
            IN  /\ \A i, j \in DOMAIN texts : i < j => texts[i].last < texts[j].first
                /\ \A i, j \in DOMAIN waiting : i < j => waiting[i].n < waiting[j].n
                /\ waiting # <<>> => Last(texts).last < Head(waiting).n

Loud(heard, k) == {i \in 1..k : heard[i].loud}

(* What ends an utterance at its k-th block: enough speech and then a pause *)
(* that is long enough, or the greatest length.                             *)
Complete(heard, k) ==
    \/ k = MaxLength
    \/ /\ Cardinality(Loud(heard, k)) >= MinSpeech
       /\ \A i \in 1..k : i > k - SilenceLimit => ~heard[i].loud

(* Within an utterance no block is missing but those that the full queue    *)
(* has lost ("Keep enough audio while Whisper is transcribing the previous  *)
(* segment", line 85); it begins PreRoll blocks or less ahead of its first  *)
(* sound, and it ends as soon as it is complete (collect_audio).            *)
UtterancesAreWhole ==
    \A w \in Worker : worker[w].at = "transcribing" =>
        LET heard == worker[w].heard
            start == CHOOSE i \in Loud(heard, Len(heard)) :
                        \A j \in Loud(heard, Len(heard)) : i <= j
        IN  /\ start <= PreRoll
            /\ ~outlived => \A i \in 2..Len(heard) :
                               ((heard[i - 1].n + 1)..(heard[i].n - 1)) \subseteq dropped
            /\ \A k \in (start + 1)..Len(heard) : Complete(heard, k) <=> k = Len(heard)

Closed == owner = "idle" /\ stream = "none"

(* When close() has returned and no worker has outlived its join, nothing   *)
(* is left of the session that could reach the next one: no worker, no      *)
(* block and no text (close() stops the intake before it clears the queues).*)
NothingOutlivesClose ==
    (Closed /\ stop /\ ~outlived) =>
        audio = <<>> /\ results = <<>> /\ \A w \in Worker : ~Alive(w)

(* Unless the manager is started again, a worker that was asked to stop     *)
(* ends, whether or not there is still audio to come.                       *)
WorkersEnd == \A w \in Worker : stop ~> (~Alive(w) \/ ~stop)
=============================================================================
