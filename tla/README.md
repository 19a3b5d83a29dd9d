# FUTO Keyboard: TLA+ models, model checking and proofs

This directory holds TLA+ specifications of the keyboard in `src/`, the TLC
configurations that check them on small instances and TLAPS proofs of the
theorems that hold for every instance. Paths below are relative to the root of
the repository; `AR:n` is line n of
`src/voiceinput-shared/src/main/java/org/futo/voiceinput/shared/AudioRecognizer.kt`.

## 1. The system

The keyboard is an Android input method. The input-method framework calls it on
the main thread; almost all of its state lives there. What makes it hard is the
work that leaves the main thread (recording, transcription, dictionary I/O,
suggestions) and comes back after the world has moved on: another text field,
another recording, a closed window. The other hard part stays on the main
thread: several fingers, timers, the text engine and the framework interleave
on one keyboard.

| Part | State it keeps | Operations | What is hard | What makes it correct |
|---|---|---|---|---|
| AudioRecognizer | open AudioRecord, recording loop, model run, session id, sample buffers | start, finish, cancel, reset, startPrebuffering, setBluetooth | main thread against the recording loop, the model run and detached restart coroutines | one open microphone, one answer per recording, of its own audio, in its own session |
| Voice windows (VoiceInputAction, RecognizerView) | listening flag, close requests, input transaction | mic click, close, recogniser callbacks | callbacks reenter the window; commits are posted | text is committed once and to the field that asked |
| Input transactions (IMEManager) | active IME, current transaction, selection debounce | start/finish input, create/end transaction | transactions outlive fields | the current transaction belongs to a window that will end it |
| WhisperGGML, ModelManager, MultiModelRunner | loaded models, cancel flags, inference thread | load, infer, cancelAll, cleanUp | an unsynchronised map, handles freed on another thread | no inference on a freed model; nothing is lost; closing ends |
| Keyboard state (KeyboardState) | layout, page, shift and symbol key states | press, release, event, slide, save, load | two thumbs: presses and releases interleave; rotations | momentary shift and symbols come back, locks and preferences are kept |
| Pointer tracking (PointerTracker, PointerTrackerQueue) | pointers down, in order; the key under each | down, move, up, cancel, timers | several fingers, slides, gestures and long-press timers | letters sent in press order, modifiers released |
| Personal dictionaries (ExpandableBinaryDictionary and its subclasses) | native dictionary, reload and recreate flags, files | load, reload, add, flush, close | executor thread against callers and observers; kills and failing file operations | what was saved stays; no change is missed; a dictionary in use can be looked up |
| Changeable native dictionary (dictionary/structure, utils/trie_map.cpp) | patricia trie, table of terminal ids, hash array mapped trie of n-grams | add, count, remove, collect | nodes move, ids are renumbered, tables are reused, the buffer ends | a store of words and pairs: no operation touches another word |
| Suggestions (GeneralIME, InputLogicHandler) | sequence ids, the job of the last request, the strip, the correction | request, ensure completed, gestures | a computing thread and a timeout against keys and cursor moves | a correction belongs to the word it replaces; every word gets its suggestions |
| Text engine (InputLogic, WordComposer, RichInputConnection) | composing word, cached text and selection | events, commit, selection updates | expected against reported cursor | the cache follows the editor |
| Engine clients (JapaneseIME, LanguageModelFacilitator, InlineSuggestions, ClipboardHistory, settings, updates, spell checker, layout engine) | their own caches | | | see PROJECT.json |

How the modelled parts interact:

* The voice bar calls the recogniser (start, finish, cancel, reset,
  startPrebuffering); the recogniser calls the bar back through RecognizerView
  (recordingStarted, cancelled, finished), partly from inside the bar's own
  calls. The bar makes an input transaction in IMEManager; while one is current
  the keyboard's own engine gets no events.
* A PointerTracker per finger calls KeyboardState on a press, a code and a
  release. KeyboardState answers with a new layout, which the view shows at
  once, in the middle of the tracker's handler. The engine, which handles each
  code first, asks KeyboardState for a shift update.
* The recogniser's preload and run coroutines obtain models from ModelManager,
  which a closing window cancels and a device short of memory cleans up.
* The text engine changes the composer and asks GeneralIME for suggestions;
  GeneralIME's computing thread writes the correction back into the composer. A
  separator waits for it and commits what it finds there.
* A personal dictionary's executor calls the native dictionary and its flush. The
  native dictionary keeps words in the patricia trie and what it knows of them,
  under their ids, in the hash array mapped trie.

PROJECT.json lists every component, modelled or not, and under `hazards` what is
hard to test in this code, each at its line and with the properties it is for.

## 2. Modules

| Module | Models | Uses |
|---|---|---|
| `AudioRecognizer` | AudioRecognizer.kt, and WhisperGGML's inference thread and cancel flag | |
| `RecognizerService` | what a window may rely on when it uses a recogniser (abstract) | |
| `AudioRecognizerRefinement` | the mapping under which AudioRecognizer implements RecognizerService | AudioRecognizer, RecognizerService |
| `AudioRecognizer_proof` | theorems about AudioRecognizer, and the proof that it does | AudioRecognizerRefinement, TLAPS |
| `VoiceBottomBar` | VoiceInputBottomBarWindow with its transaction | RecognizerService |
| `VoiceBottomBar_proof` | theorems about it | VoiceBottomBar, TLAPS |
| `KeyboardState` | KeyboardState.kt, as functions on its state | |
| `TouchInput` | PointerTracker, PointerTrackerQueue, and the keyboard's calls from outside | KeyboardState |
| `TouchInput_proof` | theorems about it and KeyboardState | TouchInput, TLAPS |
| `WhisperModels` | ModelManager, MultiModelRunner, WhisperGGML and its native state, and the windows that use them | |
| `WhisperModels_proof` | theorems about it | WhisperModels, TLAPS |
| `SuggestionPipeline` | GeneralIME's requests, what the text engine and InputLogicHandler do around them | |
| `SuggestionPipeline_proof` | theorems about it | SuggestionPipeline, TLAPS |
| `PersonalDictionary` | ExpandableBinaryDictionary with two subclasses, and the native flush | |
| `PersonalDictionary_proof` | theorems about it | PersonalDictionary, TLAPS |
| `NestedMap` | what the native dictionary expects of its n-gram content (abstract) | |
| `TrieKey`, `TrieMap` | trie_map.cpp and language_model_dict_content.cpp | TrieKey |
| `WordStore` | what a changeable dictionary promises (abstract) | |
| `PatriciaTrie` | the patricia trie, its table of ids and the word content | NestedMap |
| `PatriciaTrie_proof` | lemmas about its buffers, what is read from them and how they change | PatriciaTrie, TLAPS |
| `NativeDictionary_proof` | theorems about it, and one about the shuffled keys | PatriciaTrie_proof, TrieKey |
| `MC...` | what TLC needs beyond the constants | the module named |

Definitions called "Faulty variant" in a comment are not part of any
specification. Each is a mapped definition with a plausible mistake, and
PROJECT.json (`mutants`) names the property that notices it.

### AudioRecognizer

Two kinds of threads. The main thread runs handlers and posted blocks one at a
time; `main` says where in a handler it is. A handler is one action unless a
worker can see the middle of it: `start`, `reset`/`cancel` and the load failure
are cut between `sessionId.incrementAndGet()` (AR:270, AR:864) and the
cancellations below it, because a worker may read the new id there.
Workers run the recording loops (`LoopHead`, `LoopRead`, `LoopData`,
`LoopAppend`: one action between two suspension points, where alone a cancelled
coroutine notices) and the model runs (`RunStarts` ... `RunPosts`).

State: an AudioRecord and the loop that reads it share one number of `Mic`
(`micState`, `loops`); `recorder` and `recorderJob` are the fields, and may
differ. `restarts[m]` counts the coroutines that wait for loop m in
`cancelAndJoin` (AR:842), which no field refers to. `runs[r]` is the r-th call of
`onFinishRecording`: its program counter, whether it was cancelled, the session
id it read (`sid`), the session it was recorded in (`born`), the sessions whose
audio it transcribes, and the passes it still has to make. `posted` holds the
blocks on their way to `listener.finished`, `answers` counts those calls.

The samples are abstracted to the sessions they come from. VAD, audio focus,
the communication device, a refused permission and a failing
`createAudioRecorder` are left out.

### RecognizerService and the refinement

The abstract recogniser is one record. Its calls are functions (`Started`,
`Finished`, `WasReset`, `Prebuffered`), so that a window's handler that makes
several of them composes functions in one action. A run goes from "running" to
"posted", "checked" and "answered", or is "over" (`Moved`). `Late` is the one visible
trace of the workers: while a call that ends a session is in progress, a run may
read the new id and post under it.

`AudioRecognizerRefinement` maps the seventeen variables to that record, one
operator per field (`AbstractSession`, `AbstractOpen`, ...; `Waiting` counts the
restarts of all loops). The session counts as the old one until the handler has cancelled what belongs to
it. That is the point of the cut in the detailed model: the refinement shows
that apart from `Late` no window can tell a handler from an atomic one.

### VoiceBottomBar

All of it on the main thread, one action per handler. A handler includes what it
calls: closing the bar is one action with `close()`, `cancel()`, the recogniser's
reset, `cancelled()`, the transaction's end and `startPrebuffering()`. `finished()`
and `cancelled()` launch coroutines, `posted` and `hides`, that run in later turns.
`ready = "hung"` is the main thread blocked in close()'s `runBlocking` while
`initJob`, which needs the main thread, still runs (VoiceInputAction.kt:975).
`typed` is a history variable: which run's text went into which transaction.

### KeyboardState and TouchInput

One touch makes a chain of calls (a press, a code, a shift update, a release,
perhaps for several fingers), so KeyboardState's events are functions from a
state to the next, and so are the trackers' handlers in TouchInput. An action
applies them to `Now` and `Become`s the result. `c[p]` is what the editor answers
about capitals during the calls tracker p makes; the actions choose it freely.

A key that stays in place on the new layout stays under the finger; otherwise
the finger is on any non-modifier key of the new layout (`KeysAt`). The layouts
are in a git submodule, so `KeysOf` is external, a small stand-in for each kind
of layout. `drawn` and `timer` belong to the keyboard shown: every layout change
makes new keys and cancels the long-press timers
(KeyboardLayoutSet keeps no cache; MainKeyboardView.java:388).
`config_key_selection_by_dragging_finger` is true in every resource file, so the
"HACK" branches of PointerTracker.java:912-946 are unreachable and not modelled.
`shown` says whether the window gets new touches; a rotation saves the state and
takes the window down until the framework starts input again. `hist` holds what
the properties refer to: the letters the last step sent, the layout a chord began
on (`home`), and whether a tracker was stopped while a modifier was in use. `home`
is forgotten where the code does not return to it: when a finger is dragged off or
onto a modifier key, and when, after the symbol key's release, the phantom up of
another key switches layouts in the same step (`LeaveHome`; this takes three fingers,
see section 4). The loops over the queue, which call a handler per tracker and then
close the gaps, are recursive functions (`PhantomUps`, `Keep`).

Left out: more-keys panels, flick keys, key repeat, the delete slide, the noise
filter, touches beside every key, the Japanese state hint and the four alphabet
variants (one kind here).

### WhisperModels

Three kinds of threads. The main thread opens, restarts and closes windows,
walks over the map in `cancelAll`, starts clean-ups and, in onDestroy, blocks until
one is over. Workers run the preloads and the runs: `Begin`, `Load`, `PutModel`,
`ReadModel` and `Enter` are the places between which another thread may change
the unsynchronised map. The inference thread takes one task at a time;
`StartInfer` and `EndInfer`, `StartClose` and `EndClose` are the two ends of a
native call.

`overlap` is a history variable: a clean-up met another user of the models, or two
jobs loaded the same one. `crash` is the exception that nobody catches, after
which the process is gone. "modified" (cancelAll meets the put of a new model, a
ConcurrentModificationException) needs no clean-up; FaultsNeedOverlap leaves it out.
Models and engines are taken by CHOOSE, because new ones differ in nothing.
`languageSpecificModels` is empty in VoiceInputAction.kt (lines 276 and 551), so the
language bail-out and a second model are not modelled, nor are a file that is no
model and stale reads of the handle, which is not volatile. How a cancel races
with the start of an inference is in AudioRecognizer (NoSpuriousAbort).

### SuggestionPipeline

Suggestions are known by the content of the composer they were computed from, a
number. The main thread is cut where a handler has changed the composer and has
not yet made its request (`main.at = "request"`), where it waits, and where a
refresh has read the strip. `dictionaryScope` runs one job at a time, in steps that
another thread can see between: the check of the number (`Begin`), the reading of
the composer (`Read`), the second check (`Test`), the strip and the correction
(`Show`, `Apply`), the completion (`Complete`). computationMutex is never contended,
because nothing suspends while it holds it. The composer is read twice in the code,
for the dictionary and for the language model; one `Read` stands for both.

`raced` marks the cases in which the code does let a result overtake a handler: a
result that comes in while a word is cut at the cursor (section 4), a refresh that
shows what it read before a newer result, and a wait that a gesture's request
outruns (`Outrun`): the handler thread cancels the job waited for, or takes its
number away between the reading of the composer and the second check, so that it
completes without showing what it computed. Further behaviour the model has and no property speaks
against: after the 450 ms timeout the word is committed as typed; a gesture's last
request is dropped when a newer request exists before it starts, although
GeneralIME.kt:439 lets old gestures pass; a late result of a gesture replaces the
letters typed since, on the computing thread; the suggestions of the old field may
come in after the new field's strip was cleared.

### PersonalDictionary

Calls come from the main and from binder threads, the tasks run one by one on the
executor. Reload, flush and their file operations are cut at every step a kill or
a failure can fall on. A dictionary's content is a number: the version of the
system's user dictionary it was read from, or how many learned words it has. A file
is such a number, `Torn`, or missing. The first object of a service is always
recreated from the system's dictionary (`recreated`), later ones are not.

`missed` and `lost` are history variables that name the exceptions: a change that
came while another language was in use, or after a reload had read the system's
dictionary but before it cleared the mark; a failed file operation or a kill
between the removal of the old file and the rename. UsableInTheEnd makes one more
exception: a body that was cut off unnoticed opens as an invalid dictionary, and
isReloadRequired asks for null only, so that it is never reloaded. Left out:
migration between formats, single removals, imports, the contacts dictionary. An
object that the cache of history dictionaries gave up counts as a new object.

### NestedMap, TrieKey and TrieMap

`TrieMap` is the array of entries as it is: bitmap entries with their tables,
terminal entries that hold a value or link to a value and a next level, free lists by
size of table. Its operations are those of LanguageModelDictContent: an n-gram is
put word by word, each word in the level of the one before. `Implements` is the
refinement: under the mapping that reads every path back with `Get`, each
operation does to `NestedMap` what it says and nothing else, also when the buffer
ends in the middle of it. `TrieKey` is the order in which the bits of a key are
used; MCTrieMap picks keys that agree in their first three labels. The recursion over
levels is written as recursive functions.

### WordStore and PatriciaTrie

`PatriciaTrie` has the trie of nodes with one or more letters, the table of terminal
ids, the n-gram content as a `NestedMap` (which TrieMap implements, so that the
two runs together cover the dictionary down to the array) and the counter of
words. A node is never rewritten where it is: `Reallocate` writes the new ones and
turns the old one into a link. `WordStore` promises less than one would like,
and the refinement shows that it is what the code does: a removed word may be found
again without an entry when a node that still has its id is split ("ghost");
and a pair whose second word is removed is only hidden until a collection. Ids are used
again after a collection.

Left out: words at the beginning of a sentence, shortcuts and flags, n-grams of
more than two words, failing writes. Which entries are old is chosen freely
(`truncateEntries`). The arrays that forward links chain are one sequence. No Java
code calls removeNgramEntry; it is modelled as the native interface offers it.

## 3. Runs

| Run | Question | Bounds | Distinct states |
|---|---|---|---|
| `ar_service` | one open microphone, live recordings, one answer of the own audio; refinement | 3 sessions, 3 AudioRecords, 1 run, 1 waiting restart per loop, Groq in two passes | 447 000 |
| `ar_runs` | cancelled runs and inferences; every finish is answered | 2 sessions, 2 AudioRecords, 2 runs of 2 passes, Groq in one pass | 117 000 |
| `vb_bar` | transactions and the bar's flags; the keyboard comes back | 4 sessions, 3 runs, 1 restart, 2 fields, prebuffering | 32 000 |
| `tk_touch` | press order, one modifier, modifiers come to rest | 2 fingers, 4 keys, gestures | 461 000 |
| `tk_layout` | lock, preference and momentary symbols on all layouts | 2 fingers, 6 keys | 164 000 |
| `wm_models` | no inference on a freed model, no fault without overlap; onDestroy and the jobs end | 2 models, 2 native states, 2 jobs, 2 clean-ups | 478 000 |
| `sp_words` | a separator commits its own word; every word gets its suggestions | 3 contents, 3 requests, predictions on | 571 000 |
| `pd_dict` | saved words stay, no unnamed staleness, one reload at a time; usable in the end | 2 objects, 2 changes, 2 learned words, 2 waiting tasks, 1 failure, 1 kill | 1 576 000 |
| `tm_map` | tables disjoint, iteration complete; refinement of NestedMap | 4 operations, 7 n-grams over 4 keys, 3 values, 20 entries | 44 000 |
| `pt_dict` | buffers sound, ids lead back, a proper tree; refinement of WordStore | 4 words, 1 pair, 4 nodes before additions are refused, 1 old entry at a time | 86 000 |
| `vb_old_text`, `sp_fast` | violated, see section 4 | small | |

Why these bounds are enough:

* A hazard of the recogniser involves a session, the one that ends it and, for
  a deferred restart, the one after that: three sessions, hence three
  AudioRecords. What an earlier run does to a later one needs two runs; a third
  can only repeat it, because every run waits for the inference thread alone and
  every session cancels only the run of the field.
* Two passes per run are needed for a cancel between them. `Groq` differs
  between runs because the liveness run must include the branch that skips the
  local model, and the refinement holds only when a run answers at most once
  (section 4).
* Two text fields are enough for "another field"; 4 sessions let the bar
  record, be stopped, record again and be closed.
* Every rule of the pointer queue relates one pointer to an older or a newer
  one, and every chord is one modifier and one other key; two fingers. One case
  needs a third, the one `LeaveHome` names; `tk_layout` with three fingers passes as
  well (1 570 000 states, too long for a regular run), and TouchInput_proof holds for
  any number. The pointer ids are interchangeable (no definition tells them apart), so
  `SYMMETRY` is sound; neither touch run checks liveness.
* The instances of `tk_touch` and `tk_layout` split the keys: gestures begin on
  letters only, and the number and alternative keys behave as other non-letters
  in the queue.
* Every fault of the models is between one preload or run and one other thread;
  two jobs and two clean-ups give each of them an opponent of its kind. WorkEnds
  needs as many native states as jobs, because the bound would otherwise end a
  load that the code makes.
* A stale result needs the content it was computed from, the one it meets and the
  one a cut leaves: three contents, three requests.
* A dictionary object matters to the file only while it is in use or as the one
  before: two. The faults of the file are single ones; what a second failure could
  break the first has already put under `lost`.
* The trie map's cases are a conflict, a conflict inside a conflict, a level below an
  entry, a freed table used again and a full buffer; `MCTrieMap`'s keys make the
  first two, seven n-grams over two levels the third, four operations with a
  collection the others. 20 entries are few enough that the buffer ends.
* The patricia trie tells apart: no common letter, a prefix in either direction, and
  branching inside a node. `MCPatriciaTrie`'s four words have all of them, and
  reach splits of split nodes. Its states are bounded by SizeLimit, where the
  code refuses to grow (with the real number of bytes), and by the collection that
  follows; more old entries at once (MaxOld = 2) reach no new
  state of the trie.

`CHECK_DEADLOCK FALSE` stands in the configurations of the voice input, the
suggestions and the personal dictionary, because the bounds end a behaviour, as do
a user who does nothing more, a destroyed service, an exception and, in the bar, the hang of
section 2. The touch and trie runs do check deadlock.

Fairness, used by the liveness properties only:

* EveryFinishAnswered, KeyboardComesBack: the main looper runs what was posted to it
  and the dispatcher serves every worker (weak fairness of each coroutine's steps).
  `InferEnd` has strong fairness, because an inference may report any number of
  partial results but whisper_full bounds its tokens (max_tokens in the JNI code).
  For the bar, the recogniser's part is its own liveness, and the recording ends by
  itself after a minute (`AutoFinish`).
* WorkEnds: weak fairness of the main thread's handlers, of each worker and of the
  inference thread.
* StripCatchesUp: the main thread finishes its handlers, dictionaryScope and the
  handler thread go on (weak); a posted block gets its turn in the looper's queue
  although refreshes may keep coming (strong, for `Dispatch`).
* UsableInTheEnd: the executor goes on (weak); while a dictionary is in use words are
  looked up, and a lookup gets the read lock in the end (strong), because it is the
  lookup that asks for the reload.

No user action is fair otherwise: nobody has to press a button.

## 4. Where the code differs from what it says

Two are runs that TLC must find violated.

| Run, property | What happens |
|---|---|
| `vb_old_text`, OwnTransaction | stop, then start: the first text is committed into the second recording's transaction |
| `sp_fast`, SameHoweverFast | a space in the middle of a word while its suggestions come in replaces the half before the cursor by the correction of the whole word |

The others are formulas the modules keep for a reader who wants the trace; adding
them to a configuration, or changing the constant named, shows it.

| Property | How to see it | What happens |
|---|---|---|
| AudioRecognizer, AnswerIdMatches | `ar_runs` | the block that delivers the text compares the session id, yields (AR:1075), and delivers without comparing again |
| AudioRecognizer, AnswerOnce | `ar_service` with Groq = "single" | with Groq in a single pass the text is posted at AR:994-999 and again at AR:1072-1077 |
| AudioRecognizer, AnswersOwnAudio | `ar_service` with MaxRestart = 2 | two restart coroutines wait for one loop; both record, into the same buffer |
| AudioRecognizer, LiveRunIsCurrent, NoSpuriousAbort | `ar_runs` with MaxRestart = 2, MaxMic = 3 | the same: each of the two coroutines begins a recording, and the finish of the second forgets the run of the first, which no reset cancels any more |
| AudioRecognizerRefinement, ImplementsService | `ar_service` with MaxRestart = 2, MaxRun = 2 | the same: for a window the forgotten run is one that its reset cancelled |
| VoiceBottomBar, StopStops | `vb_old_text` | the stop button does nothing while a restart is pending; the bar then records without showing it |
| VoiceBottomBar, MicOffOutsideInput | `vb_old_text` | close() reopens the microphone for prebuffering, in a window that is gone |
| TouchInput, LockMaintained | `tk_layout` | after a rotation caps lock is shown but forgotten at the next visit to the symbols (KeyboardState.kt:279) |
| WhisperModels, CleanUpOnlyWhenClosed | `wm_models` | cleanUpPersistentStates compares a MutableState with an Action (UixManager.kt:1540), which is never equal, so that the models of an open window are cleaned up, against Action.kt:175 |
| PatriciaTrie, NoUselessNode | `pt_dict` | mChildrenValue is reset on the way down only, so that a node without children is judged by the children of the sibling before it: a useless node is kept, against the comment at dynamic_pt_gc_event_listeners.cpp:29 |

Other behaviour met while modelling the keyboard, which the properties
of `tk_touch` and `tk_layout` state around (see the hazards): a modifier held while its
tracker is stopped stays in use; a slide off or onto a modifier during a chord
switches the layout twice; a cursor slide that ends in a gesture swallows the
pointer's next touch; a finger that lifts after its phantom up releases every
newer finger; and when one finger holds the symbol key, a second one the key of the
number layout and a third goes down on a letter or a modifier, the symbol key is
released first, which brings the letters back, and the second finger's phantom up
then shows the number layout after all (three fingers in `tk_layout`, SymbolsMomentary
with `home` kept in `LeaveHome`).

## 5. Proofs

A theorem holds for every value of the constants that the module's assumptions
allow. Those assumptions say that bounds are numbers, positive where the code has
at least one of the thing, that names differ (and None is no number), and that words are
sequences of letters with at least one; nothing else is assumed. Where a
theorem has a hypothesis of its own, it stands in the statement, and section 4 says
how the property fails without it.

Each proof has the same form: an inductive invariant, a lemma for each helper
that says once what it does to the invariant, and the step lemma with one case per
action. TLC checked each inductive invariant on an instance of its own before it was proved
(two objects or three for PersonalDictionary, contents and requests up to four
for SuggestionPipeline, three sessions for the refinement, two fingers and, on all
layouts, three for TouchInput, the bounds of the runs elsewhere).

### AudioRecognizer_proof

* `TypeCorrect`: TypeOK. It is not inductive: the countdown of passes must not go
  below zero, so `TypeInv` adds that a run which is not yet transcribed has a pass
  left.
* `MicrophoneSafe`, `RecorderStaysUsable`: MicExclusive, RecorderUsable. MicExclusive
  is not inductive: startPrebuffering overwrites the field without releasing what it
  held, which is harmless only because an open AudioRecord has isRecording or
  isPrebuffering set, both of which it tests first. `OpenIsOwned` says so.
* `AnsweredOnce`: AnswerOnce, if Groq # "single". `AnswerInv` says that a block is
  posted by a run's last step only, at most one per run, and that a run with a block
  has not been answered.
* `RecordingStaysLive`: RecordingIsLive. `RecordingInv` says that while the flag
  is set, the AudioRecord of the field is the one that the loop of the field reads, and that
  nobody has asked this loop to stop.
* `LiveRunsAreCurrent`, `NoRunAbortedByMistake`: LiveRunIsCurrent and NoSpuriousAbort,
  if MaxRestart = 1. finish() forgets the run of the field without cancelling it; this
  loses nothing because no run is live while a recording is made or about to begin
  again (`RecordsAlone`), and for that no second restart may come after the finish of
  what the first one began (`OneRestart`).
* `AnswersTranscribeOwnAudio`: AnswersOwnAudio, if MaxRestart = 1. `AudioInv` follows
  the samples from the loop into the buffer, the run and the posted block.
* `RecognizerImplementsService`: Spec implements RecognizerService's Spec under the mapping
  of AudioRecognizerRefinement, if Groq # "single" and MaxRestart = 1. It is the step
  simulation: initial states map to `Idle`, and every action to one action of the
  service (the first half of a handler to a stutter, its second half to the call; a
  run's posting to the service's, or, when it read the new id, to `Late` later on). `RefInv` joins LiveInv and AnswerInv with
  `SessionFacts`: a run that no handler cancelled is the field's and belongs to the session
  that still counts, its id is of that session or the one the handler has just
  taken, and a block under the new id was posted after the handler began and is neither
  checked nor delivered before its end. So what VoiceBottomBar is checked and
  proved on is what the recogniser does, as long as the two hypotheses hold.

### VoiceBottomBar_proof

`BarTypes`, `BarOwnsTransaction`, `SparedTransactionCommits`: BarTypeOK, TransactionOwned,
FinishedWillCommit. Their conjunction is inductive, but handlers compose calls, and
between two calls it may not hold: the lemmas say what each call needs of the record it
gets and leaves in the one it returns (`Owned`, `Quiet`).

### TouchInput_proof

`TouchTypes`, `KeyboardComesBackAsShown`, `OneModifierAtATime`, `ModifiersComeToRest`,
`LettersInPressOrder`, `SymbolsAreMomentary`: every property of `tk_touch` and `tk_layout`,
for any number of fingers. One invariant of a state s carries all six:

* `Typed`: the types, with ComesBackAsShown as part of what a keyboard state is
  (`KeyboardOK`), because every event of KeyboardState preserves it alone, whatever
  order the trackers call them in.
* `Settled`: only a dragged finger slides, and a finger that is down and no longer
  queued is disabled. Without it a finger that has had its phantom up could press keys.
* `OneHolds`: OneModifier is not inductive. A finger that is on no key and was not
  dragged there may still go down on a modifier key, when onMoveEvent finds one under
  it; so such fingers count (`Candidate`).
* `Owned`, as long as no tracker was stopped: for each modifier in use the queue has a
  finger that will report its release, and during a gesture none is in use.
* `Away`: while the symbol key is in use, its release leads to `home`, and no active
  finger is on a key, or slides, so that it could change this before.

Handlers are chains of calls between which the invariant may not hold. For each call a
relation says what it does to the state (`Pressed`, `Lifted`, `Upped`, `Phantomed`,
`DraggedOut`, ...), proved once from the definition; after that the definition is not
opened again. A handler's lemma composes relations into one statement of what
it leaves to the next (`Handled`): the invariant, the letters sent in order, and
Momentary. What a loop over the queue does (`Kept`, `Looped`) is shown by
induction over the place in the queue, as the absence of a smallest counterexample:
`WFMin` and `NatLessThanWellFounded` of WellFoundedInduction take no operator as a
parameter, unlike the induction theorems proper.

### WhisperModels_proof

* `WhisperTypes`, `WhisperInfersOnOpenEngine`: WhisperTypeOK, InfersOnOpenEngine. `IInv` adds
  to the types which states of a job have a model and an engine (`JobOwns`), that an
  iterator not told of a modification holds keys of the map only (`MainIterates`,
  `CleanUpsIterate`), that the native call is the first task's (`NativeTask`). The step
  that matters is `StartInfer`, which tests the handle and not the native state: it is
  safe because a state that is freed and still has a handle is the one of the close
  task the thread is in (`FreedInClose`), and the thread is in one native call at a
  time.
* `WhisperFaultsNeedOverlap`: FaultsNeedOverlap. `FaultInv` says what no overlap means for
  everybody: a clean-up is alone with the map (`CleansAlone`), two jobs are not about to
  load or put the same model (`LoadsApart`, `PutsApart`), what a job or the map holds is
  open (`JobsFind`, `MapOpen`) and no open state is lost (`NoneLost`).

### SuggestionPipeline_proof

* `SuggestTypes`: SuggestTypeOK. `PipelineInv` says that jobs run in the order of their
  numbers and that a wait is for a job that exists.
* `OwnWordCommitted`: CommitsOwnWord. A separator looks at numbers only: it waits until the
  last request is completed. `WordInv` says what a number stands for as long as nothing
  named by `raced` happened: a job with the last number has read the word that is in the
  composer now, and what it left in the correction and the strip is that word's
  (`LastReadsIt`); a job that ends a wait without that was outrun (`Overtaken`).

### PersonalDictionary_proof

* `PersonalTypes`, `OneReloadAtATime`: PersonalTypeOK, ReloadingHasTask, with `TasksOfUsed` and
  `TaskHasFiles` about what a task finds when it runs.
* `SavedWordsStay`: SavedOnDisk. `Undisturbed` says that a flush which nothing disturbed has
  written what the dictionary holds, `NothingBehind` that no object and no file is
  behind what was saved, and that files are deleted only when nothing was.
* `CopyIsFresh`: FreshUnlessMissed. The content may come by four routes (the file, a reload
  that waits, one that reads, one that writes); `FileFollows` says that one of them is
  always open, `OldReloadsFirst` that a reload of the old object, whose rewrite would
  meet the new one's, comes before the new one's first.

### PatriciaTrie_proof and NativeDictionary_proof

`BuffersAreTyped`, `TrieIsTree`, `WordsAndIdsLeadBack`, `DictionaryIsStore`: DictTypeOK, TreeOK,
IdsLeadBack and ImplementsStore, every property of `pt_dict`, for any set of words and
any size limit. One invariant, `IndInv`, carries all four:

* `Good(d, text)` is what holds of the buffers: `Buffers` (no position leads out of
  them, and the link of a moved node leads to a later one), `Tree` (nodes and arrays are
  a tree), `Ids` (terminal nodes and the table lead to each other, a deleted node to
  nothing) and `Spells` (text[p] are the letters from the root to p, a word if p
  is terminal). The text is not in the state; there is exactly one, and it turns
  questions about paths into questions about one node and its parent.
* `LmOK`: the language model speaks of ids of the table. `Cleared`: a removed word has no
  entry in it. And `known` is what the buffers tell (`View`).

*Reading.* Looking a word up goes down the trie by a recursive function, spelling an
id out goes up by another, and links are followed by a third. `Recursion` and the lemmas after
it say once when such a function exists and what it is (its calls have a smaller
measure), by the smallest counterexample again; the measures are the letters left,
the length of text[p], the distance to the end of the trie. `FoundIs` then says that the
node found for w is the terminal p with text[p] = w, if there is one.

*Writing.* Every operation is put together from a few changes of the buffers: `GiveId`,
`CopyTo` (a node moves to the end), `Break` (a node is cut in two), `Leaf` (a new node at
the end of an array), `NewArray`, `Delete`. For each, one lemma says that it keeps Good
and one what it does to the words and ids (`Entries`, `Gone`). The code splits a node in one go, writing two nodes
and one link; the proof takes it as a copy that is then broken (`SplitIsGood`), so
that no change moves two things at once. `Relinked` is why old positions stay good: what
led to a node leads to its copy.

*Collecting.* That the first traversal ends and visits each node once needs a measure
of its own (`Depths`: how far below the root an array is, then the place in it). What it keeps
is closed under parents (`Closed`); what the copying passes write is the `Image` of that
under the order-preserving renumberings `Rank` of nodes, arrays and ids, and an image of a
tree is a tree (`ImageIsTree`, which a moved and a deleted node use as well).

*The store.* `Seen` relates the store's status and pairs to Entries, Gone and the language
model; for each operation a lemma about these (`Adds`, `Collects`, ...), in which
no trie occurs any more, shows the step of WordStore. That a removed word becomes a ghost only
if it branches off inside the last letters of the new word's node (`Splits`) comes out
of `Break`: it is the only change that makes a deleted node plain.

For these proofs the recursive functions of PatriciaTrie take one argument, a record or
a pair, and first matches are found as the least index.

`ShuffleIsInjective` (TrieKey): two different keys have different shuffled keys. That the
labels of levels 0 to 6 then tell the shuffled keys apart (they read off all of
their bits) is not proved: it takes powers of two up to 2^31, which the provers do not compute
with. Together the two say that keys that conflict on every level are the same key,
on which the end of addNewEntryByResolvingConflict relies; the runs of TrieMap meet
conflicts on three levels.

### Only model-checked

Liveness (EveryFinishAnswered, KeyboardComesBack, WorkEnds, StripCatchesUp,
UsableInTheEnd) is out of the prover's reach.

TrieMap (TrieMapTypeOK, TablesDisjoint, IterationComplete, Implements) is model-checked
only. Its buffer is an array of numbers in which tables lie side by side; an
argument like that of PatriciaTrie would first need lemmas on counting the set bits
below a bit, by which a table's entries are found, and on runs of the buffer
that do not overlap. Since PatriciaTrie's language model is a NestedMap, what is proved of
the dictionary down to the array rests on the run `tm_map` for its n-grams.

## 6. What is not modelled, and the plan

Not modelled at all: the suggest engine's search, the static dictionaries, layout
computation, the Compose interface, settings, updates, the Japanese converter,
the spell checker, training. PROJECT.json gives each a reason.

The native directory holds 250 000 lines of C and C++, of which all but some
thousands are vendored libraries and tables (sentencepiece's normalisation rules
alone are 137 000, ggml, llama and whisper most of the rest). They are not this
program's logic, and what is can be modelled only in part: so the lines mapped are
a small share of all lines there.

What could come next, in this order:

1. Theorems: TrieMapTypeOK and TablesDisjoint of TrieMap.
2. `PrebufferRing`: AudioPrebufferRecorder's ring, read on the main thread while the
   reading thread advances its indices (AudioPrebufferRecorder.kt:119).
3. `ImeManager`: the debounced selection updates, which are applied 20 ms later to
   whatever field there is (IMEManager.kt:272), and the switches of engines.
4. The dictionary facilitator: the group of a language, switched against a pending
   asynchronous load.
5. The classic voice window, more-keys panels, key repeat and flicks in TouchInput;
   the expected cursor of the text engine.
