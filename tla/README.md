# A TLA+ specification of the QuickConnect firmware

This directory specifies the firmware of AWS IoT Device QuickConnect for
ESP32 boards (`main/`, `components/`). The firmware brings a freshly flashed
device online: it joins a Wi-Fi network, generates a private key, claims a
certificate from Espressif's claiming service, tells a utility on the serial
line what it is doing and which certificate to register, connects to AWS IoT
over TLS and MQTT, and publishes a sensor value every second. There are seven
FreeRTOS tasks of `main.c`, one of the claiming client and ESP-IDF's event task, two event groups, a dozen globals
without a lock, and one partition of non-volatile storage. What is hard is how
these interleave, fail, retry and survive a reset; that is what is modelled.

## The system

| Component | State | Operations | Talks to |
|---|---|---|---|
| Network handling, `prvNetworkHandlingTask` (main.c:698) | its copy of the bits of one wait | waits for `INIT_BIT` or a failure bit, clears them, and starts a job for each: `esp_wifi_connect`, key, certificate, TLS, MQTT | creates tasks; reads `xNetworkEventGroup` |
| Private key, `prvGetPrivKeyTask` (main.c:455) | `pcDevKey`, `pcDevCert`, `pxSelfClaimData` | read key and certificate from storage; if one is missing generate a key and a CSR and store the key; report | storage, claim client, both event groups |
| Certificate, `prvGetCertTask` (main.c:538) | `pcDevCert` | read it; if it is missing wait for key and address, claim it, store it; report | storage, claim client, both event groups |
| TLS, `prvTlsConnectionTask` (main.c:606, networking.c:91) | `xNetworkContext.pxTls` | wait for credentials and address; free the old connection; connect; report | ESP-TLS |
| MQTT, `prvMqttConnectionTask` (main.c:652) | `xMQTTContext` | wait for TLS; connect; report success, failure or transport failure | coreMQTT over `pxTls` |
| Sending, `prvQuickConnectSendingTask` (main.c:762) | none | every second wait for MQTT and publish; on failure withdraw both connections and report | coreMQTT over `pxTls` |
| Event handlers (main.c:382, 426) | none | translate Wi-Fi and IP events into bits | run in ESP-IDF's event task |
| Utility output, `prvUtilityOutputTask` (main.c:890) | the wait it is at | five waits in a row, each followed by a line on the serial port; the last prints the certificate and the thing name | reads `xUtilityOutputEventGroup` and `pcDevCert` |
| Storage helpers (main.c:164, 233) | partition "runtime" | read and write a string | ESP-IDF NVS |
| Boot and identity (main.c:293, 973) | node id, thing name, Wi-Fi credentials, endpoint | read the provisioned values, generate the identity once, start the tasks | storage, Wi-Fi driver |
| Self-claiming client (esp_rmaker_claim.c) | claim data: CSR, payload, state | key and CSR in a task of its own; two HTTP requests with a challenge; frees the data | claim service, JSON generator and parser |
| JSON generator, JSON parser and jsmn | output buffer; tokens | vendored libraries | claiming client |
| networking.c's clock and callbacks | the time of start | 32-bit milliseconds for coreMQTT | coreMQTT |

What makes each of them correct:

* **Network tasks.** A failure is repaired exactly once: no job has two tasks,
  no job is forgotten. The bits that other tasks wait for are true. `pxTls` has
  one user at a time. The device always comes back to publishing.
* **Credentials.** Key and certificate belong together: in the globals when the
  TLS task is told so, in storage at any moment a reset can strike, and with
  what the utility registered. A complete pair is never replaced.
* **Utility output.** No wake-up and no outcome is lost; once it knows of the
  Wi-Fi connection the utility hears how the key came about and, if there are a
  key and an address to claim a certificate with, how that ended.
* **Self-claiming client.** A request to verify from data that is live answers the challenge of its own
  session and carries the CSR of the key that was generated, through two
  conversions of newlines and a buffer shared by requests and answers; the
  certificate returned is for that key; every call returns.
* **Boot, identity, clock.** A thing name that was printed for the utility to
  register stays the device's, wherever a boot was interrupted. No Wi-Fi event
  reaches a handler before both event groups were created. coreMQTT measures its waits
  across the wraps of a 32-bit clock.
* **JSON generator and parser.** The text does not depend on the buffer it was
  cut into; a document is accepted and a cut one is not; tokens are the tree of
  the document, and look-ups find the right value in it.

The hazards, each with the line where it bites and the properties that would
catch it, are in `PROJECT.json`.

## Modules

| Module | Models | Lines of code behind it |
|---|---|---|
| `NetworkTasks` | the handling task, one-shot tasks, sending task, event handlers, driver | main.c:382-444, 455-855 (control), networking.c:91-129, 267-298 |
| `Provisioning` | key task and certificate task step by step, globals, storage, claim data, resets | main.c:164-278, 455-599, 890-964, esp_rmaker_claim.c:155-201, 400-537 (outcomes) |
| `UtilityOutput` | the reporting task and its event group; abstract reporters | main.c:84-92, 890-964 |
| `Claiming` | abstract: what the claiming client promises main.c | esp_rmaker_claim.c:421-454, 507-537 |
| `SelfClaim` | the claiming client: its task, its two requests, its buffer, its conversions; the service | esp_rmaker_claim.c:59-547, esp_rmaker_claim.h |
| `Boot` | `app_main`, the identity, event groups and tasks being created, the MQTT clock | main.c:164-367, 973-1061, networking.c:70-87, 153-169, 302-325 |
| `JsonGenerator` | the JSON generator: its buffer, flushes, commas and return values | json_generator.c (all) |
| `JsonGrammar` | nothing of the code: JSON texts as RFC 8259 has them, as a machine that reads them | |
| `Jsmn` | the tokenizer, one step for each iteration of a loop, and the two passes of `json_parse_start` | jsmn.h (strict, parent links), json_parser.c:365-400 |
| `JsonParser` | look-ups, getters, entering and leaving, on the tokens of `Jsmn` | json_parser.c |
| `MC*` | instances for TLC | |
| `SequenceLemmas` | nothing of the code: least elements, concatenation, `FlattenSeq` | |
| `*Proofs` | theorems and their proofs | |

How they compose:

* `NetworkTasks` abstracts what the key and certificate tasks compute to an
  outcome. `Provisioning` abstracts the handling task to "restarts a task whose
  failure bit is set", which the theorem `OneOfEach` of `NetworkTasks` justifies:
  there is at most one key task and one certificate task at work, so one program
  counter each is enough.
* `Provisioning` implements `UtilityOutput` for the task that reads its event
  group (`ImplementsUtilityOutput`).
* `Claiming` is between the claiming client and its users: `SelfClaim`
  implements it from below, and the key and certificate tasks of `Provisioning`
  implement it from above (`ImplementsClaiming` in both). So what `Provisioning`
  assumes of a claim is what the client does, for a claim from live data. Of a
  claim from data that was freed `Claiming` promises nothing, and both allow any
  such step (`ClaimFromFreed`): that main.c makes one is for `ClaimHasCsr`, which
  `provisioning_retry` shows violated.
* `JsonParser` extends `JsonGrammar`, which says what a document is, and this
  the characters of `Jsmn`. `SelfClaim` takes a document as the fields that
  it has; that a cut answer is never taken for a document with other values is
  `AcceptsDocuments` of `JsonParser`, that a request is its text is
  `TextKept` of `JsonGenerator`.
* `Boot` ends where the initial states of `NetworkTasks`, `Provisioning` and
  `UtilityOutput` begin.

### NetworkTasks: state and actions

* `net` is `xNetworkEventGroup` as the set of its bits; names lose `_BIT`.
* `todo` is what is left of one pass of the handling task: the jobs for the
  bits its wait returned. `HandlerWait` is the wait with clear-on-exit;
  `HandlerWifi` and `HandlerCreate(j)` do the jobs in the order of the `if`s
  (`Earlier`). `HandlerCreateFails(j)` is `xTaskCreate` without heap.
* `pc[j, c]` is where copy `c` of a one-shot task is. A task that has reported
  is at `"exit"` and still exists; the handling task has a higher priority and
  may create its successor first, hence the copies.
* `KeyDone`, `KeyFailed`: the outcomes of the key task. `CertStored`,
  `CertMissing`, `CertWait`, `ClaimDone`, `ClaimFailed`: the certificate task.
  `TlsWait` ... `TlsFailed`, `MqttWait` ... `MqttSet`, `SenderDelay` ...
  `SenderSet`: one action per call that touches shared state. Clearing bits and
  setting bits are two calls in the code and two actions here (`MqttClear` and
  `MqttSet`, `SenderClear` and `SenderSet`, `OnDisconnected` and
  `OnDisconnectedSet`).
* `pxTls` is what the pointer points at: nothing, an initialised connection, an
  open one, or freed memory (`xTlsDisconnect` does not reset the pointer).
* `wifi`, `dhcp`, `evq`, `evt` are external: the driver, the DHCP client, the
  default event loop's queue and the event task. They are modelled from the
  way main.c uses them: the handlers run one at a time, in the order of the
  events; an attempt to connect ends in one event; an address may be announced
  for as long as the interface is up, which ends when the event task gets to
  the disconnection.

### Provisioning: state and actions

* A private key is a member of `Key`; a CSR and a certificate are named by the
  key they belong to. `Unread` is what an allocated buffer holds before
  anything is read into it.
* `nvs` is the storage; `pcDevKey`, `pcDevCert`, `pxSelfClaimData` are the
  globals, `csr` what the claim data was made for.
* The actions of the two tasks follow the code call by call. `NvsGetStr` is
  the set of results of `prvNvsGetStr`. A claim ends as `ClaimDone`,
  `ClaimInitFails` (the data is kept) or `ClaimVerifyFails` (it is freed).
* `notes` holds the outcomes a task has set in the network group and not yet
  in the utility group; the handling task can restart it in between.
* `Reset` keeps `nvs` and loses the rest. It stands for power loss and for
  every abort in the code (`ESP_ERROR_CHECK`, an allocation used unchecked, a
  task function that returns).
* `registered` is a history variable: the certificates printed so far.

### UtilityOutput: state and actions

`SetUtil` is `xEventGroupSetBits` as FreeRTOS does it: if the task is blocked
on one of the bits it is handed all bits at that moment, and the ones it waited
for are cleared, before it runs. `UtilWait` takes bits that are there or blocks;
`UtilWifi` ... `UtilCertPrint` print and go to the next wait. `KeyStart`,
`KeyOk`, ... are the reports of any key task and certificate task. Between its
first report and its outcome the certificate task has found a certificate in
storage (`CertFound`) or has waited for the key and an address (`CertWait`,
main.c:553-555); `ip` is the second of these bits.

### JsonGenerator: state and actions

The generator is sequential; what is hard is that a document is cut into pieces
at places that have nothing to do with its structure. A call of the API (`Call`)
is the list of strings it hands to `json_gen_add_to_str` and the value it leaves
in `comma_req`. `AddStart` is the entry of that function, `AddFits`, `AddFlush`
and `AddDrop` are the three ways an iteration of its loop ends. `free_ptr` is the
length of `buf`; `out` is what the flush callback has collected, as the one of
the library's own test does. `text` and `doc` are history: all that was to be
added, and the document described by the calls so far, as the objects and arrays
that are open with their finished elements. `Render` writes that document with
commas between elements, without a flag. The guards of the calls (`Labels`) are
the rules of `json_generator.h` on which call may follow which. The functions for
arrays and objects differ in the name they add, so that one operator with a label
stands for both. Numbers, booleans and null are members of `Literals`.

### Claiming and SelfClaim: state and actions

* `Claiming` has three variables: what main.c's pointer points at, the key whose
  CSR is in the claim data, and the key whose certificate a claim has returned.
* In `SelfClaim`, `cd` is `esp_rmaker_claim_data_t`, which stays readable after
  it was freed; `payload` is the fields of the document in it. `made` is the data
  that `esp_rmaker_claim_task` has in its hands, `task` where this task is,
  `caller` where the calling task is in `esp_rmaker_self_claim_init` or
  `esp_rmaker_self_claim_perform`, and `path` which of the two requests is under
  way.
* `CallInit` ... `InitReturns` are `esp_rmaker_claim_init` and its task.
  `TaskNoMemory` is the task function that returns: ESP-IDF aborts the device,
  so it is a `Reset`.
* `Send`, `SendFails`, `Refused`, `Receive` and `ReadFails` are the ways through
  `esp_rmaker_claim_perform_common`. `ReadFails` is a length of -1:
  `payload[-1]` is the last byte of the buffer of the CSR, which is in front of
  `payload` in the structure. A full buffer writes the null to `payload[len]`
  behind it, which is `payload_offset`, a field nobody reads again.
* `PerformInit` looks at the pointer for null only, as the code does, so that a
  retry after the second request uses the data that was freed. It is still
  readable; `Overwritten` is the allocator handing it out to somebody else: at any
  moment the CSR or the document in it may be gone. What the client writes there
  or frees again hurts others, which is a `Reset`.
* `InitHandled` and `VerifyHandled` are the rest of the two handlers.
  A response is named by the challenge it answers.
* PEM texts are sequences over five characters. `escape_new_line`,
  `unescape_new_line` (with what it does to two escapes in a row and to a null
  behind an escape) and the service's decoding are functions on them.
* The service opens a session for each `claim/initiate` and closes it when it
  grants a certificate. It need not answer, and any field of an answer can be
  missing.

### Boot: state and actions

* `provisioned` are the strings the utility has flashed, `nvs` the stored
  identity, `pcThingName` and `pcNodeId` the globals, `pc` the step of
  `app_main`: three strings, event loop and handlers, `vNetworkingInit`, Wi-Fi
  credentials, identity (two reads, two writes), event groups, three tasks.
  A missing string or a failed write is one of its early returns (`"stopped"`).
* `groups` and `tasks` are what was really created, since the results of
  `xEventGroupCreate` and `xTaskCreate` are not looked at.
* `printed` is history: the thing names the utility was told of. The utility may
  flash its partition before any boot.
* `tick`, `ulGlobalEntryTimeMs`, `entry` and `waited` are the clock:
  `prvMqttGetTimeMs` computes modulo `WORD`, `entry` is a reading that coreMQTT
  has kept and `waited` what a clock without a wrap would say.

### Jsmn and JsonParser: state and actions

* One member of `Char` stands for each kind of character. `js` is the text,
  `pos`, `toksuper`, `tokens`, `count` are the fields of the parser, `loop` the
  loop it is in (main, string, primitive, or the search for the token that a
  bracket closes), `pass` counting or filling. Tokens are numbered from 1.
* `StringStart`, `PrimitiveStart`, `Open`, `Close` with `CloseUp` and
  `CloseFound`, `Colon`, `Comma`, `White` and `Unexpected` are the cases of the
  switch; `Partial` and `End` the end of the text.
* `JsonParser` adds `cur`, which the calls that enter and leave objects and
  arrays move, and `path`, the history of these calls. Getters are operators:
  the set of texts they can return.

## Runs

| Run | Configuration | Shows |
|---|---|---|
| `network_tasks` | two copies of each task, all results, `xTaskCreate` may fail | `OneHolder`, `TlsExclusive`, `BitsTruthful`, `WifiBitCurrent` |
| `network_live` | one copy, success or failure (of MQTT: in the transport or refused), fairness | `NothingAbandoned`, `KeepsPublishing`, `WifiReturns` |
| `network_dropped` | `xTaskCreate` may fail | **violated**: a job is dropped when a task cannot be created |
| `provisioning` | three keys, any number of resets, any claim or write may fail | `CredentialsMatch`, `RegisteredKept`, `StoredPairKept`, `ImplementsUtilityOutput`, `ImplementsClaiming` |
| `provisioning_retry` | two keys | **violated**: a retried claim uses freed claim data |
| `provisioning_read` | reads may fail | **violated**: a failed read replaces a stored key |
| `utility_output` | no parameters | `NoReportLost`, `UtilityFollows` |
| `utility_wifi` | no parameters | **violated**: a connection right after a disconnection is not reported |
| `self_claim` | two keys, two sessions, two challenges; any answer lost, cut or refused, any number of retries and resets | `AcceptableRequest`, `CertificateForKey`, `ImplementsClaiming`, `CallReturns` |
| `boot` | two thing names, a clock of four bits, any number of boots | `IdentityKept`, `EventsHaveGroup`, `WaitsMeasured` |
| `json_generator` | buffers of 1, 2 and 4 bytes or none, with and without callback | `RoomForNull`, `TextKept`, `WellFormed`, `LastCallTells`, `Delivered`, `CallReturns` |
| `json_parser` | documents of two levels by the grammar, their prefixes, some thousand other texts | `EnoughTokens`, `Forest`, `RoundTrip`, `AcceptsDocuments`, `ValuesRight`, `LeaveReturns` |

Every passing run also checks the type invariant of its module.

**Bounds.** `Copy` bounds the tasks of one function that exist at once. Two
copies are what it takes for a task that has reported to exist beside its
successor; `OneOfEach` is proved for any number. `Key` needs three members:
one stored, one claimed for and one newly generated; `FreshKeys` lets a key be
reused once nothing refers to it, so three are not a bound on the number of
generations. Resets have no bound. The event queue has no bound: `OneLiveStation`
keeps it short. The keys are symmetric: no property of the run names one, and
the run checks no liveness. In `json_generator` the sizes are those at which the
room for text is none, one character and three, so that cuts fall before, in and
after every piece; documents have up to two levels (`MaxDepth`) and no element is
added behind the tenth character (`MaxText`), which leaves room for two elements
at each level. A buffer of one byte is combined with a callback too: there the
loop does not end, which `CallReturns` says (`Endless`). The firmware itself has
a buffer of `MAX_PAYLOAD_SIZE` bytes and no callback. In
`self_claim` two sessions and two challenges are what it takes for an answer to
belong to another session than the request; the PEM texts have lines of one and
two characters, an `n` at the start of a line, and end with a newline or not;
they fit a buffer of six bytes exactly, so that the stray null of `ReadFails`
would hit a CSR that is longer. Retries and resets have no bound. In `boot` the
clock wraps after eight ticks, more than a time-out of five milliseconds takes;
the boots have no bound. The texts of `json_parser` are: objects and arrays of up
to two elements whose elements are such objects and arrays again, strings of
escapes, every prefix of the flat ones, all sequences of up to four lexemes,
documents with one lexeme put in, and all strings of up to three characters.

**Fairness** (`Scheduled` and `Answered` of `NetworkTasks`). Each task is
scheduled: FreeRTOS runs every ready task, the equal priorities round-robin. Of
the driver only this is assumed: that an attempt to connect ends, one way or the
other (`AttemptEnds`). A station that is connected may stay so for ever, and may be
dropped at any time.
The waits of the certificate and TLS tasks on `IP_GOT_BIT`, which the event task
clears, are strongly fair: `xEventGroupSetBits` itself releases the waiting
task, so that a bit cleared right afterwards does not undo it. The wait of the
MQTT task and that of the sending task are on bits that nobody else withdraws
(`Links` in the proofs), weak fairness is enough. The access point, DHCP, the
claim service and the broker are assumed to answer infinitely often if asked
infinitely often; without that a device cannot publish. Any finite or infinite
number of failures in between is allowed. `UtilityOutput` assumes that the key
task comes to an end, and a claim that was begun, HTTP having time-outs, not that
they succeed. Its certificate task finds a certificate or is blocked for as long
as there is no key or no address; neither is assumed to come. The wait, strongly
fair for the reason given above, ends if again and again there are both, and only
under this condition `UtilityFollows` says that the utility hears of the outcome.
(`Provisioning` is shown to implement `UtilityOutput` without its fairness.) In `JsonGenerator` a call
that has been made keeps running, and the callback returns. In `SelfClaim`
the claim task and the caller are scheduled, and an HTTP request ends,
`esp_http_client` having a time-out; the service need not answer.

## What is proved

`NetworkTasksProofs`, for any number of copies and any subset of results:

* `TypeCorrect`, `OneOfEach`, `TruthfulBits`, `ExclusiveTls` from the inductive
  invariant `NetworkInv`. The argument is a count: for each job, the parties
  that can hold it (the bit that asks for it, the handling task's `todo`, the
  task at work, the bit that says it is done, or the party that has withdrawn
  this bit and has yet to report) hold it once at most. The counts of the TLS
  and MQTT jobs are not inductive alone: the step that withdraws
  `TLS_CONNECTED` and reports both failures keeps the counts only if the bits
  it withdraws were set, which `Links` says, and `Links` in turn needs the
  counts.
* `CurrentWifiBit` from `EventOrder`: a disconnection that is queued comes behind
  every connection it ends, so that the queue, delivered in order, brings the bit
  to the driver's state. It rests on `OneLiveStation`: while a disconnection is
  queued nobody associates, so no connection is queued behind it.
* `NeverAbandoned`: with memory for tasks and packets the counts are never
  zero. This assumes `~CreateCanFail` and that `"NoMemory"` is no result;
  `network_dropped` shows that the first cannot be left out.

`ProvisioningProofs`, for any keys and any number of resets:

* `Credentials`, `Registration`, `PairKept`, assuming that a string that is
  stored can be read (`~ReadsCanFail`; the run `provisioning_read` shows that
  this is necessary). The invariant `Agreed`
  says what each task has in its hands at each program counter: that the key
  task stores a key only if there is no certificate (`KeyWork`), that the claim
  data is for the key in `pcDevKey` from the moment the key is acquired
  (`Request`), that the certificate task only claims when there is none
  (`CertWork`), and that the utility group runs behind the network group
  (`Printed`).
* `ClaimingRefinement` (`Spec` implements `C!Spec`) from `Agreed`: the key task
  is out of the way of `pcDevCert` while the certificate task claims and stores,
  because a claim waits for `PRIV_KEY_SUCCESS_BIT`. Steps of a claim from freed
  data are excepted.
* `TypeCorrect` and `UtilityRefinement` (`Spec` implements `U!Spec`), with no
  assumption on reads. A step of a task is a step of the abstract reporter or
  a stutter, because a task at work has no outcome bit set (`KeyBits`,
  `CertBits`).

`UtilityOutput`: `TypeCorrect`, `NothingLost`. `NoLostWakeup` is
inductive; `NoReportLost` needs it, since bits handed to a released task are
kept only while it was waiting for them.

`SelfClaimProofs`, for any keys, sessions, challenges and texts:
`TypeCorrect`, `Acceptable`, `CertificateMatches`, `ClaimingRefinement`. The
invariant follows a claim through its two halves: claim data is that of the last
key, complete while it is live (`OwnData`), the session of the document in `payload`, or of the answer on
its way, is open with the challenge it names (`Exchange`), and a certificate on
its way is that of the key (`Granted`). Data that was freed and is used again is
followed too: its CSR is that of the last key or nothing (`Remains`), so that `CertificateMatches` holds of claims from it as well, the service granting
nothing for a CSR that is none. `Acceptable` speaks of requests from live data:
those from freed data may have lost CSR or document. What the conversions compute is a
recursion over the text; two hypotheses stand for it. `CsrsSurvive`: an escaped
CSR is decoded to the CSR, fits its buffer with the null, different keys
have different CSRs, and an empty text is no CSR. `CertsSurvive`: the same of certificates through
`unescape_new_line`. The run `self_claim` evaluates both on its texts.

`BootProofs`, for any names, any width of the clock, any length of a tick and any
number of boots: `Identity`, from what is stored and in hand at each step of
`app_main` (`Stored`, `InHand`): the node id is written first, so that a stored
thing name has one, and nothing is printed before both are stored; it assumes
`~ReadsCanFail`. `Events`: the station only connects for the handling task,
which is created behind both event groups and works only with its own. That
`xUtilityOutputEventGroup` was created is not said, and without memory for it the
first event aborts the device. `Measured` and `TypeCorrect`: a tick adds
its milliseconds to the difference of two readings modulo `WORD` (`TickAdds`),
and a wait ends before it is as long as `WORD` (`ClockAssumption`).

`JsmnProofs`, for every text that is given to `json_parse_start`, a JSON document
or not:

* `WithinText` (positions, tokens and counts keep their types) and
  `TokensAreForest`. The invariant `OnPath` says that the tokens that can still
  get children are on the way from the last token to its root, so that hanging a
  token under `toksuper` keeps the preorder.
* `ArrayFits`: the second pass finds exactly as many tokens as the first one
  counted, although only the second looks at brackets and keys. The place of a
  pass is its position, its loop and its count; the character there determines
  the next place (`OnePlace`). `SamePlaces` says that there is a set of places
  that is closed under this step (`Counted`): the first pass builds it
  (`Visited`), and the second one never leaves it, so that its count cannot pass
  the first one's.
* `LookupsRight`: what `json_skip_elem` computes from sizes is the last token
  inside an element according to parents (`SkippedIsEnd`), and so `Child(i, n)` is
  the child before which there are `n` others (`ChildIsNth`, `EveryChild`). This is
  what `LookupRight` says of documents, for all texts; only that a key has one
  value behind it needs a document.
* `TypeCorrect`: the calls that move `cur` get token numbers from the look-ups.

The second part of `JsmnProofs`, for every text that is a document by
`JsonGrammar`, or is cut off before its end:

* `Accepting`. The grammar is a machine that reads one character at a time, and
  the invariant `DocumentInv` runs it beside the parser. While the text can still
  be a document, the place in the loops of `jsmn_parse` and the reading agree
  (`Lexes`; the hard part is an escape, which the parser takes in one step and the
  reader in up to six), and while the second pass fills the array the tokens have
  the structure that was read (`Shape`): the open brackets are those of the reader
  (`Nested`), `toksuper` is the innermost of them or, behind a colon, the last key
  (`Superior`), and every element that has ended is complete (`Filled`). Neither
  `toksuper` nor the search for an open bracket is right for texts that are no
  documents; `Shape` says that for documents both are.
* `LookingUp`: from `Shape` at the end of a document a key has exactly its value
  behind it, which with `LookupsRight` gives `LookupRight`.
* `LeavingReturns`: `PathInv` describes the whole path, each entry by the parents
  of its token, so that leaving is right at any depth.

The third part of `JsmnProofs`, for the text of every such document:

* `TokensAreDocument` and `GettersRight`. The invariant `TextInv` says where in the
  text the tokens are while the second pass fills the array: `Own` that a token
  covers its quotation marks, its first bracket or the characters of a primitive,
  `Before` and `Ending` that between its neighbours and it, and behind its last
  child, there is one comma, colon or bracket or none (`Told`), and `Now` the same
  of what has been read since the last token. What is between two positions is
  compared without white space (`Gap`), and parts join (`GapJoin`). Each step of
  `jsmn_parse` adds one character, or one string or primitive, to what is told.
* At the end of a document every gap is closed. The proof then goes from the last
  token to the first (`Backwards`): if what `Written` says of the tokens behind
  token `i` is the text of their elements, the parts of `i` are that of its own
  (`BodySpelled`, with an induction over its children in `PartsSpelled`). This also
  shows that the recursive definition of `Written` has a solution and only one. The
  root is all of the text, which is `RoundTrip`; a token that is no key covers its
  element (`ValueIs`), which with `LookingUp` is `ValuesRight`.

`JsonGeneratorProofs`, for every size of buffer, every set of strings and every
sequence of calls:

* From `BufferInv`: `WithinBuffer`, `Complete` (with a callback the output does
  not depend on the buffer, and without one the buffer holds the longest prefix
  that fits), `Chunks`, `WholeText`. The lemma `Iteration` says what one iteration
  of the loop does to buffer and string; that a call is a list of texts
  (`BuildIsCall`) is all that these proofs need of the API. `LongestPrefix` is
  inductive because a full buffer takes nothing more. It is assumed that sizes are
  positive (`SizesAssumption`).
* `RightText` and `TypeCorrect` from `DocumentInv`: between calls `text` is
  `Render` of the document described so far, and `comma_req` is set exactly if the
  innermost object or array has an element (`Separator`). The invariant is about
  the whole stack of open objects and arrays, where the generator has one flag:
  closing one leaves an element behind it, opening one leaves none. `Doc` and
  `Around` take the innermost one apart from those around it, so that a call
  changes one of the two.
* `LastCall` from `Tells`: the result of a call is that of its last string, and the
  call that finishes a document adds one bracket, which is never empty. An error
  it meets is therefore not covered by a later, empty string, and it succeeds just
  when the whole text fits, whatever earlier calls returned.

`SequenceLemmas` holds what these two use: that a set of natural numbers has a
least element (`LeastNatural`, from the well-founded order on finite sets of the
library), and with it what `FlattenSeq` gives for a sequence that is appended to.
A proof by induction looks at the least counterexample. What a recursive function
of the models computes is proved in two steps: something satisfies its equation
(`FlattensExists`, `SkipsExists`), and all that do agree.

**Only model-checked.**

* The conversions of PEM texts, which the hypotheses `CsrsSurvive` and
  `CertsSurvive` stand for.
* `KeepsPublishing`, `WifiReturns`, `UtilityFollows`, `CallReturns`: liveness, like
  ENABLED, is out of the provers' reach.

## What the violated runs say

Each is a property that a comment of the code states, with the line quoted in
`PROJECT.json`. Three concern failures that are rare on a healthy device (an
exhausted heap, a flash error, a claim that fails half-way) and what remains of
the device's state after them; `utility_wifi` needs a disconnection and a
connection while the reporting task is printing.

## Not modelled, and why

* The bytes of keys, packets and lines on the serial port: no property depends
  on them. Certificates and CSRs are texts only where newlines are converted.
* Numbers in JSON: the texts that a number is formatted to are given, and the
  conversion of a primitive to a number is left out. No number is used.
* The token after a key that has no value (jsmn accepts such objects): the
  model lets the getter find any token, and `ValuesRight` is about documents.
* `prvMqttEventCallback`: it logs, and compares the identifier of an
  acknowledgement. Packets are published with quality of service 0 and the
  firmware never calls the process loop of coreMQTT, so that nothing is
  acknowledged. `usPublishPacketIdentifier` is left out with it.
* Memory that is lost: the tokens of an answer without a certificate, the claim
  data of a key that was generated again, the handles of the storage. An
  allocation may fail at any time in the models.
* coreMQTT, ESP-TLS, NVS and the event loop: not in the repository; their
  results are choices.
* Time: `vTaskDelay` and time-outs are steps that may happen at any moment,
  except for the waits of coreMQTT in `Boot`, which end in time.
* `xMQTTContext`: coreMQTT's state; only the calls that use the transport are
  modelled.
* The priorities of the tasks: every interleaving is allowed, which includes
  those of the priorities.
* Build files, partition table, flashing utility and the examples and tests of
  the libraries: no part of the firmware.

## Plan

1. *Done.* `NetworkTasks`, `Provisioning`, `UtilityOutput`, `JsonGenerator`,
   `Jsmn`, `JsonParser`, `Claiming`, `SelfClaim`, `Boot` with their runs and
   proofs.
2. *Done.* The invariants that were left to TLC in the first place, as theorems:
   `WifiBitCurrent`, `WellFormed`, `LastCallTells`, `EnoughTokens`, the look-ups,
   and what is said of documents, from a grammar.
3. `Connection`: an abstract specification of "the device is online": up, down,
   repaired once per failure; `NetworkTasks` shown to implement it.
4. Reads that fail, in `Boot`: what the utility sees of a thing name that was
   made a second time.
