----------------------------- MODULE RenderLoop -----------------------------
(***************************************************************************)
(* The interactive example: the main thread runs the GUI loop              *)
(* (InteractiveApplication::run), a renderer draws frames on a thread of   *)
(* its own, or, with -sync, inside of the loop.  The two share the scene's *)
(* camera and parameters, the volume's sampler, the framebuffer and the    *)
(* iterator context, and they agree on versions, locks and the flag `run`. *)
(*                                                                         *)
(* One renderer is modelled: an accumulating one without a context         *)
(* (DensityPathTracer) or an overwriting one with a context                *)
(* (RayMarchIterator).  An object's value is identified with the version   *)
(* it was stamped with, the blocks of a frame are rendered in any order.   *)
(***************************************************************************)
EXTENDS Naturals, FiniteSets

CONSTANTS
    Blocks,     \* the blocks of pixels of a frame
    Sizes,      \* the sizes of the canvas
    MaxInputs,  \* bound on the user's inputs: the loop itself runs forever
    Torn,           \* a picture of copies read while they were written
    Uninitialized   \* a block of memory nothing was written to

ASSUME RenderLoopAssumption ==
    /\ IsFiniteSet(Blocks) /\ Blocks # {}
    /\ Sizes \subseteq Nat \ {0} /\ Sizes # {}
    /\ MaxInputs \in Nat

Objects == {"camera", "rendererParams", "guiParams"}
Threads == {"main", "worker"}
Kinds == {"density_pathtracer", "ray_march_iterator"}

VARIABLES
    kind,           \* the type of the renderer
    synchronous,    \* Scheduler::Synchronous or Asynchronous
    main,           \* where the main thread is in its loop
    then,           \* where it goes on when a join or a frame ends
    volumeNeedsUpdate, visible, active,  \* locals and lists of the loop
    canvas,         \* size of the canvas
    inputs,         \* number of inputs so far
    scene,          \* version of each shared object, as the GUI stamps it
    sampler,        \* generation of the volume and its sampler
    copies,         \* versions of the renderer's own copies
    context,        \* what the iterator context was committed with
    run,            \* Renderer::run
    step,           \* where each thread is in renderFrame
    clear,          \* its needToClear / clearFramebuffer
    todo,           \* the blocks it still has to render
    back,           \* the thread that holds the back buffer's lock
    size,           \* size of the framebuffer, 0 at first
    samples,        \* back buffer: the pictures each block has samples of
    front,          \* front buffer: the back buffer at the last tonemap
    lost            \* history: blocks whose clearing was abandoned

shared == <<scene, sampler, copies, context>>
buffers == <<size, samples, front, lost>>
loop == <<volumeNeedsUpdate, visible, active, canvas, inputs>>
frame == <<step, clear, todo, back>>
fixed == <<kind, synchronous>>
vars == <<fixed, main, then, loop, shared, run, frame, buffers>>

NoContext == [sampler |-> 0, rendererParams |-> 0, guiParams |-> 0]

Nothing == {}      \* no samples, weight 0
Picture == [seen |-> copies, sampler |-> sampler, size |-> size]

(* A renderer with a context commits it for a sampler and its copies.      *)
CommittedFor(s, c) ==
    IF kind = "ray_march_iterator"
    THEN [sampler |-> s, rendererParams |-> c["rendererParams"],
          guiParams |-> c["guiParams"]]
    ELSE NoContext

Init ==
    /\ kind \in Kinds /\ synchronous \in BOOLEAN
    /\ main = "poll" /\ then = "poll"
    /\ volumeNeedsUpdate = TRUE
    /\ visible \in BOOLEAN /\ active = visible
    /\ canvas \in Sizes
    /\ inputs = 0
    /\ scene = [o \in Objects |-> 0]
    /\ sampler = 1
    /\ copies = scene
    /\ context = NoContext
    /\ run = FALSE
    /\ step = [t \in Threads |-> "off"]
    /\ clear = [t \in Threads |-> FALSE]
    /\ todo = [t \in Threads |-> {}]
    /\ back = "free"
    /\ size = 0
    /\ samples = [b \in Blocks |-> Nothing]
    /\ front = samples
    /\ lost = {}

-----------------------------------------------------------------------------
(* Scheduler::start: the renderer's beforeStart, then its thread.          *)
Started == [step EXCEPT !["worker"] = IF synchronous \/ run THEN @ ELSE "loop"]

Start(s) ==
    /\ context' = CommittedFor(s, copies)
    /\ run' = ~synchronous

Stop_NotJoined(next) ==
    /\ run' = FALSE
    /\ main' = next
    /\ context' = NoContext
    /\ UNCHANGED then

(* Scheduler::stop: the thread is told to end and waited for; a renderer   *)
(* that does not run is only told that it has stopped.                     *)
Stop(next) ==
    IF run
    THEN /\ run' = FALSE
         /\ main' = "join" /\ then' = next
         /\ UNCHANGED context
    ELSE /\ main' = next
         /\ context' = NoContext
         /\ UNCHANGED <<run, then>>

Joined ==
    /\ main = "join" /\ step["worker"] = "off"
    /\ main' = then
    /\ context' = NoContext
    /\ UNCHANGED <<fixed, then, loop, scene, sampler, copies, run, frame, buffers>>

-----------------------------------------------------------------------------
(* The loop of the application: at most one input of the user per round.   *)
Poll ==
    /\ main = "poll" /\ ~volumeNeedsUpdate
    /\ main' = "gui"
    /\ UNCHANGED <<fixed, then, loop, shared, run, frame, buffers>>

StopForUpdate ==
    /\ main = "poll" /\ volumeNeedsUpdate
    /\ IF active THEN Stop("update")
       ELSE main' = "update" /\ UNCHANGED <<then, run, context>>
    /\ UNCHANGED <<fixed, loop, scene, sampler, copies, frame, buffers>>

Edit(o) == scene' = [scene EXCEPT ![o] = @ + 1]

(* The volume is rebuilt, or kept where its parameters are invalid, the    *)
(* camera fitted to it and the active renderers started again.             *)
UpdateVolume ==
    /\ main = "update"
    /\ sampler' \in {sampler, sampler + 1}
    /\ Edit("camera")
    /\ IF active THEN Start(sampler') /\ step' = Started
       ELSE UNCHANGED <<context, run, step>>
    /\ main' = "gui"
    /\ UNCHANGED <<fixed, then, loop, copies, clear, todo, back, buffers>>

Input == inputs < MaxInputs /\ inputs' = inputs + 1

(* Settings, renderer controls and the check box of the view.              *)
Gui ==
    /\ main = "gui"
    /\ main' = "enable"
    /\ \/ /\ volumeNeedsUpdate' = FALSE
          /\ UNCHANGED <<inputs, visible, canvas, scene>>
       \/ /\ Input /\ volumeNeedsUpdate' = TRUE
          /\ UNCHANGED <<visible, canvas, scene>>
       \/ /\ Input /\ volumeNeedsUpdate' = FALSE
          /\ \/ Edit("rendererParams") /\ canvas' \in Sizes
             \/ visible /\ Edit("guiParams") /\ UNCHANGED canvas
          /\ UNCHANGED visible
       \/ /\ Input /\ volumeNeedsUpdate' = FALSE
          /\ \/ visible' = ~visible /\ UNCHANGED canvas
             \/ canvas' \in Sizes \ {canvas} /\ UNCHANGED visible
          /\ UNCHANGED scene
    /\ UNCHANGED <<fixed, then, active, sampler, copies, context, run, frame, buffers>>

EnableVisibleRenderViews ==
    /\ main = "enable"
    /\ IF visible /\ ~active
       THEN Start(sampler) /\ step' = Started /\ active' = TRUE
       ELSE UNCHANGED <<context, run, step, active>>
    /\ main' = IF active' /\ visible THEN "draw" ELSE "disable"
    /\ UNCHANGED <<fixed, then, volumeNeedsUpdate, visible, canvas, inputs,
                   scene, sampler, copies, clear, todo, back, buffers>>

(* RenderView::draw; with -sync it renders a frame before anything else.   *)
Draw ==
    /\ main = "draw"
    /\ IF synchronous
       THEN /\ main' = "frame" /\ then' = "canvas"
            /\ step' = [step EXCEPT !["main"] = "camera"]
            /\ clear' = [clear EXCEPT !["main"] = FALSE]
       ELSE main' = "canvas" /\ UNCHANGED <<then, step, clear>>
    /\ UNCHANGED <<fixed, loop, shared, run, todo, back, buffers>>

(* The mouse on the canvas moves the camera or closes the view.            *)
Canvas ==
    /\ main = "canvas"
    /\ main' = "framebuffer"
    /\ \/ UNCHANGED <<inputs, scene, visible>>
       \/ Input /\ Edit("camera") /\ UNCHANGED visible
       \/ Input /\ visible' = FALSE /\ UNCHANGED scene
    /\ UNCHANGED <<fixed, then, volumeNeedsUpdate, active, canvas, sampler, copies,
                   context, run, frame, buffers>>

(* RendererHost::getFramebuffer                                            *)
GetFramebuffer ==
    /\ main = "framebuffer"
    /\ IF size # canvas THEN Stop("resize")
       ELSE main' = "display" /\ UNCHANGED <<then, run, context>>
    /\ UNCHANGED <<fixed, loop, scene, sampler, copies, frame, buffers>>

ResizeFramebuffer_NotRestarted ==
    /\ main = "resize"
    /\ size' = canvas
    /\ front' = [b \in Blocks |-> {Uninitialized}]
    /\ context' = CommittedFor(sampler, copies)
    /\ step' = [step EXCEPT !["main"] = "lock"]
    /\ clear' = [clear EXCEPT !["main"] = TRUE]
    /\ main' = "frame" /\ then' = "display"
    /\ UNCHANGED <<fixed, loop, scene, sampler, copies, run, todo, back, samples, lost>>

(* The back buffer keeps the pixels it has, the front buffer's are new and *)
(* not initialized; the main thread clears and renders a frame of its own, *)
(* next to the worker it has just started.                                 *)
ResizeFramebuffer ==
    /\ main = "resize"
    /\ size' = canvas
    /\ front' = [b \in Blocks |-> {Uninitialized}]
    /\ Start(sampler)
    /\ step' = [Started EXCEPT !["main"] = "begin"]
    /\ clear' = [clear EXCEPT !["main"] = TRUE]
    /\ main' = "frame" /\ then' = "display"
    /\ UNCHANGED <<fixed, loop, scene, sampler, copies, todo, back, samples, lost>>

(* The front buffer is uploaded under its lock.                            *)
DrawFramebuffer ==
    /\ main = "display"
    /\ main' = "disable"
    /\ UNCHANGED <<fixed, then, loop, shared, run, frame, buffers>>

DisableInvisibleRenderViews ==
    /\ main = "disable"
    /\ IF active /\ ~visible
       THEN Stop("poll") /\ active' = FALSE
       ELSE main' = "poll" /\ UNCHANGED <<then, run, context, active>>
    /\ UNCHANGED <<fixed, volumeNeedsUpdate, visible, canvas, inputs,
                   scene, sampler, copies, frame, buffers>>

(* The window is closed: the renderer's destructor stops it.               *)
Close ==
    /\ main = "poll"
    /\ Stop("closed")
    /\ UNCHANGED <<fixed, loop, scene, sampler, copies, frame, buffers>>

Exited == main = "closed" /\ UNCHANGED vars

-----------------------------------------------------------------------------
(* Renderer::renderFrame on thread t.                                      *)
WorkerMustTerminate == ~synchronous /\ ~run

GoTo(t, s) == step' = [step EXCEPT ![t] = s]

RunLoop_Always ==
    /\ step["worker"] = "loop"
    /\ GoTo("worker", "camera")
    /\ clear' = [clear EXCEPT !["worker"] = FALSE]
    /\ UNCHANGED <<fixed, main, then, loop, shared, run, todo, back, buffers>>

(* while (run) renderFrame()                                               *)
RunLoop ==
    /\ step["worker"] = "loop"
    /\ GoTo("worker", IF run THEN "camera" ELSE "off")
    /\ clear' = [clear EXCEPT !["worker"] = FALSE]
    /\ UNCHANGED <<fixed, main, then, loop, shared, run, todo, back, buffers>>

UpdateIfChanged_Last(t, o) ==
    /\ copies' = [copies EXCEPT ![o] = scene[o]]
    /\ clear' = [clear EXCEPT ![t] = copies[o] # scene[o]]

(* Versioned::updateIfChanged, under the lock of the object                *)
UpdateIfChanged(t, o) ==
    /\ copies' = [copies EXCEPT ![o] = scene[o]]
    /\ clear' = [clear EXCEPT ![t] = @ \/ copies[o] # scene[o]]

CopyCamera(t) ==
    /\ step[t] = "camera"
    /\ UpdateIfChanged(t, "camera")
    /\ GoTo(t, "rendererParams")
    /\ UNCHANGED <<fixed, main, then, loop, scene, sampler, context, run, todo,
                   back, buffers>>

CopyRendererParams(t) ==
    /\ step[t] = "rendererParams"
    /\ UpdateIfChanged(t, "rendererParams")
    /\ GoTo(t, "guiParams")
    /\ UNCHANGED <<fixed, main, then, loop, scene, sampler, context, run, todo,
                   back, buffers>>

CopyGuiParams_OwnChangeOnly(t) ==
    /\ step[t] = "guiParams"
    /\ UpdateIfChanged(t, "guiParams")
    /\ GoTo(t, IF copies' # copies /\ kind = "ray_march_iterator" THEN "context" ELSE "begin")
    /\ UNCHANGED <<fixed, main, then, loop, scene, sampler, context, run, todo,
                   back, buffers>>

CopyGuiParams(t) ==
    /\ step[t] = "guiParams"
    /\ UpdateIfChanged(t, "guiParams")
    /\ GoTo(t, IF clear'[t] /\ kind = "ray_march_iterator" THEN "context" ELSE "begin")
    /\ UNCHANGED <<fixed, main, then, loop, scene, sampler, context, run, todo,
                   back, buffers>>

UpdateIntervalContext(t) ==
    /\ step[t] = "context"
    /\ context' = CommittedFor(context.sampler, copies)
    /\ GoTo(t, "begin")
    /\ UNCHANGED <<fixed, main, then, loop, scene, sampler, copies, run, clear,
                   todo, back, buffers>>

(* A frame ends: the worker loops, the main thread goes on.                *)
EndFrame(t) ==
    /\ GoTo(t, IF t = "worker" THEN "loop" ELSE "off")
    /\ main' = IF t = "main" THEN then ELSE main

(* renderFrameImpl returns before its first block.                         *)
BeginFrame(t) ==
    /\ step[t] = "begin"
    /\ IF WorkerMustTerminate
       THEN EndFrame(t) /\ lost' = IF clear[t] THEN Blocks ELSE lost
       ELSE GoTo(t, "lock") /\ UNCHANGED <<main, lost>>
    /\ UNCHANGED <<fixed, then, loop, shared, run, clear, todo, back, size,
                   samples, front>>

LockBackBuffer_NotWaiting(t) ==
    /\ step[t] = "lock"
    /\ GoTo(t, "blocks")
    /\ back' = t
    /\ todo' = [todo EXCEPT ![t] = Blocks]
    /\ UNCHANGED <<fixed, main, then, loop, shared, run, clear, buffers>>

LockBackBuffer(t) ==
    /\ step[t] = "lock" /\ back = "free"
    /\ IF size = 0
       THEN EndFrame(t) /\ UNCHANGED <<back, todo>>
       ELSE /\ GoTo(t, "blocks") /\ UNCHANGED main
            /\ back' = t
            /\ todo' = [todo EXCEPT ![t] = Blocks]
    /\ UNCHANGED <<fixed, then, loop, shared, run, clear, buffers>>

(* What a pixel keeps: the path tracer adds to it, the ray marcher         *)
(* overwrites it, a clearing frame starts from nothing.                    *)
Kept(t, b) ==
    IF clear[t] \/ kind = "ray_march_iterator" THEN Nothing ELSE samples[b]

(* The copies, or the context, another thread is just writing are read as  *)
(* they were, as they will be, or torn.                                    *)
BeingWritten(t) ==
    \E u \in Threads \ {t} :
        \/ step[u] \in Objects /\ copies[step[u]] # scene[step[u]]
        \/ step[u] = "context"

RenderBlock(t) ==
    /\ step[t] = "blocks"
    /\ \E b \in todo[t] :
          /\ todo' = [todo EXCEPT ![t] = @ \ {b}]
          /\ IF WorkerMustTerminate
             THEN /\ lost' = IF clear[t] THEN lost \cup {b} ELSE lost
                  /\ UNCHANGED samples
             ELSE /\ \E p \in {Picture} \cup (IF BeingWritten(t) THEN {Torn} ELSE {}) :
                        samples' = [samples EXCEPT ![b] = Kept(t, b) \cup {p}]
                  /\ lost' = IF clear[t] THEN lost \ {b} ELSE lost
    /\ UNCHANGED <<fixed, main, then, loop, shared, run, step, clear, back, size, front>>

(* The front buffer is filled under its lock, then both are released.      *)
Tonemap(t) ==
    /\ step[t] = "blocks" /\ todo[t] = {}
    /\ front' = samples
    /\ back' = "free"
    /\ EndFrame(t)
    /\ UNCHANGED <<fixed, then, loop, shared, run, clear, todo, size, samples, lost>>

-----------------------------------------------------------------------------
Frame(t) ==
    \/ CopyCamera(t) \/ CopyRendererParams(t) \/ CopyGuiParams(t)
    \/ UpdateIntervalContext(t)
    \/ BeginFrame(t) \/ LockBackBuffer(t) \/ RenderBlock(t) \/ Tonemap(t)

MainLoop ==
    \/ Poll \/ StopForUpdate \/ UpdateVolume \/ Gui \/ EnableVisibleRenderViews
    \/ Draw \/ Canvas \/ GetFramebuffer \/ ResizeFramebuffer \/ DrawFramebuffer
    \/ DisableInvisibleRenderViews \/ Joined

Worker == RunLoop \/ Frame("worker")

Next == MainLoop \/ Frame("main") \/ Close \/ Exited \/ Worker

(***************************************************************************)
(* Both threads keep running while they can; nothing is assumed of who     *)
(* gets a contended mutex.                                                 *)
(***************************************************************************)
Spec ==
    /\ Init /\ [][Next]_vars
    /\ WF_vars(MainLoop \/ Frame("main"))
    /\ WF_vars(Worker)

-----------------------------------------------------------------------------
Versions == [Objects -> Nat]
Pictures == [seen : Versions, sampler : Nat, size : Nat] \cup {Torn, Uninitialized}

TypeOK ==
    /\ kind \in Kinds /\ synchronous \in BOOLEAN
    /\ {main, then} \subseteq
          {"poll", "join", "update", "gui", "enable", "draw", "frame", "canvas",
           "framebuffer", "resize", "display", "disable", "closed"}
    /\ volumeNeedsUpdate \in BOOLEAN /\ visible \in BOOLEAN /\ active \in BOOLEAN
    /\ canvas \in Sizes /\ size \in Sizes \cup {0}
    /\ inputs \in 0 .. MaxInputs
    /\ scene \in Versions /\ copies \in Versions
    /\ \A o \in Objects : copies[o] <= scene[o]
    /\ sampler \in Nat
    /\ context \in [sampler : Nat, rendererParams : Nat, guiParams : Nat]
    /\ run \in BOOLEAN /\ (run => ~synchronous)
    /\ step \in [Threads -> {"off", "loop", "context", "begin", "lock", "blocks"}
                             \cup Objects]
    /\ clear \in [Threads -> BOOLEAN]
    /\ todo \in [Threads -> SUBSET Blocks]
    /\ back \in Threads \cup {"free"}
    /\ \A t \in Threads : back = t <=> step[t] = "blocks"
    /\ samples \in [Blocks -> SUBSET Pictures] /\ front \in [Blocks -> SUBSET Pictures]
    /\ lost \subseteq Blocks

(***************************************************************************)
(* While the main thread replaces the volume, resizes the framebuffer or   *)
(* destroys the renderer, and as long as the view is not active, no thread *)
(* renders and no context refers to the sampler: "only if all workers have *)
(* been stopped" (Scene.h), and the assertions of the destructors.         *)
(***************************************************************************)
WorkersAreStopped ==
    main \in {"update", "resize", "closed"} \/ (~active /\ main # "join") =>
        /\ ~run /\ step["worker"] = "off"
        /\ context = NoContext

(***************************************************************************)
(* A frame of the scheduler is rendered with a context that was committed  *)
(* for the volume's current sampler and for the very copies of the         *)
(* parameters the frame uses ("Renderer params contain the attribute       *)
(* index. This is why we update the interval context").                    *)
(***************************************************************************)
RendersWithItsContext ==
    \A t \in Threads :
        /\ step[t] \in {"begin", "lock", "blocks"}
        /\ t = "worker" \/ synchronous
        /\ kind = "ray_march_iterator"
        => context = CommittedFor(sampler, copies)

(***************************************************************************)
(* A block accumulates samples of one camera, one set of parameters, one   *)
(* volume and one resolution only, whatever is edited while frames are     *)
(* rendered.  Two exceptions: between a resize and the main thread's own   *)
(* clearing frame, and after a clearing frame was abandoned because the    *)
(* thread was stopped, since the next frame no longer sees a change.       *)
(***************************************************************************)
Resizing == main = "frame" /\ then = "display"

SamplesOfOnePicture ==
    ~Resizing => \A b \in Blocks \ lost : Cardinality(samples[b]) <= 1

(***************************************************************************)
(* Every edit reaches the front buffer, in each block, unless there is     *)
(* another edit, the view is disabled or the window is closed.             *)
(***************************************************************************)
Showing == active /\ main # "closed"
Current == [seen |-> scene, sampler |-> sampler, size |-> canvas]
Rendered == \A b \in Blocks : Current \in front[b]

EditsAreRendered == Showing /\ ~Rendered ~> Rendered \/ ~Showing

(* The main thread does not wait forever for a thread it stops.            *)
StopReturns == main = "join" ~> main # "join"
=============================================================================
