-------------------------- MODULE RenderLoopProofs --------------------------
(***************************************************************************)
(* Proofs about the interactive example's two threads, for any number of   *)
(* blocks, any sizes of the canvas and any number of inputs: the workers   *)
(* are stopped when the volume or the framebuffer is replaced, a frame is  *)
(* rendered with the context of its own copies, and a block accumulates    *)
(* samples of one picture.                                                 *)
(***************************************************************************)
EXTENDS RenderLoop, FiniteSetTheorems, TLAPS

(* the thread that renders the frames of the scheduler *)
FrameThread == IF synchronous THEN "main" ELSE "worker"

StoppedAt == {"update", "resize", "closed"}

(* an active view waits for its first volume *)
NotStarted == main = "poll" /\ volumeNeedsUpdate

(***************************************************************************)
(* Where one thread can be while the other one is at its step: the main    *)
(* thread is in a frame exactly when its loop says so, and a worker exists *)
(* exactly when the renderer runs or is being joined.                      *)
(***************************************************************************)
MainFrames ==
    /\ main = "frame" <=> step["main"] # "off"
    /\ step["main"] # "loop"
    /\ ~synchronous => step["main"] \in {"off", "begin", "lock", "blocks"}
    /\ main = "frame" => then \in {"canvas", "display"}
    /\ main = "frame" /\ then = "canvas" => synchronous
    /\ Resizing => clear["main"] /\ step["main"] \in {"begin", "lock", "blocks"}

WorkerRuns ==
    /\ main = "join" => ~synchronous /\ then \in StoppedAt \cup {"poll"}
                         /\ (then = "poll" => ~active)
                         /\ (then = "resize" => active)
    /\ run <=> (step["worker"] # "off" /\ main # "join")
    /\ step["worker"] # "off" => ~synchronous
    /\ ~synchronous /\ active /\ main \notin StoppedAt \cup {"join"}
          => run \/ NotStarted
    /\ run => active /\ main \notin StoppedAt
    /\ main \in {"draw", "frame", "canvas", "framebuffer", "resize", "display"} => active
    /\ \A t \in Threads : step[t] = "context" => clear[t]

(***************************************************************************)
(* From start to stop the context is the one of the sampler, and of the    *)
(* copies too, unless the thread that changed them is on its way to commit *)
(* it again.                                                               *)
(***************************************************************************)
Attached ==
    \/ main = "join" \/ run
    \/ synchronous /\ active /\ main \notin StoppedAt /\ ~NotStarted

ContextIsKept ==
    kind = "ray_march_iterator" /\ Attached =>
        /\ context.sampler = sampler
        /\ \/ context = CommittedFor(sampler, copies)
           \/ /\ step[FrameThread] \in {"rendererParams", "guiParams", "context"}
              /\ clear[FrameThread]

(***************************************************************************)
(* A block b whose samples are not of the current picture is due: the      *)
(* thread that renders frames will notice a change, or it has noticed one, *)
(* and clears b before it adds to it.  Nothing is said of the blocks that  *)
(* the main thread's own frame after a resize has still to clear.          *)
(***************************************************************************)
Changed(o) == copies[o] # scene[o]

Due(b) ==
    LET s == step[FrameThread]
    IN  \/ s \in {"off", "loop", "camera"} /\ \E o \in Objects : Changed(o)
        \/ s = "rendererParams" /\ (Changed("rendererParams") \/ Changed("guiParams"))
        \/ s = "guiParams" /\ Changed("guiParams")
        \/ s \in {"rendererParams", "guiParams", "context", "begin", "lock"}
              /\ clear[FrameThread]
        \/ s = "blocks" /\ clear[FrameThread] /\ b \in todo[FrameThread]

Uncleared(b) ==
    Resizing /\ ~synchronous /\ (step["main"] = "blocks" => b \in todo["main"])

OnePicture(b) ==
    /\ \A p, q \in samples[b] : p = q
    /\ Due(b) \/ samples[b] \subseteq {Picture}

Sized ==
    /\ size = 0 => \A b \in Blocks : samples[b] = Nothing
    /\ \A t \in Threads : Resizing \/ step[t] = "blocks" => size # 0

BlocksAreKept == \A b \in Blocks \ lost : Uncleared(b) \/ OnePicture(b)

Threading == TypeOK /\ MainFrames /\ WorkerRuns

IInv == Threading /\ WorkersAreStopped /\ ContextIsKept /\ Sized /\ BlocksAreKept

-----------------------------------------------------------------------------
(* The initial states satisfy the inductive invariant. *)
LEMMA InitIInv == Init => IInv
<1> SUFFICES ASSUME Init PROVE IInv
  OBVIOUS
<1> USE RenderLoopAssumption DEF Init
<1>1. TypeOK
  <2>1. step \in [Threads -> {"off"}]
    OBVIOUS
  <2>2. step \in [Threads -> {"off", "loop", "context", "begin", "lock", "blocks"}
                             \cup Objects]
    BY <2>1
  <2>3. \A t \in Threads : back = t <=> step[t] = "blocks"
    BY <2>1 DEF Threads
  <2>4. context \in [sampler : Nat, rendererParams : Nat, guiParams : Nat]
    BY DEF NoContext
  <2>5. scene \in Versions /\ copies \in Versions /\ \A o \in Objects : copies[o] <= scene[o]
    BY DEF Versions
  <2>6. samples \in [Blocks -> SUBSET Pictures] /\ front \in [Blocks -> SUBSET Pictures]
    BY DEF Nothing
  <2>7. clear \in [Threads -> BOOLEAN] /\ todo \in [Threads -> SUBSET Blocks]
    OBVIOUS
  <2>8. inputs \in 0 .. MaxInputs /\ sampler \in Nat /\ size \in Sizes \cup {0}
    OBVIOUS
  <2>9. back \in Threads \cup {"free"} /\ lost \subseteq Blocks
    OBVIOUS
  <2> HIDE RenderLoopAssumption
  <2> QED BY <2>2, <2>3, <2>4, <2>5, <2>6, <2>7, <2>8, <2>9 DEF TypeOK
<1>2. MainFrames /\ WorkerRuns
  BY DEF MainFrames, WorkerRuns, Resizing, StoppedAt, NotStarted, Threads
<1>3. WorkersAreStopped
  BY DEF WorkersAreStopped, Threads
<1>4. ContextIsKept
  BY DEF ContextIsKept, Attached, NotStarted
<1>5. Sized /\ BlocksAreKept
  BY DEF Sized, BlocksAreKept, OnePicture, Nothing, Resizing, Threads
<1> QED BY <1>1, <1>2, <1>3, <1>4, <1>5 DEF IInv, Threading

-----------------------------------------------------------------------------
(* Each step of the main thread's loop keeps the threads in step. *)
LEMMA LoopKeepsThreading ==
  ASSUME Threading, MainLoop \/ Close
  PROVE  MainFrames' /\ WorkerRuns'
<1> USE DEF Threading, TypeOK, MainFrames, WorkerRuns, Resizing, StoppedAt, NotStarted,
            Threads, Stop, Start, Started, fixed, loop, shared, frame, buffers
<1>1. CASE Poll \/ Gui \/ Canvas \/ DrawFramebuffer
  BY <1>1 DEF Poll, Gui, Canvas, DrawFramebuffer
<1>2. CASE StopForUpdate
  BY <1>2 DEF StopForUpdate
<1>3. CASE UpdateVolume
  BY <1>3 DEF UpdateVolume
<1>4. CASE EnableVisibleRenderViews
  BY <1>4 DEF EnableVisibleRenderViews
<1>5. CASE Draw
  BY <1>5 DEF Draw
<1>6. CASE GetFramebuffer
  BY <1>6 DEF GetFramebuffer
<1>7. CASE ResizeFramebuffer
  BY <1>7 DEF ResizeFramebuffer
<1>8. CASE DisableInvisibleRenderViews
  BY <1>8 DEF DisableInvisibleRenderViews
<1>9. CASE Joined
  BY <1>9 DEF Joined
<1>10. CASE Close
  BY <1>10 DEF Close
<1> QED BY <1>1, <1>2, <1>3, <1>4, <1>5, <1>6, <1>7, <1>8, <1>9, <1>10 DEF MainLoop

(* Each step of a frame keeps the threads in step. *)
LEMMA FrameKeepsThreading ==
  ASSUME Threading, Sized, NEW t \in Threads, Frame(t)
  PROVE  MainFrames' /\ WorkerRuns'
<1> USE DEF Threading, TypeOK, MainFrames, WorkerRuns, Resizing, StoppedAt, NotStarted,
            Threads, GoTo, EndFrame, UpdateIfChanged, Objects, fixed, loop, shared, buffers
<1>1. CASE CopyCamera(t)
  BY <1>1 DEF CopyCamera
<1>2. CASE CopyRendererParams(t)
  BY <1>2 DEF CopyRendererParams
<1>3. CASE CopyGuiParams(t)
  BY <1>3 DEF CopyGuiParams
<1>4. CASE UpdateIntervalContext(t)
  BY <1>4 DEF UpdateIntervalContext
<1>5. CASE BeginFrame(t)
  BY <1>5 DEF BeginFrame, WorkerMustTerminate
<1>6. CASE LockBackBuffer(t)
  BY <1>6 DEF LockBackBuffer
<1>7. CASE RenderBlock(t)
  BY <1>7 DEF RenderBlock
<1>8. CASE Tonemap(t)
  BY <1>8 DEF Tonemap
<1> QED BY <1>1, <1>2, <1>3, <1>4, <1>5, <1>6, <1>7, <1>8 DEF Frame

(* So does the worker's own loop. *)
LEMMA RunLoopKeepsThreading ==
  ASSUME Threading, RunLoop
  PROVE  MainFrames' /\ WorkerRuns'
BY DEF Threading, TypeOK, MainFrames, WorkerRuns, Resizing, StoppedAt, NotStarted,
       Threads, GoTo, Objects, fixed, loop, shared, buffers, RunLoop

-----------------------------------------------------------------------------
(* The main thread's loop keeps the types: it sends a thread off only when
   that thread is in no frame. *)
LEMMA LoopKeepsTypes ==
  ASSUME Threading, MainLoop \/ Close
  PROVE  TypeOK'
<1> USE DEF Threading, TypeOK, Stop, Start, Started, fixed, loop, shared, frame, buffers
<1>1. \A s \in Nat : CommittedFor(s, copies) \in
                       [sampler : Nat, rendererParams : Nat, guiParams : Nat]
  BY DEF CommittedFor, NoContext, Versions, Objects
<1>2. NoContext \in [sampler : Nat, rendererParams : Nat, guiParams : Nat]
  BY DEF NoContext
<1>3. ASSUME NEW o \in Objects, Edit(o)
      PROVE  scene' \in Versions /\ \A x \in Objects : copies[x] <= scene'[x]
  BY <1>3 DEF Edit, Versions
<1>4. CASE Poll \/ DrawFramebuffer
  BY <1>4 DEF Poll, DrawFramebuffer
<1>5. CASE StopForUpdate
  BY <1>5, <1>2 DEF StopForUpdate
<1>6. CASE UpdateVolume
  <2>1. scene' \in Versions /\ \A x \in Objects : copies[x] <= scene'[x]
    <3>1. Edit("camera") /\ "camera" \in Objects
      BY <1>6 DEF UpdateVolume, Objects
    <3> QED BY <3>1, <1>3, SMTT(30)
  <2>2. ~run /\ step["worker"] = "off" /\ sampler' \in Nat
    BY <1>6 DEF UpdateVolume, WorkerRuns, MainFrames, StoppedAt, Threads
  <2>3. context' \in [sampler : Nat, rendererParams : Nat, guiParams : Nat]
    BY <1>6, <1>1, <2>2, SMTT(30) DEF UpdateVolume
  <2>4. /\ run' \in BOOLEAN /\ (run' => ~synchronous)
        /\ step' = step \/ step' = [step EXCEPT !["worker"] = "loop"]
    BY <1>6, <2>2 DEF UpdateVolume
  <2>5. /\ step' \in [Threads -> {"off", "loop", "context", "begin", "lock", "blocks"}
                             \cup Objects]
        /\ \A t \in Threads : back = t <=> step'[t] = "blocks"
    BY <2>2, <2>4 DEF Threads
  <2> QED BY <1>6, <2>1, <2>2, <2>3, <2>4, <2>5 DEF UpdateVolume
<1>7. CASE Gui
  <2>1. UNCHANGED scene \/ \E o \in Objects : Edit(o)
    BY <1>7 DEF Gui, Objects
  <2>2. scene' \in Versions /\ \A x \in Objects : copies[x] <= scene'[x]
    BY <2>1, <1>3
  <2>3. inputs' \in 0 .. MaxInputs
    BY <1>7, RenderLoopAssumption DEF Gui, Input
  <2> QED BY <1>7, <2>2, <2>3 DEF Gui
<1>8. CASE EnableVisibleRenderViews
  <2>1. /\ main = "enable" /\ main' \in {"draw", "disable"}
        /\ UNCHANGED <<fixed, then, volumeNeedsUpdate, visible, canvas, inputs,
                       scene, sampler, copies, clear, todo, back, buffers>>
        /\ \/ ~active /\ Start(sampler) /\ step' = Started /\ active' = TRUE
           \/ UNCHANGED <<context, run, step, active>>
    BY <1>8 DEF EnableVisibleRenderViews
  <2>2. CASE UNCHANGED <<context, run, step, active>>
    BY <2>1, <2>2 DEF MainFrames
  <2>3. CASE ~active /\ Start(sampler) /\ step' = Started /\ active' = TRUE
    <3>1. context' \in [sampler : Nat, rendererParams : Nat, guiParams : Nat]
          /\ run' \in BOOLEAN /\ (run' => ~synchronous)
      BY <2>3, <1>1
    <3>2. ~run /\ step["worker"] = "off"
      BY <2>1, <2>3 DEF Threads, WorkerRuns, MainFrames, StoppedAt
    <3> QED
      BY <2>1, <2>3, <3>1, <3>2 DEF Threads, MainFrames
  <2> QED
    BY <2>1, <2>2, <2>3
<1>9. CASE Draw
  BY <1>9 DEF Draw, Threads, MainFrames, Objects
<1>10. CASE Canvas
  <2>1. UNCHANGED scene \/ Edit("camera")
    BY <1>10 DEF Canvas
  <2>2. scene' \in Versions /\ \A x \in Objects : copies[x] <= scene'[x]
    BY <2>1, <1>3 DEF Objects
  <2>3. inputs' \in 0 .. MaxInputs
    BY <1>10, RenderLoopAssumption DEF Canvas, Input
  <2> QED BY <1>10, <2>2, <2>3 DEF Canvas
<1>11. CASE GetFramebuffer
  BY <1>11, <1>2 DEF GetFramebuffer
<1>12. CASE ResizeFramebuffer
  BY <1>12, <1>1 DEF ResizeFramebuffer, Threads, WorkerRuns, MainFrames, Pictures
<1>13. CASE DisableInvisibleRenderViews
  BY <1>13, <1>2 DEF DisableInvisibleRenderViews
<1>14. CASE Joined
  BY <1>14, <1>2 DEF Joined
<1>15. CASE Close
  BY <1>15, <1>2 DEF Close
<1> QED BY <1>4, <1>5, <1>6, <1>7, <1>8, <1>9, <1>10, <1>11, <1>12, <1>13, <1>14, <1>15
        DEF MainLoop

(* The frames keep the types: the back buffer has one thread at a time. *)
LEMMA FrameKeepsTypes ==
  ASSUME Threading, NEW t \in Threads, Frame(t)
  PROVE  TypeOK'
<1> USE DEF Threading, TypeOK, GoTo, EndFrame, fixed, loop, shared, buffers
<1>1. ASSUME NEW o \in Objects, UpdateIfChanged(t, o), UNCHANGED scene
      PROVE  /\ copies' \in Versions /\ \A x \in Objects : copies'[x] <= scene'[x]
             /\ clear' \in [Threads -> BOOLEAN]
  BY <1>1 DEF UpdateIfChanged, Versions
<1>2. CASE CopyCamera(t)
  BY <1>1, <1>2 DEF CopyCamera, Objects
<1>3. CASE CopyRendererParams(t)
  BY <1>1, <1>3 DEF CopyRendererParams, Objects
<1>4. CASE CopyGuiParams(t)
  BY <1>1, <1>4 DEF CopyGuiParams, Objects
<1>5. CASE UpdateIntervalContext(t)
  <2>1. context' \in [sampler : Nat, rendererParams : Nat, guiParams : Nat]
    BY <1>5 DEF UpdateIntervalContext, CommittedFor, NoContext, Versions, Objects
  <2> QED BY <1>5, <2>1 DEF UpdateIntervalContext
<1>6. CASE BeginFrame(t)
  BY <1>6 DEF BeginFrame, Threads
<1>7. CASE LockBackBuffer(t)
  BY <1>7 DEF LockBackBuffer, Threads
<1>8. CASE RenderBlock(t)
  <2>1. PICK b \in todo[t] : RenderBlock(t)!2!(b)
    BY <1>8 DEF RenderBlock
  <2>2. b \in Blocks /\ todo' \in [Threads -> SUBSET Blocks] /\ lost' \subseteq Blocks
    BY <2>1
  <2>3. Picture \in Pictures
    BY RenderLoopAssumption DEF Picture, Pictures
  <2>4. Kept(t, b) \subseteq Pictures
    BY <2>2 DEF Kept, Nothing
  <2>5. samples' \in [Blocks -> SUBSET Pictures]
    BY <2>1, <2>2, <2>3, <2>4 DEF Pictures
  <2> QED BY <1>8, <2>2, <2>5 DEF RenderBlock
<1>9. CASE Tonemap(t)
  BY <1>9 DEF Tonemap, Threads
<1> QED BY <1>2, <1>3, <1>4, <1>5, <1>6, <1>7, <1>8, <1>9 DEF Frame

(* The threads are in step, and of their types, after every step. *)
LEMMA NextThreading ==
  ASSUME Threading, Sized, [Next]_vars
  PROVE  Threading'
<1>1. CASE MainLoop \/ Close
  BY <1>1, LoopKeepsTypes, LoopKeepsThreading DEF Threading
<1>2. CASE \E t \in Threads : Frame(t)
  BY <1>2, FrameKeepsTypes, FrameKeepsThreading DEF Threading
<1>3. CASE RunLoop
  <2>1. TypeOK'
    BY <1>3 DEF Threading, TypeOK, RunLoop, GoTo, Threads, Objects, fixed, loop, shared, buffers
  <2> QED BY <1>3, <2>1, RunLoopKeepsThreading DEF Threading
<1>4. CASE UNCHANGED vars
  BY <1>4 DEF Threading, TypeOK, MainFrames, WorkerRuns, Resizing, NotStarted, vars,
              fixed, loop, shared, frame, buffers
<1> QED BY <1>1, <1>2, <1>3, <1>4 DEF Next, Worker, Exited, Threads

-----------------------------------------------------------------------------
(* What the main thread stops has ended, and has no context any more. *)
LEMMA NextStopped ==
  ASSUME Threading, WorkersAreStopped, [Next]_vars
  PROVE  WorkersAreStopped'
<1> USE DEF Threading, TypeOK, MainFrames, WorkerRuns, WorkersAreStopped, StoppedAt,
            NotStarted, Threads, Stop, Start, Started, fixed, loop, shared, frame, buffers
<1>1. CASE Poll \/ Gui \/ Canvas \/ DrawFramebuffer \/ Draw
  BY <1>1 DEF Poll, Gui, Canvas, DrawFramebuffer, Draw
<1>2. CASE StopForUpdate
  BY <1>2 DEF StopForUpdate
<1>3. CASE UpdateVolume
  BY <1>3 DEF UpdateVolume
<1>4. CASE EnableVisibleRenderViews
  BY <1>4 DEF EnableVisibleRenderViews
<1>5. CASE GetFramebuffer
  BY <1>5 DEF GetFramebuffer
<1>6. CASE ResizeFramebuffer
  BY <1>6 DEF ResizeFramebuffer
<1>7. CASE DisableInvisibleRenderViews
  BY <1>7 DEF DisableInvisibleRenderViews
<1>8. CASE Joined
  BY <1>8 DEF Joined
<1>9. CASE Close
  BY <1>9 DEF Close
<1>10. CASE RunLoop
  BY <1>10 DEF RunLoop, GoTo
<1>11. CASE \E t \in Threads : Frame(t)
  <2> SUFFICES ASSUME NEW t \in Threads, Frame(t) PROVE WorkersAreStopped'
    BY <1>11
  <2>1. step[t] \notin {"off", "loop"} /\ UNCHANGED <<active, run>>
    BY DEF Frame, CopyCamera, CopyRendererParams, CopyGuiParams, UpdateIntervalContext,
           BeginFrame, LockBackBuffer, RenderBlock, Tonemap
  <2>2. t = "worker" => main' = main
    BY DEF Frame, CopyCamera, CopyRendererParams, CopyGuiParams, UpdateIntervalContext,
           BeginFrame, LockBackBuffer, RenderBlock, Tonemap, EndFrame
  <2>3. t = "main" => /\ main' \in {"frame", "canvas", "display"}
                      /\ main = "frame" /\ active
    BY <2>1 DEF Frame, CopyCamera, CopyRendererParams, CopyGuiParams, UpdateIntervalContext,
           BeginFrame, LockBackBuffer, RenderBlock, Tonemap, EndFrame
  <2> QED BY <2>1, <2>2, <2>3
<1>12. CASE UNCHANGED vars
  BY <1>12 DEF vars
<1> QED BY <1>1, <1>2, <1>3, <1>4, <1>5, <1>6, <1>7, <1>8, <1>9, <1>10, <1>11, <1>12
        DEF Next, Worker, Exited, MainLoop

-----------------------------------------------------------------------------
(* The main thread commits a context for the sampler and the copies whenever
   it starts the renderer. *)
LEMMA LoopKeepsContext ==
  ASSUME Threading, WorkersAreStopped, ContextIsKept, MainLoop \/ Close
  PROVE  ContextIsKept'
<1> USE DEF Threading, TypeOK, MainFrames, WorkerRuns, WorkersAreStopped, StoppedAt,
            NotStarted, Threads, Stop, Start, Started, ContextIsKept, Attached, FrameThread,
            CommittedFor, fixed, loop, shared, frame, buffers
<1>1. CASE Poll \/ Gui \/ Canvas \/ DrawFramebuffer
  BY <1>1 DEF Poll, Gui, Canvas, DrawFramebuffer
<1>2. CASE StopForUpdate
  BY <1>2 DEF StopForUpdate
<1>3. CASE UpdateVolume
  BY <1>3 DEF UpdateVolume
<1>4. CASE EnableVisibleRenderViews
  BY <1>4 DEF EnableVisibleRenderViews
<1>5. CASE Draw
  BY <1>5 DEF Draw
<1>6. CASE GetFramebuffer
  BY <1>6 DEF GetFramebuffer
<1>7. CASE ResizeFramebuffer
  BY <1>7 DEF ResizeFramebuffer
<1>8. CASE DisableInvisibleRenderViews
  BY <1>8 DEF DisableInvisibleRenderViews
<1>9. CASE Joined
  BY <1>9 DEF Joined
<1>10. CASE Close
  BY <1>10 DEF Close
<1> QED BY <1>1, <1>2, <1>3, <1>4, <1>5, <1>6, <1>7, <1>8, <1>9, <1>10 DEF MainLoop

(* A frame that finds changed parameters commits the context before its
   first block. *)
LEMMA FrameKeepsContext ==
  ASSUME Threading, ContextIsKept, NEW t \in Threads, Frame(t)
  PROVE  ContextIsKept'
<1> USE DEF Threading, TypeOK, MainFrames, WorkerRuns, StoppedAt, NotStarted, Threads,
            ContextIsKept, Attached, FrameThread, CommittedFor, GoTo, EndFrame,
            fixed, loop, shared, buffers
<1>1. CASE CopyCamera(t)
  BY <1>1 DEF CopyCamera, UpdateIfChanged, Objects, Versions
<1>2. CASE CopyRendererParams(t)
  BY <1>2 DEF CopyRendererParams, UpdateIfChanged, Objects, Versions
<1>3. CASE CopyGuiParams(t)
  BY <1>3 DEF CopyGuiParams, UpdateIfChanged, Objects, Versions
<1>4. CASE UpdateIntervalContext(t)
  BY <1>4 DEF UpdateIntervalContext
<1>5. CASE BeginFrame(t)
  BY <1>5 DEF BeginFrame, WorkerMustTerminate
<1>6. CASE LockBackBuffer(t)
  BY <1>6 DEF LockBackBuffer
<1>7. CASE RenderBlock(t)
  BY <1>7 DEF RenderBlock
<1>8. CASE Tonemap(t)
  BY <1>8 DEF Tonemap
<1> QED BY <1>1, <1>2, <1>3, <1>4, <1>5, <1>6, <1>7, <1>8 DEF Frame

(* The context of the sampler and of the copies is kept by every step. *)
LEMMA NextContext ==
  ASSUME Threading, WorkersAreStopped, ContextIsKept, [Next]_vars
  PROVE  ContextIsKept'
<1>1. CASE MainLoop \/ Close
  BY <1>1, LoopKeepsContext
<1>2. CASE \E t \in Threads : Frame(t)
  BY <1>2, FrameKeepsContext
<1>3. CASE RunLoop
  BY <1>3 DEF RunLoop, GoTo, Threading, TypeOK, MainFrames, WorkerRuns, StoppedAt, NotStarted,
              Threads, ContextIsKept, Attached, FrameThread, CommittedFor,
              fixed, loop, shared, buffers
<1>4. CASE UNCHANGED vars
  BY <1>4 DEF vars, ContextIsKept, Attached, NotStarted, FrameThread, CommittedFor,
              fixed, loop, shared, frame, buffers
<1> QED BY <1>1, <1>2, <1>3, <1>4 DEF Next, Worker, Exited, Threads

(* The context a frame renders with is the one of its copies. *)
LEMMA ContextOfFrame ==
  ASSUME Threading, ContextIsKept
  PROVE  RendersWithItsContext
BY DEF Threading, TypeOK, MainFrames, WorkerRuns, ContextIsKept, Attached, NotStarted, StoppedAt,
       FrameThread, Threads, RendersWithItsContext, CommittedFor

-----------------------------------------------------------------------------
(* No block has samples before the first resize. *)
LEMMA NextSized ==
  ASSUME Threading, Sized, [Next]_vars
  PROVE  Sized'
<1> USE DEF Threading, TypeOK, Sized, Resizing, fixed, loop, shared, frame, buffers
<1>1. CASE ResizeFramebuffer
  BY <1>1, RenderLoopAssumption DEF ResizeFramebuffer
<1>2. CASE (MainLoop \/ Close) /\ ~ResizeFramebuffer
  <2>1. UNCHANGED <<size, samples>> /\ ~Resizing /\ main # "frame"
    BY <1>2 DEF MainLoop, Close, Poll, StopForUpdate, UpdateVolume, Gui, Draw, Canvas,
                EnableVisibleRenderViews, GetFramebuffer, DrawFramebuffer,
                DisableInvisibleRenderViews, Joined
  <2>2. main' = "frame" => then' = "canvas"
    BY <1>2, <2>1 DEF MainLoop, Close, Poll, StopForUpdate, UpdateVolume, Gui, Draw, Canvas,
                EnableVisibleRenderViews, GetFramebuffer, DrawFramebuffer, Stop, MainFrames,
                DisableInvisibleRenderViews, Joined, WorkerRuns, StoppedAt
  <2>3. \A t \in Threads : step'[t] = "blocks" => step[t] = "blocks"
    BY <1>2 DEF MainLoop, Close, Poll, StopForUpdate, UpdateVolume, Gui, Draw, Canvas,
                EnableVisibleRenderViews, GetFramebuffer, DrawFramebuffer, Started,
                DisableInvisibleRenderViews, Joined, Threads
  <2> QED BY <2>1, <2>2, <2>3
<1>3. ASSUME NEW t \in Threads, Frame(t)
      PROVE  Sized'
  <2>1. UNCHANGED <<size, then>> /\ (Resizing' => Resizing)
    BY <1>3 DEF Frame, CopyCamera, CopyRendererParams, CopyGuiParams, UpdateIntervalContext,
                BeginFrame, LockBackBuffer, RenderBlock, Tonemap, EndFrame, MainFrames
  <2>2. size = 0 => UNCHANGED samples
    BY <1>3 DEF Frame, CopyCamera, CopyRendererParams, CopyGuiParams, UpdateIntervalContext,
                BeginFrame, LockBackBuffer, RenderBlock, Tonemap
  <2>3. size = 0 => \A u \in Threads : step'[u] = "blocks" => step[u] = "blocks"
    BY <1>3 DEF Frame, CopyCamera, CopyRendererParams, CopyGuiParams, UpdateIntervalContext,
                BeginFrame, LockBackBuffer, RenderBlock, Tonemap, EndFrame, GoTo
  <2> QED BY <2>1, <2>2, <2>3
<1>4. CASE RunLoop \/ UNCHANGED vars
  BY <1>4 DEF RunLoop, GoTo, vars
<1> QED BY <1>1, <1>2, <1>3, <1>4 DEF Next, Worker, Exited, Threads

-----------------------------------------------------------------------------
(* The main thread's loop touches no samples.  A new volume comes with a
   new camera, a new size with a clearing frame. *)
LEMMA LoopKeepsBlocks ==
  ASSUME Threading, BlocksAreKept, MainLoop \/ Close
  PROVE  BlocksAreKept'
<1> USE DEF Threading, TypeOK, Resizing
<1> SUFFICES ASSUME NEW b \in Blocks, b \notin lost',
                    OnePicture(b)
             PROVE  Uncleared(b)' \/ OnePicture(b)'
  <2>1. lost' = lost /\ main # "frame"
    BY DEF MainLoop, Close, Poll, StopForUpdate, UpdateVolume, Gui, Draw, Canvas,
           EnableVisibleRenderViews, GetFramebuffer, ResizeFramebuffer, DrawFramebuffer,
           DisableInvisibleRenderViews, Joined, buffers
  <2> QED BY <2>1 DEF BlocksAreKept, Uncleared
<1> USE DEF OnePicture, Picture, FrameThread, Threads, fixed, loop, shared, frame, buffers
<1>1. CASE Poll \/ StopForUpdate \/ GetFramebuffer \/ DrawFramebuffer
             \/ DisableInvisibleRenderViews \/ Joined \/ Close
  BY <1>1 DEF Poll, StopForUpdate, GetFramebuffer, DrawFramebuffer, Stop,
              DisableInvisibleRenderViews, Joined, Close, Due, Changed
<1>2. ASSUME NEW o \in Objects, Edit(o), UNCHANGED <<copies, sampler, size, samples>>,
             UNCHANGED <<synchronous, step, clear, todo>>
      PROVE  OnePicture(b)'
  <2>1. \A x \in Objects : Changed(x) => Changed(x)'
    BY <1>2 DEF Edit, Changed, Versions
  <2> QED BY <1>2, <2>1 DEF Due, Objects
<1>3. CASE Gui
  <2>1. UNCHANGED scene \/ \E o \in Objects : Edit(o)
    BY <1>3 DEF Gui, Objects
  <2>2. CASE UNCHANGED scene
    BY <1>3, <2>2 DEF Gui, Due, Changed
  <2> QED BY <1>2, <1>3, <2>1, <2>2 DEF Gui
<1>4. CASE Canvas
  <2>1. CASE UNCHANGED scene
    BY <1>4, <2>1 DEF Canvas, Due, Changed
  <2>2. CASE Edit("camera")
    BY <1>2, <1>4, <2>2 DEF Canvas, Objects
  <2> QED BY <1>4, <2>1, <2>2 DEF Canvas
<1>5. CASE UpdateVolume
  <2>1. Changed("camera")' /\ "camera" \in Objects
    BY <1>5 DEF UpdateVolume, Edit, Changed, Versions, Objects
  <2>2. step'[FrameThread] \in {"off", "loop"} /\ UNCHANGED <<synchronous, samples>>
    BY <1>5 DEF UpdateVolume, MainFrames, WorkerRuns, StoppedAt, Started
  <2> QED BY <2>1, <2>2 DEF Due
<1>6. CASE EnableVisibleRenderViews
  <2>1. UNCHANGED <<copies, scene, sampler, size, samples, synchronous, clear, todo>>
    BY <1>6 DEF EnableVisibleRenderViews
  <2>2. \/ step[FrameThread] = "off" /\ step'[FrameThread] = "loop"
        \/ UNCHANGED step
    BY <1>6 DEF EnableVisibleRenderViews, Started, WorkerRuns
  <2>3. Due(b) => Due(b)'
    BY <2>1, <2>2 DEF Due, Changed
  <2> QED BY <2>1, <2>3
<1>7. CASE Draw
  BY <1>7 DEF Draw, Due, Changed, MainFrames
<1>8. CASE ResizeFramebuffer
  <2>1. /\ step'["main"] = "begin" /\ clear'["main"]
        /\ UNCHANGED <<samples, synchronous>> /\ Resizing'
    BY <1>8 DEF ResizeFramebuffer, Started
  <2>2. CASE synchronous
    BY <2>1, <2>2 DEF Due
  <2>3. CASE ~synchronous
    BY <2>1, <2>3 DEF Uncleared
  <2> QED BY <2>2, <2>3
<1> QED BY <1>1, <1>3, <1>4, <1>5, <1>6, <1>7, <1>8 DEF MainLoop

-----------------------------------------------------------------------------
(* Only the thread of the frames copies what the GUI has changed. *)
LEMMA WhoCopies ==
  ASSUME Threading
  PROVE  /\ \A t \in Threads : step[t] \in Objects \cup {"context"} => t = FrameThread
         /\ \A t \in Threads \ {FrameThread} :
               step[t] # "off" => t = "main" /\ Resizing /\ ~synchronous /\ clear[t] /\ run
BY DEF Threading, TypeOK, MainFrames, WorkerRuns, StoppedAt, NotStarted, Resizing,
       FrameThread, Threads, Objects

(* A change that is copied makes every block due; if there is none, all
   remains as it was. *)
LEMMA CopiesKeepBlocks ==
  ASSUME Threading, BlocksAreKept, NEW t \in Threads,
         CopyCamera(t) \/ CopyRendererParams(t) \/ CopyGuiParams(t)
  PROVE  BlocksAreKept'
<1> DEFINE o == step[t]
<1>1. /\ o \in Objects /\ t = FrameThread /\ UpdateIfChanged(t, o)
      /\ UNCHANGED <<synchronous, main, then, scene, sampler, size, samples, lost, todo>>
  BY WhoCopies DEF CopyCamera, CopyRendererParams, CopyGuiParams, Objects, fixed, buffers
<1>2. /\ FrameThread' = t
      /\ \A u \in Threads \ {t} : step'[u] = step[u]
      /\ step'[t] \in {"rendererParams", "guiParams", "context", "begin"}
  BY <1>1 DEF CopyCamera, CopyRendererParams, CopyGuiParams, GoTo, FrameThread,
              Threading, TypeOK
<1>3. clear'[t] = (clear[t] \/ Changed(o)) /\ (~Changed(o) => copies' = copies)
  BY <1>1 DEF UpdateIfChanged, Changed, Threading, TypeOK, Versions
<1> SUFFICES ASSUME NEW b \in Blocks \ lost, ~Uncleared(b)'
             PROVE  OnePicture(b)'
  BY <1>1 DEF BlocksAreKept
<1>4. OnePicture(b)
  <2>1. t = "worker" \/ synchronous
    BY <1>1 DEF FrameThread
  <2> QED BY <1>1, <1>2, <2>1 DEF BlocksAreKept, Uncleared, Resizing, Threads
<1>5. CASE Changed(o)
  BY <1>1, <1>2, <1>3, <1>4, <1>5 DEF OnePicture, Due
<1>6. CASE ~Changed(o)
  <2>1. copies' = copies /\ clear'[t] = clear[t] /\ \A x \in Objects : Changed(x)' = Changed(x)
    BY <1>1, <1>3, <1>6 DEF Changed, Threading, TypeOK
  <2>2. Due(b) => Due(b)'
    <3>1. CASE CopyCamera(t)
      BY <1>1, <1>2, <1>6, <2>1, <3>1 DEF CopyCamera, Due, GoTo, Objects, Threading, TypeOK
    <3>2. CASE CopyRendererParams(t)
      BY <1>1, <1>2, <1>6, <2>1, <3>2 DEF CopyRendererParams, Due, GoTo, Objects, Threading, TypeOK
    <3>3. CASE CopyGuiParams(t)
      BY <1>1, <1>2, <1>6, <2>1, <3>3 DEF CopyGuiParams, Due, GoTo, Objects, Threading, TypeOK
    <3> QED BY <3>1, <3>2, <3>3
  <2> QED BY <1>1, <1>4, <2>1, <2>2 DEF OnePicture, Picture
<1> QED BY <1>5, <1>6

(* A thread that adds a picture to a block adds the current one, unless it
   is the main thread that clears the block. *)
LEMMA RenderKeepsBlocks ==
  ASSUME Threading, BlocksAreKept, NEW t \in Threads, RenderBlock(t)
  PROVE  BlocksAreKept'
<1> PICK c \in todo[t] : RenderBlock(t)!2!(c)
  BY DEF RenderBlock
<1>1. /\ step[t] = "blocks" /\ back = t /\ c \in Blocks
      /\ \A u \in Threads \ {t} : step[u] # "blocks"
      /\ todo'[t] = todo[t] \ {c} /\ \A u \in Threads \ {t} : todo'[u] = todo[u]
  BY DEF RenderBlock, Threading, TypeOK
<1>2. UNCHANGED <<synchronous, main, then, scene, copies, sampler, size, step, clear, run, kind>>
  BY DEF RenderBlock, fixed, loop, shared
<1> SUFFICES ASSUME NEW b \in Blocks \ lost', ~Uncleared(b)'
             PROVE  OnePicture(b)'
  BY DEF BlocksAreKept
<1>3. CASE b # c
  <2>1. b \notin lost /\ samples'[b] = samples[b] /\ (b \in todo'[t] <=> b \in todo[t])
    BY <1>1, <1>3 DEF Threading, TypeOK
  <2>2. ~Uncleared(b) /\ (Due(b) => Due(b)')
    BY <1>1, <1>2, <2>1 DEF Uncleared, Resizing, Due, Changed, FrameThread, Threads
  <2> QED BY <1>2, <2>1, <2>2 DEF BlocksAreKept, OnePicture, Picture
<1>4. CASE b = c /\ WorkerMustTerminate
  <2>1. ~clear[t] /\ samples' = samples /\ lost' = lost
    BY <1>4
  <2>2. t = FrameThread
    BY <1>1, <1>4, WhoCopies DEF WorkerMustTerminate
  <2>3. OnePicture(b) /\ ~Due(b)
    BY <1>1, <1>2, <1>4, <2>1, <2>2 DEF BlocksAreKept, Uncleared, Resizing, Due, FrameThread,
                                        Threads
  <2> QED BY <1>2, <2>1, <2>3 DEF OnePicture, Picture
<1>5. CASE b = c /\ ~WorkerMustTerminate /\ t = FrameThread
  <2>1. ~BeingWritten(t)
    BY <1>5, WhoCopies DEF BeingWritten
  <2>2. samples'[b] = Kept(t, b) \cup {Picture} /\ (~clear[t] => lost' = lost)
    BY <1>5, <2>1 DEF Threading, TypeOK
  <2>3. Kept(t, b) \subseteq {Picture}
    <3>1. CASE clear[t]
      BY <3>1 DEF Kept, Nothing
    <3>2. CASE ~clear[t]
      <4>1. OnePicture(b) /\ ~Due(b)
        BY <1>1, <1>2, <1>5, <2>2, <3>2 DEF BlocksAreKept, Uncleared, Resizing, Due, FrameThread,
                                            Threads
      <4> QED BY <4>1 DEF OnePicture, Kept, Nothing
    <3> QED BY <3>1, <3>2
  <2> QED BY <1>2, <2>2, <2>3 DEF OnePicture, Picture
<1>6. CASE b = c /\ ~WorkerMustTerminate /\ t # FrameThread
  <2>1. clear[t] /\ t = "main" /\ FrameThread = "worker"
    BY <1>1, <1>6, WhoCopies DEF FrameThread, Threads
  <2>2. PICK p \in {Picture} \cup (IF BeingWritten(t) THEN {Torn} ELSE {}) : samples'[b] = {p}
    BY <1>6, <2>1 DEF Threading, TypeOK, Kept, Nothing
  <2>3. BeingWritten(t) => Due(b)'
    <3> SUFFICES ASSUME BeingWritten(t) PROVE Due(b)'
      OBVIOUS
    <3>1. \/ step["worker"] \in Objects /\ Changed(step["worker"])
          \/ step["worker"] = "context" /\ clear["worker"]
      BY <2>1 DEF BeingWritten, Changed, Threads, Threading, WorkerRuns
    <3> QED BY <1>2, <2>1, <3>1 DEF Due, Changed, Objects, FrameThread
  <2> QED BY <1>2, <2>2, <2>3 DEF OnePicture, Picture
<1> QED BY <1>3, <1>4, <1>5, <1>6

(* A frame that begins or ends leaves due blocks behind only where it gives
   up a clearing, which is recorded as a loss. *)
LEMMA FrameKeepsBlocks ==
  ASSUME Threading, Sized, BlocksAreKept, NEW t \in Threads,
         \/ UpdateIntervalContext(t) \/ BeginFrame(t) \/ LockBackBuffer(t) \/ Tonemap(t)
  PROVE  BlocksAreKept'
<1> SUFFICES ASSUME NEW b \in Blocks \ lost', ~Uncleared(b)'
             PROVE  OnePicture(b)'
  BY DEF BlocksAreKept
<1>1. /\ UNCHANGED <<synchronous, scene, copies, sampler, size, clear, samples, run, then>>
      /\ \A u \in Threads \ {t} : step'[u] = step[u] /\ todo'[u] = todo[u]
  BY DEF UpdateIntervalContext, BeginFrame, LockBackBuffer, Tonemap, EndFrame, GoTo,
         Threading, TypeOK, fixed, loop, shared, buffers
<1>2. b \notin lost
  BY DEF UpdateIntervalContext, BeginFrame, LockBackBuffer, Tonemap, buffers
<1>3. (Due(b) => Due(b)') /\ OnePicture(b) => OnePicture(b)'
  BY <1>1 DEF OnePicture, Picture
<1>4. CASE t = FrameThread
  <2>1. OnePicture(b)
    <3>1. main' = main \/ synchronous
      BY <1>4 DEF UpdateIntervalContext, BeginFrame, LockBackBuffer, Tonemap, EndFrame, FrameThread
    <3>2. t = "worker" \/ synchronous
      BY <1>4 DEF FrameThread
    <3> QED BY <1>1, <1>2, <3>1, <3>2 DEF BlocksAreKept, Uncleared, Resizing, Threads
  <2>2. CASE UpdateIntervalContext(t)
    BY <1>1, <1>3, <1>4, <2>1, <2>2
       DEF UpdateIntervalContext, GoTo, Due, FrameThread, Threading, TypeOK
  <2>3. CASE BeginFrame(t)
    <3>1. CASE WorkerMustTerminate
      <4>1. ~clear[t]
        BY <2>3, <3>1 DEF BeginFrame
      <4>2. ~Due(b)
        BY <1>4, <2>3, <4>1 DEF BeginFrame, Due
      <4> QED BY <1>3, <2>1, <4>2
    <3>2. CASE ~WorkerMustTerminate
      BY <1>1, <1>3, <1>4, <2>1, <2>3, <3>2
         DEF BeginFrame, GoTo, Due, FrameThread, Threading, TypeOK
    <3> QED BY <3>1, <3>2
  <2>4. CASE LockBackBuffer(t)
    <3>1. CASE size = 0
      BY <1>1, <3>1 DEF Sized, OnePicture, Nothing
    <3>2. CASE size # 0
      BY <1>1, <1>3, <1>4, <2>1, <2>4, <3>2
         DEF LockBackBuffer, GoTo, Due, FrameThread, Threading, TypeOK
    <3> QED BY <3>1, <3>2
  <2>5. CASE Tonemap(t)
    <3>1. ~Due(b)
      BY <1>4, <2>5 DEF Tonemap, Due
    <3> QED BY <1>3, <2>1, <3>1
  <2> QED BY <2>2, <2>3, <2>4, <2>5
<1>5. CASE t # FrameThread
  <2>1. t = "main" /\ Resizing /\ ~synchronous /\ run /\ FrameThread = "worker" /\ size # 0
    <3>1. step[t] # "off"
      BY DEF UpdateIntervalContext, BeginFrame, LockBackBuffer, Tonemap
    <3> QED BY <1>5, <3>1, WhoCopies DEF FrameThread, Threads, Sized
  <2>2. Due(b) => Due(b)'
    BY <1>1, <2>1 DEF Due, FrameThread, Changed, Threads
  <2>3. CASE Tonemap(t)
    BY <1>2, <1>3, <2>1, <2>2, <2>3 DEF Tonemap, BlocksAreKept, Uncleared
  <2>4. CASE UpdateIntervalContext(t)
    BY <1>5, <2>4, WhoCopies DEF UpdateIntervalContext
  <2>5. CASE BeginFrame(t) \/ LockBackBuffer(t)
    <3>1. Uncleared(b) => Uncleared(b)'
      BY <1>1, <2>1, <2>5
         DEF BeginFrame, LockBackBuffer, WorkerMustTerminate, Uncleared, Resizing, GoTo,
             Threading, TypeOK
    <3> QED BY <1>2, <1>3, <2>2, <3>1 DEF BlocksAreKept
  <2> QED BY <2>3, <2>4, <2>5
<1> QED BY <1>4, <1>5

(* The samples of the blocks are kept by every step. *)
LEMMA NextBlocks ==
  ASSUME Threading, Sized, BlocksAreKept, [Next]_vars
  PROVE  BlocksAreKept'
<1>1. CASE MainLoop \/ Close
  BY <1>1, LoopKeepsBlocks
<1>2. ASSUME NEW t \in Threads, Frame(t)
      PROVE  BlocksAreKept'
  BY <1>2, CopiesKeepBlocks, RenderKeepsBlocks, FrameKeepsBlocks DEF Frame
<1>3. CASE RunLoop
  BY <1>3 DEF RunLoop, GoTo, BlocksAreKept, Uncleared, Resizing, OnePicture, Picture, Due,
              Changed, FrameThread, Threads, Threading, TypeOK, MainFrames, WorkerRuns,
              fixed, loop, shared, buffers
<1>4. CASE UNCHANGED vars
  BY <1>4 DEF vars, BlocksAreKept, Uncleared, Resizing, OnePicture, Picture, Due,
              Changed, FrameThread, fixed, loop, shared, frame, buffers
<1> QED BY <1>1, <1>2, <1>3, <1>4 DEF Next, Worker, Exited, Threads

(* Samples that are all equal are at most one. *)
LEMMA KeptBlocksAreOfOnePicture ==
  ASSUME BlocksAreKept
  PROVE  SamplesOfOnePicture
<1> SUFFICES ASSUME ~Resizing, NEW b \in Blocks \ lost
             PROVE  Cardinality(samples[b]) <= 1
  BY DEF SamplesOfOnePicture
<1>1. \A p, q \in samples[b] : p = q
  BY DEF BlocksAreKept, Uncleared, OnePicture
<1>2. CASE samples[b] = {}
  BY <1>2, FS_EmptySet
<1>3. CASE samples[b] # {}
  <2>1. PICK p : samples[b] = {p}
    BY <1>1, <1>3
  <2> QED BY <2>1, FS_Singleton
<1> QED BY <1>2, <1>3

-----------------------------------------------------------------------------
(* The inductive invariant holds in every reachable state. *)
THEOREM Invariance == Spec => []IInv
<1>1. IInv /\ [Next]_vars => IInv'
  BY NextThreading, NextStopped, NextContext, NextSized, NextBlocks DEF IInv
<1> QED BY InitIInv, <1>1, PTL DEF Spec

(* Every variable of the two threads keeps its type, and the thread that
   holds the back buffer's lock is the one that renders blocks. *)
THEOREM TypeCorrect == Spec => []TypeOK
<1>1. IInv => TypeOK
  BY DEF IInv, Threading
<1> QED BY Invariance, <1>1, PTL

(* While the volume or the framebuffer is replaced, no thread renders and
   no context refers to the sampler. *)
THEOREM WorkersStop == Spec => []WorkersAreStopped
<1>1. IInv => WorkersAreStopped
  BY DEF IInv
<1> QED BY Invariance, <1>1, PTL

(* Frames are rendered with the context of the sampler and of their copies. *)
THEOREM ContextIsCurrent == Spec => []RendersWithItsContext
<1>1. IInv => RendersWithItsContext
  BY ContextOfFrame DEF IInv
<1> QED BY Invariance, <1>1, PTL

(* A block accumulates the samples of one picture. *)
THEOREM AccumulatesOnePicture == Spec => []SamplesOfOnePicture
<1>1. IInv => SamplesOfOnePicture
  BY KeptBlocksAreOfOnePicture DEF IInv
<1> QED BY Invariance, <1>1, PTL
=============================================================================
