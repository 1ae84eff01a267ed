--------------------------- MODULE MCVideoStream ---------------------------
(* What the operator does in the instances of VideoStream. *)
EXTENDS VideoStream

\* Replacing, stopping, fading and covering a picture; seeks and steps during
\* a pause; a video started during a pause.
ShowScripts ==
    { <<"Play", "Play", "Fade">>,
      <<"Play", "Image", "Text", "Stop">>,
      <<"Play", "Image", "Fade">>,
      <<"Pause", "Play", "Pause", "StopAll">>,
      <<"Play", "Pause", "StepBack", "Pause">>,
      <<"Play", "Pause", "Step", "Pause">>,
      <<"Play", "Seek", "Pause">>,
      <<"Play", "Project">> }

\* Those after which a picture must come or go, or an end be reached.
LiveScripts ==
    { <<"Play", "Fade">>,
      <<"Play", "Image", "Stop">>,
      <<"Play", "Pause", "Seek">>,
      <<"Play", "Text", "Stop", "Stop">> }

\* One video right after another.
RestartScripts == { <<"Play", "Play">> }

\* A picture that fades out, and then a text.
TextScripts == { <<"Play", "Fade", "Text">>, <<"Play", "Image", "Fade", "Text">> }
=============================================================================
