-------------------------------- MODULE Fetch --------------------------------
(***************************************************************************)
(* What a run makes of what the outside answers while it fetches an item   *)
(* (skills/video-eval/video.py, gather, and the media.py it shares with    *)
(* the youtube-transcript skill): material for the judge, a normal answer  *)
(* that ends the job ("unavailable"), or an error for the queue to retry.  *)
(***************************************************************************)
EXTENDS Naturals, Sequences, FiniteSets

(* A file that waits here, a YouTube video, an Instagram reel, or a share  *)
(* link of one.                                                            *)
Sources == {"file", "youtube", "reel", "share"}

-----------------------------------------------------------------------------
(* A share link *)

(* What one request answers: no redirect, or one off Instagram; a redirect *)
(* to a reel, or to anything else of Instagram's; or nothing at all.       *)
Hops == {"astray", "reel", "onward", "failed"}

MaxHops == 3

(* resolve_share: redirects are followed until one decides.                *)
Resolve(hops) ==
    LET decide == {k \in 1..MaxHops : hops[k] # "onward"}
    IN  IF decide = {} THEN "astray"
        ELSE hops[CHOOSE k \in decide : \A l \in decide : k <= l]

-----------------------------------------------------------------------------
(* Captions *)

(* The tracks a pass of yt-dlp downloaded: a human one, or original ones   *)
(* in the spoken language, in English or in others.                        *)
Tracks == {{}, {"human"}, {"spoken", "other"}, {"English", "other"}, {"other"},
           {"other", "another"}}

(* trouble: a timeout is "unreachable" too, and leaves no track to read.   *)
Passes == [tracks : Tracks, blank : BOOLEAN,
           trouble : {"none", "unreachable", "blocked", "refused"}]

(* pick: never one of several original tracks in a language nobody asked   *)
(* for.  The spoken language may be unknown.                               *)
Pick(tracks, known) ==
    \/ "human" \in tracks \/ "English" \in tracks
    \/ known /\ "spoken" \in tracks
    \/ Cardinality(tracks) = 1

Reads(p, known) == Pick(p.tracks, known) /\ ~p.blank

Unfit(p, known) == p.tracks # {} /\ ~Pick(p.tracks, known)

(* What is kept of a pass that gave no text: tracks of the wrong language  *)
(* are a trouble of their own, and the pass's own is not looked at.        *)
Trouble(p, known) == IF Unfit(p, known) THEN "refused" ELSE p.trouble

Ends(p, known) == Reads(p, known) \/ Trouble(p, known) = "unreachable"

(* captions: human captions, then the automatic ones of the languages      *)
(* wanted, then all originals if the spoken language is known and had      *)
(* none.  The first text or missing answer decides, else the last trouble. *)
CaptionRuns == [human : Passes, narrow : Passes, wide : Passes, known : BOOLEAN]

Captions(c) ==
    LET passes == IF c.known /\ c.narrow.tracks = {}
                  THEN <<c.human, c.narrow, c.wide>> ELSE <<c.human, c.narrow>>
        ending == {k \in DOMAIN passes : Ends(passes[k], c.known)}
        trouble == {k \in DOMAIN passes : Trouble(passes[k], c.known) # "none"}
        first == passes[CHOOSE k \in ending : \A l \in ending : k <= l]
        last == passes[CHOOSE k \in trouble : \A l \in trouble : k >= l]
    IN  IF ending # {}
        THEN IF Reads(first, c.known) THEN "text" ELSE "unreachable"
        ELSE IF trouble # {} /\ Trouble(last, c.known) = "blocked" THEN "blocked"
        ELSE "no text"
-----------------------------------------------------------------------------
(* One item *)

(* download and its error's words: a file; no file and no error, because   *)
(* it is too long; words that say what the item is, an answer              *)
(* (unavailable_line); anything else, a timeout included, a failure.       *)
Downloads == {"media", "too long", "answer", "failed"}

(* extract_audio and transcribe: what ffmpeg takes out of the file, and    *)
(* what whisper makes of it. An ffmpeg that cannot be started is an error; *)
(* one that is cut short, by its time limit or a fault of its own, is not: *)
(* the file then has no speech, like one without audio.                    *)
Audio == {"audio", "none", "cut short", "failed"}

Transcripts == {"text", "no text", "failed"}

Answers ==
    [share : {Resolve(h) : h \in [1..MaxHops -> Hops]},
     info : {"info", "answer", "failed"},
     captions : {Captions(c) : c \in CaptionRuns},
     long : BOOLEAN, download : Downloads,
     audio : Audio, transcript : Transcripts]

Told(answer) == IF answer = "failed" THEN "error" ELSE "unavailable"

Speech(a) ==
    CASE a.audio = "audio" -> a.transcript
      [] a.audio = "failed" -> "failed"
      [] OTHER -> "no text"

Heard(a) == IF Speech(a) = "text" THEN "material" ELSE Told(Speech(a))

Downloaded(a) == IF a.download = "media" THEN Heard(a) ELSE Told(a.download)

(* gather: a video's captions before its audio, which is not transcribed   *)
(* when the video is long.                                                 *)
Watched(a) ==
    IF a.info # "info" THEN Told(a.info)
    ELSE IF a.captions = "text" THEN "material"
    ELSE IF a.captions = "unreachable" THEN "error"
    ELSE IF a.captions = "blocked" \/ a.long THEN "unavailable"
    ELSE Downloaded(a)

Gather(source, a) ==
    CASE source = "file" -> Heard(a)
      [] source = "reel" -> Downloaded(a)
      [] source = "share" -> IF a.share = "reel" THEN Downloaded(a) ELSE Told(a.share)
      [] source = "youtube" -> Watched(a)

(* Every way an item of a source can be answered.                          *)
Gathered == [s \in Sources |-> {Gather(s, a) : a \in Answers}]
=============================================================================
