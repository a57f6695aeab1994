------------------------------ MODULE MediaRules -----------------------------
(***************************************************************************)
(* What the program concludes from a file it was given: its format, from   *)
(* its first bytes (packages/media/src/index.ts, video.ts), what ffprobe   *)
(* says of it (ffmpeg.ts), whether it may be imported and then cut         *)
(* (video.ts, apps/api/src/features/media.ts), how far ffmpeg went in its  *)
(* rendering (ffmpeg.ts), and the part of a file a browser is sent         *)
(* (apps/api/src/routes/videos.ts).  Pure operators.  The first bytes are  *)
(* the mark they bear and how many there are; a time is in minutes.        *)
(***************************************************************************)
EXTENDS Integers, Sequences, FiniteSets

LOCAL INSTANCE SequencesExt

CONSTANTS
    MaxVideo, \* MEDIA_MAX_DURATION_S
    Null      \* what ffprobe does not say, the bound a range leaves empty

MediaAssumption == MaxVideo \in Nat /\ Null \notin Int

Least(a, b) == IF a <= b THEN a ELSE b
Most(a, b) == IF a <= b THEN b ELSE a

------------------------------------------------------------------------------
(* Formats.                                                                *)

Marks == {"riff", "ebml", "oggs", "mpeg", "ftyp", "ftyp_qt", "other"}

\* Under four bytes, under twelve, or more.
Sizes == {"none", "few", "enough"}

\* detectAudioFormat; the marks of RIFF and of ftyp are read up to the twelfth
\* byte.
AudioFormat(bytes) ==
    CASE bytes.size = "none"                                              -> "none"
      [] bytes.size = "enough" /\ bytes.mark = "riff"                     -> "wav"
      [] bytes.size # "none" /\ bytes.mark = "ebml"                       -> "webm"
      [] bytes.size # "none" /\ bytes.mark = "oggs"                       -> "ogg"
      [] bytes.size # "none" /\ bytes.mark = "mpeg"                       -> "mp3"
      [] bytes.size = "enough" /\ bytes.mark \in {"ftyp", "ftyp_qt"}      -> "m4a"
      [] OTHER                                                            -> "none"

\* MIMES, the first of each being the one that is stored.
AudioMimes(format) ==
    CASE format = "wav"  -> <<"audio/wav", "audio/wave", "audio/x-wav">>
      [] format = "webm" -> <<"audio/webm", "video/webm">>
      [] format = "ogg"  -> <<"audio/ogg", "application/ogg">>
      [] format = "mp3"  -> <<"audio/mpeg", "audio/mp3">>
      [] format = "m4a"  -> <<"audio/mp4", "audio/x-m4a", "video/mp4">>
      [] OTHER           -> <<>>

\* The brand of QuickTime is not told from the others: a mutant of
\* VideoFormat.
VideoFormat_NoBrand(bytes) ==
    CASE bytes.size # "enough"                 -> "none"
      [] bytes.mark = "ebml"                   -> "webm"
      [] bytes.mark \in {"ftyp", "ftyp_qt"}    -> "mp4"
      [] OTHER                                 -> "none"

\* detectVideoContainer.
VideoFormat(bytes) ==
    CASE bytes.size # "enough"   -> "none"
      [] bytes.mark = "ebml"     -> "webm"
      [] bytes.mark = "ftyp_qt"  -> "mov"
      [] bytes.mark = "ftyp"     -> "mp4"
      [] OTHER                   -> "none"

\* CONTAINER_MIMES and CONTAINER_MIME.
VideoMimes(format) ==
    CASE format = "mp4"  -> <<"video/mp4", "video/x-m4v">>
      [] format = "mov"  -> <<"video/quicktime">>
      [] format = "webm" -> <<"video/webm", "video/x-matroska">>
      [] OTHER           -> <<>>

\* What a client declares must be of the format that was found, or nothing.
Recognised(mimes, declared) ==
    mimes # <<>> /\ (declared = "application/octet-stream" \/ \E n \in DOMAIN mimes : mimes[n] = declared)

\* acceptedMimeTypes of GET /media/capabilities and of GET /videos/capabilities.
AnnouncedSounds == {"audio/webm", "video/webm", "audio/ogg", "audio/wav", "audio/mpeg", "audio/mp4"}
AnnouncedVideos == {"video/mp4", "video/quicktime", "video/webm"}

------------------------------------------------------------------------------
(* What is read of a video.                                                *)

\* parseFfprobeJson: the first video stream and the first audio one; the
\* duration of the file, or else of that stream.
ProbeOf(file) ==
    LET videos == SelectSeq(file.streams, LAMBDA s : s.type = "video")
        sounds == SelectSeq(file.streams, LAMBDA s : s.type = "audio")
        Of(field) == IF videos = <<>> THEN Null ELSE videos[1][field]
    IN [duration |-> IF file.duration # Null THEN file.duration ELSE Of("duration"),
        width |-> Of("width"), height |-> Of("height"), codec |-> Of("codec"),
        hasAudio |-> sounds # <<>>]

\* A duration is not asked for: a mutant of Supported.
Supported_NoDuration(probe) == probe.codec = "h264"

\* assertSupportedVideoProbe.
Supported(probe) ==
    /\ probe.codec = "h264"
    /\ probe.duration # Null /\ probe.duration > 0

Wide(probe) == probe.width # Null /\ probe.height # Null /\ probe.width > probe.height

\* videoWarnings; the length is said from thirty minutes on.
ImportWarnings(probe) ==
       (IF probe.hasAudio THEN {} ELSE {"silent"})
    \cup (IF probe.duration # Null /\ probe.duration > 30 THEN {"long"} ELSE {})
    \cup (IF Wide(probe) THEN {"cropped"} ELSE {})

\* renderPlanWarnings: a centred crop of 9:16 keeps less than 0.6 of the width.
PlanWarnings(probe, heard) ==
       (IF heard THEN {} ELSE {"no_speech"})
    \cup (IF Wide(probe) /\ 10 * 9 * probe.height < 6 * 16 * probe.width THEN {"cropped"} ELSE {})

\* sourceVideo, of a video of the project of the content: "none" when it may be
\* cut.
SourceRefusal(probe) ==
    IF probe.duration = Null \/ probe.duration <= 0 THEN "VIDEO_DURATION_UNKNOWN"
    ELSE IF probe.duration > MaxVideo THEN "VIDEO_TOO_LONG"
    ELSE "none"

------------------------------------------------------------------------------
(* The progress of ffmpeg.                                                 *)

\* The last of the two keys wins: a mutant of Read.
Read_Last(seen, line) ==
    CASE line.key = "out_time_us" -> [seen EXCEPT !.time = line.value, !.exact = TRUE]
      [] line.key = "out_time_ms" -> [seen EXCEPT !.time = line.value]
      [] OTHER                    -> seen

\* One line of parseFfmpegProgressBlock: both keys are in microseconds, and a
\* value that is no number is passed over.
Read(seen, line) ==
    CASE line.value = Null        -> seen
      [] line.key = "out_time_us" -> [seen EXCEPT !.time = line.value, !.exact = TRUE]
      [] line.key = "out_time_ms" -> IF seen.exact THEN seen ELSE [seen EXCEPT !.time = line.value]
      [] OTHER                    -> seen

TimeOf(lines) == FoldLeft(Read, [time |-> Null, exact |-> FALSE], lines).time

\* The percentage, without one when the duration that is expected is unknown.
Percent(lines, expected) ==
    LET time == TimeOf(lines) IN
    IF time = Null \/ expected = Null \/ expected <= 0 THEN Null
    ELSE Least(100, Most(0, (200 * time + expected) \div (2 * expected)))

------------------------------------------------------------------------------
\* What the screens are told they may send is taken, when the bytes are what is
\* declared, and what is stored of a file describes its bytes: sent again under
\* the stored type, or read by the other detector, it is the same file.
AnnouncedIsTaken(bytes) ==
    LET sound == AudioMimes(AudioFormat(bytes))
        video == VideoMimes(VideoFormat(bytes))
        files == [mark : Marks, size : {"enough"}]
    IN /\ \A declared \in AnnouncedSounds :
              \E b \in files : Recognised(AudioMimes(AudioFormat(b)), declared)
       /\ \A declared \in AnnouncedVideos :
              \E b \in files : Recognised(VideoMimes(VideoFormat(b)), declared)
       /\ sound # <<>> => Recognised(sound, sound[1])
       /\ video # <<>> => Recognised(video, video[1]) /\ AudioFormat(bytes) \in {"webm", "m4a"}

\* A film that is imported can be cut, unless it is too long; its cropping and
\* its silence are said before a plan is made, and its length too where the
\* limit is not under the thirty minutes of the warning.
ImportedCanBeCut(file) ==
    LET probe == ProbeOf(file) IN
    Supported(probe) =>
        /\ SourceRefusal(probe) \in {"none", "VIDEO_TOO_LONG"}
        /\ SourceRefusal(probe) = "VIDEO_TOO_LONG" /\ MaxVideo >= 30 => "long" \in ImportWarnings(probe)
        /\ \A heard \in BOOLEAN : "cropped" \in PlanWarnings(probe, heard) => "cropped" \in ImportWarnings(probe)

\* The same for any limit.  The code does not keep it: by default a film is
\* too long from fifteen minutes on, and nothing is said under thirty.
TooLongIsSaid(file) ==
    LET probe == ProbeOf(file) IN
    Supported(probe) /\ SourceRefusal(probe) = "VIDEO_TOO_LONG" => "long" \in ImportWarnings(probe)

\* The progress is the time in microseconds whatever the order of the two keys,
\* the other one being the fallback of an ffmpeg that does not write it, and
\* its percentage is one.
ProgressIsExact(lines, expected) ==
    LET Said(key) == SelectSeq(lines, LAMBDA l : l.key = key /\ l.value # Null)
        percent == Percent(lines, expected)
    IN /\ TimeOf(lines) =
            IF Said("out_time_us") # <<>> THEN Last(Said("out_time_us")).value
            ELSE IF Said("out_time_ms") # <<>> THEN Last(Said("out_time_ms")).value
            ELSE Null
       /\ percent # Null => percent \in 0 .. 100 /\ (percent = 100 => 2 * TimeOf(lines) * 100 >= 199 * expected)

------------------------------------------------------------------------------
(* The part of a file a browser asks for, to move along the timeline of a  *)
(* video: "bytes=5-" and "bytes=-5" leave one bound empty.                 *)

\* The end is the one asked for: a mutant of LastByte.
LastByte_Asked(last, size) == IF last = Null THEN size - 1 ELSE last

LastByte(last, size) ==
    IF last = Null \/ last > size - 1 THEN size - 1 ELSE last

\* An empty start is the first byte, also in "bytes=-5".
FirstByte(first) == IF first = Null THEN 0 ELSE first

\* sendMediaFile: a part of the file, or the whole when the header names none.
Served(first, last, size) ==
    LET start == FirstByte(first)
        end == LastByte(last, size)
    IN IF start <= end
       THEN [status |-> 206, start |-> start, length |-> end - start + 1]
       ELSE [status |-> 200, start |-> 0, length |-> size]

\* What is announced can be read: the part is not empty, starts and ends in
\* the file, and walking the file from the end of a part to the next one
\* reaches its end, for a file of any size - an empty one too.
RangeIsInside(first, last, size) ==
    LET served == Served(first, last, size) IN
    /\ served.start + served.length <= size
    /\ served.status = 206 => served.length > 0 /\ served.start < size
    /\ served.status = 200 => served.length = size
    /\ served.status = 206 /\ first # Null /\ served.start + served.length < size =>
         Served(served.start + served.length, Null, size)
            = [status |-> 206, start |-> served.start + served.length,
               length |-> size - served.start - served.length]
==============================================================================
