----------------------------- MODULE JpegCodec ------------------------------
(***************************************************************************)
(* One frame through the Raspberry Pi's codecs: frame_converter_convert    *)
(* (main/frame_converter_rpi.c), brcmjpeg_decode and brcmjpeg_encode       *)
(* (main/brcmjpeg_encode.c) and the loops of mmal/brcmjpeg.c.              *)
(*                                                                         *)
(* The main thread hands buffers to a port of an MMAL component, takes     *)
(* full ones from a queue, and waits on a semaphore when there is none.    *)
(* MMAL's threads fill buffers, queue them and then post the semaphore     *)
(* (brcmjpeg_mmal_cb), once for every buffer whether or not anyone waits;  *)
(* what is left of a frame's posts is there for the next.                  *)
(*                                                                         *)
(* A picture is a number of chunks, of the size of a port's buffers.  A    *)
(* buffer taken from a port's pool whose mmal_port_send_buffer fails is    *)
(* neither sent nor released: the code has lost it for good.               *)
(* Nothing looks at the results: a frame that could not be decoded is      *)
(* encoded from the picture before, one that could not be encoded is       *)
(* published with the size reached.                                        *)
(***************************************************************************)
EXTENDS Integers, Sequences, FiniteSets

CONSTANTS
    MaxInput,   \* bound: chunks of a camera frame; 0 is the empty frame
    MaxOutput,  \* bound: chunks of an encoded frame
    Space,      \* output_alloc_size, in chunks
    InBuffers,  \* buffer_num of the decoder's input port
    OutBuffers, \* buffer_num of the encoder's output port
    MaxPosts    \* bound: posts counted by a semaphore

ASSUME CodecAssumption ==
    /\ MaxInput \in Nat /\ MaxOutput \in Nat \ {0} /\ Space \in Nat
    /\ InBuffers \in Nat \ {0} /\ OutBuffers \in Nat \ {0} /\ MaxPosts \in Nat \ {0}

VARIABLES
    codecPc,    \* "idle"; "feed", "decoding", "await decoder"; "send",
                \* "encoding", "await encoder"; "publish"; "failed"
    decoder,    \* in: chunks left to send; free: empty input buffers; sent:
                \* chunks with the decoder; got: it has the last one; port:
                \* the output port is "new", "announced", "formatted"; full:
                \* its queue; lost: input buffers lost; out: the output port
                \* has its one buffer still
    encoder,    \* in: the picture is with the encoder; free: empty output
                \* buffers; sent: the places given with those sent, oldest
                \* first; next: outBuf; full: the queue of filled ones; loop;
                \* size: output_size; coded: chunks made of the picture;
                \* failed: "no", "space", "error"; lost: output buffers lost;
                \* pic: the input port has its one buffer still
    decPosts, encPosts, \* the semaphores
    output      \* output[i]: the chunk at place i of the buffer encoded to

codecVars == <<codecPc, decoder, encoder, decPosts, encPosts, output>>

CodecInit ==
    /\ codecPc = "idle"
    /\ decoder = [in |-> 0, free |-> InBuffers, sent |-> 0, got |-> FALSE, port |-> "new", full |-> <<>>,
                  lost |-> 0, out |-> TRUE]
    /\ encoder = [in |-> FALSE, free |-> OutBuffers, sent |-> <<>>, next |-> 1, full |-> <<>>,
                  loop |-> 0, size |-> 0, coded |-> 0, failed |-> "no",
                  lost |-> 0, pic |-> TRUE]
    /\ decPosts = 0 /\ encPosts = 0
    /\ output = [i \in 1..Space |-> 0]

Post(posts) == IF posts = MaxPosts THEN posts ELSE posts + 1
Lesser(a, b) == IF a < b THEN a ELSE b

(* brcmjpeg_configure_encoder and the local variables of brcmjpeg_encode.  *)
(* Output buffers may still be full from the frame before: see Encoded.    *)
(* If it fails nothing is encoded, and no port is disabled.                *)
BeginEncode ==
    /\ \E failed \in {"no", "error"} :
        /\ codecPc' = IF failed = "no" THEN "send" ELSE "publish"
        /\ encoder' = [encoder EXCEPT !.in = FALSE, !.next = 1, !.loop = 0, !.size = 0, !.coded = 0,
                                      !.failed = failed]
    /\ output' = [i \in 1..Space |-> 0]
    /\ UNCHANGED <<decPosts, encPosts>>

-----------------------------------------------------------------------------
(* brcmjpeg_decode *)

(* brcmjpeg_configure_decoder: the output port is disabled, which empties  *)
(* its queue, and enabled again for a format yet unknown.                  *)
BeginDecode ==
    /\ codecPc = "idle"
    /\ \E n \in 0..MaxInput :
        decoder' = [decoder EXCEPT !.in = n, !.got = FALSE, !.port = "new", !.full = <<>>]
    /\ codecPc' = "feed"
    /\ UNCHANGED <<encoder, decPosts, encPosts, output>>

(* As many chunks as there are buffers; the last one carries EOS. *)
FeedDecoder ==
    /\ codecPc = "feed"
    /\ LET n == Lesser(decoder.in, decoder.free) IN
        decoder' = [decoder EXCEPT !.in = @ - n, !.free = @ - n, !.sent = @ + n,
                                   !.got = @ \/ (n > 0 /\ n = decoder.in)]
    /\ codecPc' = "decoding"
    /\ UNCHANGED <<encoder, decPosts, encPosts, output>>

NothingDecoded ==
    /\ codecPc = "decoding" /\ decoder.full = <<>>
    /\ codecPc' = "await decoder"
    /\ UNCHANGED <<decoder, encoder, decPosts, encPosts, output>>

AwaitDecoder ==
    /\ codecPc = "await decoder" /\ decPosts > 0
    /\ decPosts' = decPosts - 1
    /\ codecPc' = "feed"
    /\ UNCHANGED <<decoder, encoder, encPosts, output>>

(* The format of the picture is known: the output port is set up again and *)
(* given its buffer, if there is one.                                      *)
FormatChanged ==
    /\ codecPc = "decoding"
    /\ decoder.full # <<>> /\ Head(decoder.full) = "format"
    /\ decoder' = [decoder EXCEPT !.full = <<>>,
                                   !.port = IF decoder.out THEN "formatted" ELSE @]
    /\ codecPc' = "feed"
    /\ UNCHANGED <<encoder, decPosts, encPosts, output>>

(* The picture, whole: the output port has one buffer for all of it.       *)
(* mmal_port_flush takes the input buffers back.                           *)
Decoded ==
    /\ codecPc = "decoding"
    /\ decoder.full # <<>> /\ Head(decoder.full) = "picture"
    /\ decoder' = [decoder EXCEPT !.full = Tail(@), !.free = InBuffers - decoder.lost, !.sent = 0]
    /\ BeginEncode

(* Any call may fail, that of brcmjpeg_configure_decoder included, or the  *)
(* decoder reports an error; mmal_port_flush takes the input buffers sent  *)
(* back.  A failing mmal_port_send_buffer loses its buffer: one of the     *)
(* input port, or the output port's when the format is known.              *)
DecodeFails ==
    /\ codecPc \in {"feed", "decoding"}
    /\ \E lost \in {decoder.lost, decoder.lost + 1}, out \in {decoder.out, FALSE} :
        /\ lost # decoder.lost => codecPc = "feed" /\ decoder.in > 0 /\ decoder.free > 0
        /\ out # decoder.out =>
             codecPc = "decoding" /\ decoder.full # <<>> /\ Head(decoder.full) = "format"
        /\ decoder' = [decoder EXCEPT !.in = 0, !.free = InBuffers - lost, !.sent = 0,
                                      !.lost = lost, !.out = out]
    /\ BeginEncode

(* MMAL: a chunk is consumed and its buffer returned; the format becomes   *)
(* known with the first; the picture is done when the last is consumed.    *)
DecoderRuns ==
    /\ \/ /\ decoder.sent > 0
          /\ decoder' = [decoder EXCEPT !.sent = @ - 1, !.free = @ + 1,
                !.full = IF decoder.port = "new" THEN Append(@, "format") ELSE @,
                !.port = IF @ = "new" THEN "announced" ELSE @]
       \/ /\ decoder.got /\ decoder.sent = 0 /\ decoder.port = "formatted"
          /\ decoder' = [decoder EXCEPT !.full = Append(@, "picture"), !.got = FALSE]
    /\ decPosts' = Post(decPosts)
    /\ UNCHANGED <<codecPc, encoder, encPosts, output>>

-----------------------------------------------------------------------------
(* brcmjpeg_encode *)

(* A turn's buffers: every empty output buffer is sent with the next part  *)
(* of the output, one of no length (place Space + 1) when there is none    *)
(* left, then the picture if the input port has a buffer for it.           *)
SendBuffers ==
    /\ codecPc = "send"
    /\ encoder' = [encoder EXCEPT
            !.sent = @ \o [i \in 1..encoder.free |-> Lesser(encoder.next + i - 1, Space + 1)],
            !.next = Lesser(@ + encoder.free, Space + 1),
            !.free = 0,
            !.in = @ \/ (encoder.coded = 0 /\ encoder.pic)]
    /\ codecPc' = "encoding"
    /\ UNCHANGED <<decoder, decPosts, encPosts, output>>

NothingEncoded ==
    /\ codecPc = "encoding" /\ encoder.full = <<>>
    /\ codecPc' = "await encoder"
    /\ UNCHANGED <<decoder, encoder, decPosts, encPosts, output>>

AwaitEncoder ==
    /\ codecPc = "await encoder" /\ encPosts > 0
    /\ encPosts' = encPosts - 1
    /\ codecPc' = "send"
    /\ UNCHANGED <<decoder, encoder, decPosts, output>>

NoSpaceHasty == Head(encoder.full).length = 0 \* mutant: any empty buffer

(* What the code takes for "no more output space" is an empty buffer, once *)
(* as many as there are have been received: the first ones may be empty    *)
(* because of the flush.                                                   *)
NoSpace == encoder.loop + 1 >= OutBuffers /\ Head(encoder.full).length = 0

TakeFullKept(e) == [e EXCEPT !.size = @ + Head(e.full).length, !.full = Tail(@)] \* mutant: not released

(* A full buffer is counted and released. *)
TakeFull(e) == [e EXCEPT !.size = @ + Head(e.full).length, !.full = Tail(@), !.free = @ + 1]

TakeEncoded ==
    /\ codecPc = "encoding"
    /\ encoder.full # <<>> /\ ~Head(encoder.full).eos
    /\ encoder' = [TakeFull(encoder) EXCEPT !.loop = Lesser(@ + 1, OutBuffers),
                        !.failed = IF NoSpace THEN "space" ELSE @]
    /\ codecPc' = IF NoSpace THEN "failed" ELSE "send"
    /\ UNCHANGED <<decoder, decPosts, encPosts, output>>

(* The last one.  mmal_port_flush ends the loan of the buffers still sent: *)
(* they come back empty, on the queue of full ones or to the pool.         *)
Encoded ==
    /\ codecPc = "encoding"
    /\ encoder.full # <<>> /\ Head(encoder.full).eos
    /\ \E queued \in 0..Len(encoder.sent) :
        encoder' = [TakeFull(encoder) EXCEPT
            !.full = @ \o [i \in 1..queued |-> [length |-> 0, eos |-> FALSE]],
            !.free = @ + Len(encoder.sent) - queued,
            !.sent = <<>>]
    /\ codecPc' = "publish"
    /\ UNCHANGED <<decoder, decPosts, encPosts, output>>

(* Any call may fail.  A failing mmal_port_send_buffer loses the output    *)
(* buffer or the picture's input buffer it was given.                      *)
EncodeFails ==
    /\ codecPc \in {"send", "encoding"}
    /\ \/ encoder' = [encoder EXCEPT !.failed = "error"]
       \/ /\ codecPc = "send" /\ encoder.free > 0
          /\ encoder' = [encoder EXCEPT !.failed = "error", !.free = @ - 1, !.lost = @ + 1]
       \/ /\ codecPc = "send" /\ ~encoder.in /\ encoder.coded = 0
          /\ encoder' = [encoder EXCEPT !.failed = "error", !.pic = FALSE]
    /\ codecPc' = "failed"
    /\ UNCHANGED <<decoder, decPosts, encPosts, output>>

(* The error exit: both ports are disabled, and every buffer that is not   *)
(* lost is empty.                                                          *)
DisablePorts ==
    /\ codecPc = "failed"
    /\ encoder' = [encoder EXCEPT !.in = FALSE, !.free = OutBuffers - encoder.lost,
                                  !.sent = <<>>, !.full = <<>>]
    /\ codecPc' = "publish"
    /\ UNCHANGED <<decoder, decPosts, encPosts, output>>

(* frame_converter_convert: the listeners are given output_size bytes. *)
PublishEncoded ==
    /\ codecPc = "publish"
    /\ codecPc' = "idle"
    /\ UNCHANGED <<decoder, encoder, decPosts, encPosts, output>>

(* MMAL: the next chunk of the picture goes to the oldest buffer sent, and *)
(* nothing to one of no length.                                            *)
EncoderRuns ==
    /\ encoder.in /\ encoder.sent # <<>>
    /\ LET place == Head(encoder.sent) IN
        IF place > Space
        THEN /\ encoder' = [encoder EXCEPT !.sent = Tail(@),
                    !.full = Append(@, [length |-> 0, eos |-> FALSE])]
             /\ UNCHANGED output
        ELSE \E last \in BOOLEAN :
            /\ encoder.coded + 1 = MaxOutput => last
            /\ output' = [output EXCEPT ![place] = encoder.coded + 1]
            /\ encoder' = [encoder EXCEPT !.sent = Tail(@), !.coded = @ + 1, !.in = ~last,
                    !.full = Append(@, [length |-> 1, eos |-> last])]
    /\ encPosts' = Post(encPosts)
    /\ UNCHANGED <<codecPc, decoder, decPosts>>

Convert ==
    \/ BeginDecode \/ FeedDecoder \/ NothingDecoded \/ AwaitDecoder \/ FormatChanged \/ Decoded
    \/ SendBuffers \/ NothingEncoded \/ AwaitEncoder \/ TakeEncoded \/ Encoded
    \/ DisablePorts \/ PublishEncoded
CodecFails == DecodeFails \/ EncodeFails
Mmal == DecoderRuns \/ EncoderRuns

CodecNext == Convert \/ CodecFails \/ Mmal

(* The main thread goes on, and MMAL works on what it has been given.      *)
CodecFairness ==
    /\ WF_codecVars(Convert)
    /\ WF_codecVars(DecoderRuns) /\ WF_codecVars(EncoderRuns)

CodecSpec == CodecInit /\ [][CodecNext]_codecVars /\ CodecFairness

-----------------------------------------------------------------------------
(* Properties. *)

(* Every buffer of a port has one place whatever fails: the output buffers *)
(* of the encoder are empty, sent, full, or lost to a failed send, those   *)
(* of the decoder's input empty, sent or lost; no other error exit costs   *)
(* the pool a buffer, and no flush gives it one twice.                     *)
PortBuffersAccounted ==
    /\ encoder.free + Len(encoder.sent) + Len(encoder.full) + encoder.lost = OutBuffers
    /\ decoder.free + decoder.sent + decoder.lost = InBuffers

(* What is published is the beginning of this frame's encoding, in order   *)
(* and without a gap, although its pieces were handed out and taken back   *)
(* one by one and some came back empty; all of it unless it failed.  "no   *)
(* more output space for encoder" is said only when the output is full,    *)
(* although the flush leaves empty buffers to the next frame.              *)
EncodedInPlace ==
    codecPc = "publish" =>
        /\ \A i \in 1..encoder.size : output[i] = i
        /\ encoder.failed = "no" => encoder.size = encoder.coded
        /\ encoder.failed = "space" => encoder.coded = Space

(* Failed sends have taken every buffer of one of the four ports. *)
PoolDry ==
    \/ decoder.lost = InBuffers \/ ~decoder.out
    \/ encoder.lost = OutBuffers \/ ~encoder.pic

(* As long as no port's pool is dry every conversion of a frame that is    *)
(* not empty ends: no post of the semaphore is missed, and those left over *)
(* from other frames do no harm.  (An empty frame sends no EOS, and with a *)
(* dry pool nothing more is sent: the main thread waits for ever.)         *)
ConversionEnds == codecPc = "feed" /\ decoder.in > 0 ~> codecPc = "idle" \/ PoolDry
=============================================================================
