---------------------------------- MODULE Pcmu ----------------------------------
(***************************************************************************)
(* The u-law codec of a call's audio (native_client/internal/chat/audio.go *)
(* after ITU-T G.711): a 16-bit sample becomes a byte of sign, exponent    *)
(* and mantissa, sent inverted.  A frame codes each sample on its own.     *)
(***************************************************************************)
EXTENDS Integers

VARIABLE pcm       \* the sample in the microphone's frame

Samples == (-32768)..32767
bias == 132
clip == 32635

Magnitude(s) == IF s < 0 THEN -s ELSE s

\* variant: a loud sample is not clipped before the bias is added
BiasedUnclipped(s) == Magnitude(s) + bias
Biased(s) == bias + (IF Magnitude(s) > clip THEN clip ELSE Magnitude(s))

(* The loop over mask: the highest bit of 7..14 that is set, counted from 7. *)
Exponent(m) ==
    LET set == {e \in 1..7 : (m \div 2^(e + 7)) % 2 = 1}
    IN IF set = {} THEN 0 ELSE CHOOSE e \in set : \A x \in set : x <= e

linearToULaw(s) ==
    LET m == Biased(s) e == Exponent(m) IN
    255 - ((IF s < 0 THEN 128 ELSE 0) + 16 * e + ((m \div 2^(e + 3)) % 16))

ulawToLinear(u) ==
    LET v == 255 - u
        sample == (8 * (v % 16) + bias) * 2^((v \div 16) % 8) - bias
    IN IF v >= 128 THEN -sample ELSE sample

(* encodePCMUFrame at one end and decodePCMUFrame at the other.            *)
Heard(s) == ulawToLinear(linearToULaw(s))

(* A signal that rises in fine or coarse steps passes every sample.        *)
PcmuInit == pcm = -32768
Speak == \E step \in {1, 256} : pcm' = pcm + step /\ pcm' \in Samples

(* What clipping takes off a loud sample: 132 of 32767, 133 of -32768.     *)
Clipped(s) == IF Magnitude(s) > clip THEN Magnitude(s) - clip ELSE 0

(* For every sample, where audio_test.go tries fifteen within a bound four *)
(* times as wide: beside what clipping takes off, the error is at most     *)
(* half a step of the sample's segment (the segment e holds the biased     *)
(* magnitudes from 2^(e + 7), in steps of 2^(e + 3)), a higher sample is   *)
(* never heard as a lower one, and what has been through the codec once is *)
(* not changed by it again.                                                *)
Companded ==
    /\ \E e \in 0..7 : /\ 2^(e + 7) <= Magnitude(pcm) + bias
                       /\ 2 * (Magnitude(pcm - Heard(pcm)) - Clipped(pcm)) <= 2^(e + 3)
    /\ pcm + 1 \in Samples => Heard(pcm) <= Heard(pcm + 1)
    /\ Heard(Heard(pcm)) = Heard(pcm)
=============================================================================
