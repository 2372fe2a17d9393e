---------------------------- MODULE MCReplyParse ----------------------------
EXTENDS ReplyParse

const_Lengths   == {3, 4, 5, 7, 8, 10, 12, 13, 14, 20}
const_Preambles == {"", "OK", "SEARCHING..."}
=============================================================================
