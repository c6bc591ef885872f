CONSTANTS
    Tags = {"OR_POST", "OR_POSTEDIT", "OR_VIDEO", "OR_SERVER_PING", "OR_SCORE",
            "OR_COMPLAIN", "OR_SUBSCRIBE", "OR_SUBSCRIBEPRIVATE", "OR_UNSUBSCRIBE",
            "OR_USERINFO", "OR_VIDEO_SERVER", "OR_MESSAGE_SERVER", "OR_BLOCKING",
            "OR_UNBLOCKING", "OR_COMMENT", "OR_COMMENT_EDIT", "OR_COMMENT_DELETE",
            "OR_COMMENT_SCORE", "OR_UNKNOWN", "OP_RETURN"}
    Tables = {"Users", "Posts", "Comment", "Scores", "CommentScores", "Blocking",
              "Subscribes", "Complains", "Videos"}
    FlagValues = {"true", "false", "other", "none"}
SPECIFICATION Spec
INVARIANTS
    ClassificationMatchesSpec
