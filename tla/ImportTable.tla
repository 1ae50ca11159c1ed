---------------------------- MODULE ImportTable ----------------------------
(***************************************************************************)
(* The table the game's imports are resolved against, default_dynlib of    *)
(* source/dynlib.c, as far as it decides which library serves a call.  The *)
(* program holds several libraries that know objects of one kind: two C    *)
(* libraries, newlib and the system's SceLibc behind SceLibcBridge, whose  *)
(* streams are not each other's.  A row is one import, or stands for the   *)
(* imports of its sort; a call makes an object, uses it, ends it, or turns *)
(* it into one of another kind.                                            *)
(*                                                                         *)
(* A wrapper of source/ passes objects on to the library it wraps, and the *)
(* row names that library.  External: the libraries, and the game, which   *)
(* uses an object in any way its kind allows.                              *)
(***************************************************************************)
EXTENDS Integers, Sequences, FiniteSets

CONSTANTS Objects   \* what the game holds at a time

VARIABLES bridge,   \* constant: USE_SCELIBC_IO
          object,   \* what each object is, and the library that made it
          last      \* the last call on an object: its row, and the maker

importVars == <<bridge, object, last>>

Libraries == {"newlib", "SceLibc", "libstdc++", "vitaGL", "FMOD", "zlib", "stub"}
Kinds == {"memory", "exception", "stream", "descriptor", "directory", "addresses",
          "pthread", "rwlock", "semaphore", "key", "deflation", "gzfile", "library",
          "shader", "program", "GL buffer", "context", "sound", "DSP"}

None == "none"
NoObject == [kind |-> None, by |-> None]

Row(call, by, takes, gives, ends) ==
    [call |-> call, by |-> by, takes |-> takes, gives |-> gives, ends |-> ends]

Plain(calls, by)      == {Row(c, by, None, None, FALSE) : c \in calls}
Make(calls, by, kind) == {Row(c, by, None, kind, FALSE) : c \in calls}
Use(calls, by, kind)  == {Row(c, by, kind, None, FALSE) : c \in calls}
End(calls, by, kind)  == {Row(c, by, kind, None, TRUE) : c \in calls}
Turn(calls, by, from, to) == {Row(c, by, from, to, FALSE) : c \in calls}

-----------------------------------------------------------------------------
(* The table, section by section.                                          *)

InternalRows ==
    Plain({"__aeabi_idiv", "__cxa_guard_acquire", "__stack_chk_fail", "_ZSt9terminatev"}, "libstdc++")
    \cup Make({"_Znwj", "_Znaj"}, "newlib", "memory")
    \cup End({"_ZdlPv", "_ZdaPv"}, "newlib", "memory")
    \cup Use({"__aeabi_memcpy", "__aeabi_memset"}, "newlib", "memory")
    \cup Make({"__cxa_allocate_exception"}, "libstdc++", "exception")
    \cup Use({"__cxa_throw", "__cxa_begin_catch"}, "libstdc++", "exception")
    \cup End({"__cxa_end_catch", "__cxa_free_exception"}, "libstdc++", "exception")
    \cup Make({"__sF"}, "newlib", "stream")
    \cup Use({"__srget", "__swbuf"}, "newlib", "stream")

CtypeAndLogRows == Plain({"_ctype_", "isalnum", "__android_log_print"}, "newlib")

MathRows == Plain({"acos", "truncf"}, "newlib")

ProcessRows ==
    Plain({"getpid", "sigsetjmp", "bsearch"}, "newlib")
    \cup Make({"socketpair"}, "newlib", "descriptor")
    \cup Use({"dup2", "writev"}, "newlib", "descriptor")
    \cup Use({"setbuf"}, "newlib", "stream")
    \cup Use({"mprotect", "mlock"}, "newlib", "memory")

SocketRows ==
    Make({"socket", "accept"}, "newlib", "descriptor")
    \cup Use({"bind", "connect", "send", "recv", "setsockopt", "shutdown", "poll"},
             "newlib", "descriptor")
    \cup Make({"getaddrinfo"}, "newlib", "addresses")
    \cup End({"freeaddrinfo"}, "newlib", "addresses")
    \cup Plain({"inet_ntop", "gethostbyname"}, "newlib")

MemoryRows ==
    Make({"calloc", "malloc", "memalign", "valloc", "mmap"}, "newlib", "memory")
    \cup Use({"memcpy", "memset", "realloc"}, "newlib", "memory")
    \cup End({"free", "munmap"}, "newlib", "memory")

\* The C library of the standard streams, by the build.
Std(sce) == IF sce THEN "SceLibc" ELSE "newlib"

WrappedIORows(sce) ==
    Make({"open"}, "newlib", "descriptor")
    \cup Use({"fcntl", "fstat", "ioctl"}, "newlib", "descriptor")
    \cup End({"close"}, "newlib", "descriptor")
    \cup Make({"fopen"}, Std(sce), "stream")
    \cup End({"fclose"}, Std(sce), "stream")
    \cup Make({"opendir"}, "newlib", "directory")
    \cup Use({"readdir", "readdir_r"}, "newlib", "directory")
    \cup End({"closedir"}, "newlib", "directory")

StreamRows(sce) ==
    Turn({"fdopen"}, Std(sce), "descriptor", "stream")
    \cup Use({"feof", "ferror", "fflush", "fgetc", "fgetpos", "fgets", "fputc", "fputs",
              "fread", "freopen", "fseek", "fsetpos", "ftell", "fwrite", "getc", "getwc",
              "putc", "putwc", "setvbuf", "ungetc", "ungetwc"}, Std(sce), "stream")
    \cup Plain({"putchar", "puts"}, Std(sce))

FileRows ==
    Turn({"fileno"}, "newlib", "stream", "descriptor")
    \cup Use({"fseeko", "ftello", "rewind"}, "newlib", "stream")
    \cup Make({"pipe"}, "newlib", "descriptor")
    \cup Turn({"dup"}, "newlib", "descriptor", "descriptor")
    \cup Use({"ftruncate", "lseek", "read", "write"}, "newlib", "descriptor")
    \cup Make({"getcwd", "realpath"}, "newlib", "memory")
    \cup Plain({"access", "mkdir", "remove"}, "newlib")

\* Mutant: these rows are left out of the #ifdef.
PrintRows_Newlib(sce) ==
    Plain({"snprintf", "vprintf", "printf"}, "newlib")
    \cup Make({"vasprintf"}, "newlib", "memory")
    \cup Use({"fprintf", "fscanf", "vfprintf"}, "newlib", "stream")

PrintRows(sce) ==
    Plain({"snprintf", "vprintf", "printf"}, "newlib")
    \cup Make({"vasprintf"}, "newlib", "memory")
    \cup Use({"fprintf", "fscanf", "vfprintf"}, Std(sce), "stream")
    \cup Plain({"sscanf"}, Std(sce))

EglRows ==
    Make({"eglCreateContext"}, "vitaGL", "context")
    \cup Use({"eglMakeCurrent"}, "vitaGL", "context")
    \cup End({"eglDestroyContext"}, "vitaGL", "context")
    \cup Plain({"eglInitialize", "eglSwapBuffers", "eglGetError"}, "vitaGL")

\* glActiveTexture to glGenTextures, and the rest.
GLObjectRows ==
    Make({"glGenBuffers", "glGenTextures", "glGenFramebuffersOES"}, "vitaGL", "GL buffer")
    \cup Use({"glBindBuffer", "glBindTexture", "glBindFramebufferOES", "glBufferData"},
             "vitaGL", "GL buffer")
    \cup End({"glDeleteBuffers", "glDeleteTextures", "glDeleteFramebuffersOES"},
             "vitaGL", "GL buffer")
    \cup Make({"glCreateProgram"}, "vitaGL", "program")
    \cup Use({"glAttachShader", "glBindAttribLocation"}, "vitaGL", "program")
    \cup End({"glDeleteProgram"}, "vitaGL", "program")
    \cup Make({"glCreateShader"}, "vitaGL", "shader")
    \cup Use({"glCompileShader"}, "vitaGL", "shader")
    \cup End({"glDeleteShader"}, "vitaGL", "shader")
    \cup Plain({"glClear", "glDrawArrays", "glEnable"}, "vitaGL")
    \cup Plain({"glDetachShader", "glCompressedTexSubImage2D"}, "stub")

GLStateRows ==
    Use({"glGenerateMipmap", "glTexImage2D", "glTexSubImage2D"}, "vitaGL", "GL buffer")
    \cup Use({"glGetAttribLocation", "glGetProgramiv", "glLinkProgram", "glUseProgram",
              "glUniform4fv"}, "vitaGL", "program")
    \cup Use({"glGetShaderiv", "glShaderSource"}, "vitaGL", "shader")
    \cup Plain({"glGetError", "glVertexAttribPointer", "glViewport"}, "vitaGL")
    \cup Plain({"glLightx", "glMaterialx", "glPixelStorei", "glValidateProgram"}, "stub")

\* Both copies of the pthread section begin with these rows.
ThreadRows ==
    Make({"pthread_create", "pthread_mutex_init", "pthread_cond_init", "pthread_attr_init"},
         "newlib", "pthread")
    \cup Use({"pthread_mutex_lock", "pthread_cond_wait", "pthread_attr_setstacksize"},
             "newlib", "pthread")
    \cup End({"pthread_join", "pthread_detach", "pthread_mutex_destroy",
              "pthread_cond_destroy", "pthread_attr_destroy"}, "newlib", "pthread")
    \cup Make({"pthread_key_create"}, "newlib", "key")
    \cup Use({"pthread_getspecific", "pthread_setspecific"}, "newlib", "key")
    \cup End({"pthread_key_delete"}, "newlib", "key")
    \cup Plain({"pthread_once", "pthread_self", "sched_yield"}, "newlib")
    \cup Plain({"pthread_sigmask"}, "stub")
    \cup Make({"sem_init"}, "newlib", "semaphore")
    \cup Use({"sem_post", "sem_wait", "sem_timedwait"}, "newlib", "semaphore")
    \cup End({"sem_destroy"}, "newlib", "semaphore")

WideRows == Plain({"btowc", "iswalpha", "wcslen", "wmemset"}, "newlib")

DlRows ==
    Make({"dlopen"}, "stub", "library")
    \cup Use({"dlsym"}, "stub", "library")
    \cup End({"dlclose"}, "stub", "library")
    \cup Plain({"dlerror"}, "stub")

ErrnoRows == Plain({"__errno", "strerror", "strerror_r"}, "newlib")

StringRows ==
    Make({"strdup"}, "newlib", "memory")
    \cup Use({"memchr", "strcpy", "strcat", "strtok"}, "newlib", "memory")
    \cup Plain({"strcmp", "strlen"}, "newlib")

SystemAndTimeRows ==
    Plain({"syscall", "system", "clock_gettime", "localtime", "nanosleep", "time"}, "newlib")
    \cup Plain({"sysconf"}, "stub")

TempRows ==
    Make({"mkstemp"}, "newlib", "descriptor")
    \cup Make({"tmpfile"}, "newlib", "stream")
    \cup Plain({"mktemp", "tmpnam"}, "newlib")

StdlibRows(sce) ==
    Plain({"abort", "atoi", "exit", "lrand48", "usleep"}, "newlib")
    \cup Plain({"prctl"}, "stub")
    \cup Plain({"qsort", "rand", "srand"}, Std(sce))

RestRows == Plain({"getenv", "setenv", "setjmp", "longjmp", "raise", "sigaction",
                   "setlocale"}, "newlib")

ZlibRows ==
    Make({"deflateInit_", "inflateInit_"}, "zlib", "deflation")
    \cup Use({"deflate", "deflateReset", "inflate", "inflateReset"}, "zlib", "deflation")
    \cup End({"deflateEnd", "inflateEnd"}, "zlib", "deflation")
    \cup Make({"gzopen"}, "zlib", "gzfile")
    \cup Use({"gzgets"}, "zlib", "gzfile")
    \cup End({"gzclose"}, "zlib", "gzfile")
    \cup Plain({"adler32", "compress", "crc32"}, "zlib")

ThreadRowsAgain ==
    ThreadRows
    \cup Make({"pthread_rwlock_init"}, "newlib", "rwlock")
    \cup Use({"pthread_rwlock_rdlock", "pthread_rwlock_wrlock", "pthread_rwlock_unlock"},
             "newlib", "rwlock")
    \cup End({"pthread_rwlock_destroy"}, "newlib", "rwlock")

FmodRows ==
    Make({"createSound", "createStream"}, "FMOD", "sound")
    \cup Use({"playSound", "getOpenState", "getLength"}, "FMOD", "sound")
    \cup End({"Sound::release"}, "FMOD", "sound")
    \cup Make({"createDSPByType"}, "FMOD", "DSP")
    \cup Use({"addDSP", "removeDSP", "setMeteringEnabled"}, "FMOD", "DSP")
    \cup End({"DSP::release"}, "FMOD", "DSP")
    \cup Plain({"FMOD_System_Create", "System::update", "setPaused"}, "FMOD")
    \cup Plain({"System::getCPUUsage"}, "stub")

default_dynlib(sce) ==
    <<InternalRows, CtypeAndLogRows, MathRows, ProcessRows, SocketRows, MemoryRows,
      WrappedIORows(sce), StreamRows(sce), FileRows, PrintRows(sce), EglRows, GLObjectRows,
      GLStateRows, ThreadRows, WideRows, DlRows, ErrnoRows, StringRows, SystemAndTimeRows,
      TempRows, StdlibRows(sce), RestRows, ZlibRows, ThreadRowsAgain, FmodRows>>

-----------------------------------------------------------------------------
(* so_resolve: an import is bound to the first row of its name.            *)

CallsOf(rows) == {r.call : r \in rows}

FirstRows(groups) ==
    UNION {{r \in groups[i] : \A j \in 1..i - 1 : r.call \notin CallsOf(groups[j])}
              : i \in DOMAIN groups}

BoundWithBridge == FirstRows(default_dynlib(TRUE))
BoundWithout    == FirstRows(default_dynlib(FALSE))
Bound == IF bridge THEN BoundWithBridge ELSE BoundWithout

ImportInit ==
    /\ bridge \in BOOLEAN
    /\ object = [o \in Objects |-> NoObject]
    /\ last = [row |-> Row(None, None, None, None, FALSE), maker |-> None]

Free(o) == object[o] = NoObject
Made(row) == [kind |-> row.gives, by |-> row.by]
Called(row, o) == last' = [row |-> row, maker |-> object[o].by]

MakeObject(o) ==
    /\ Free(o)
    /\ \E row \in Bound : row.takes = None /\ row.gives # None
                          /\ object' = [object EXCEPT ![o] = Made(row)]
    /\ UNCHANGED <<bridge, last>>

UseObject(o) ==
    /\ ~Free(o)
    /\ \E row \in Bound : /\ row.takes = object[o].kind
                          /\ row.gives = None /\ ~row.ends
                          /\ Called(row, o)
    /\ UNCHANGED <<bridge, object>>

EndObject(o) ==
    /\ ~Free(o)
    /\ \E row \in Bound : row.takes = object[o].kind /\ row.ends /\ Called(row, o)
    /\ object' = [object EXCEPT ![o] = NoObject]
    /\ UNCHANGED bridge

\* fdopen takes its descriptor over; fileno and dup leave theirs.
TurnObject(o, p) ==
    /\ ~Free(o) /\ (Free(p) \/ p = o)
    /\ \E row \in Bound : /\ row.takes = object[o].kind /\ row.gives # None
                          /\ (p = o) = (row.call = "fdopen")
                          /\ object' = [object EXCEPT ![p] = Made(row)]
                          /\ Called(row, o)
    /\ UNCHANGED bridge

ImportNext ==
    \E o \in Objects : \/ MakeObject(o) \/ UseObject(o) \/ EndObject(o)
                       \/ \E p \in Objects : TurnObject(o, p)

ImportSpec == ImportInit /\ [][ImportNext]_importVars

-----------------------------------------------------------------------------
(* Properties.                                                             *)

\* The stream calls that stay newlib's in a build with SceLibcBridge, and the
\* two ways the game comes by a stream of newlib's there.
StillNewlib == {"fileno", "fseeko", "ftello", "rewind", "setbuf", "__srget", "__swbuf"}

\* Every call on an object is served by the library that made it, whatever
\* calls it came by.  With SceLibcBridge there are three exceptions, no more: a
\* stream of SceLibc given to a call that stays newlib's, a stream of newlib
\* (the standard ones, tmpfile) given to one of SceLibc's, and fdopen.
ServedByMaker ==
    \/ last.row.by = last.maker
    \/ /\ bridge
       /\ \/ last.row.call \in StillNewlib /\ last.maker = "SceLibc"
          \/ last.row.takes = "stream" /\ last.maker = "newlib" /\ last.row.by = "SceLibc"
          \/ last.row.call = "fdopen"

\* What an import made there is an import to end, by the same library, except
\* newlib's streams in a build with SceLibcBridge.
EveryObjectCanEnd ==
    \A o \in Objects :
        \/ Free(o)
        \/ bridge /\ object[o] = [kind |-> "stream", by |-> "newlib"]
        \/ \E row \in Bound : row.ends /\ row.takes = object[o].kind /\ row.by = object[o].by

\* From its making to its end an object stays with the library that made it.
ObjectsServed == ServedByMaker /\ EveryObjectCanEnd
=============================================================================
